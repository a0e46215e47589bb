CONSTANTS
  Callers = {t1, t2, t3}
  Nobody = Nobody
  Other = Other
SPECIFICATION FairClipboardSpec
INVARIANTS ClipboardTypeOK CopyStays
PROPERTIES EveryCopyReturns
