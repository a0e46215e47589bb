CONSTANTS
  t1 = t1
  t2 = t2
  Threads = {t1, t2}
  MaxSource = 1
SPECIFICATION Spec
INVARIANTS CopyIsReadable
