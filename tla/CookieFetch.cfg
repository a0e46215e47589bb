CONSTANTS
  t1 = t1
  t2 = t2
  Threads = {t1, t2}
  MaxSource = 3
SPECIFICATION Spec
INVARIANTS TypeOK AloneIsExact NeverOlder
