\* One destination shared by two threads.
CONSTANTS
  NumDests = 1
  Threads = {t1, t2}
  FailuresOption = 1
  NumAttemptsStored = 3
  DefaultDelta = 1
  MaxDelta = 2
  Factor = 2
  MaxAgo = 3
  MaxOvershoot = 4
SPECIFICATION Spec
INVARIANTS
  TypeOK
  CappedAtRest
