\* Two destinations and one thread.
CONSTANTS
  NumDests = 2
  Threads = {t1}
  FailuresOption = 2
  NumAttemptsStored = 3
  DefaultDelta = 1
  MaxDelta = 2
  Factor = 2
  MaxAgo = 3
  MaxOvershoot = 4
SPECIFICATION Spec
INVARIANTS
  
  WorkingDestinationsListed

  
