\* One relay, two rounds of main_loop.
CONSTANTS
  Relays = {r1}
  MeasurementThreads = 2
  TestingTorNetwork = FALSE
  MaxRounds = 2
SPECIFICATION Spec
INVARIANTS
  MemoryMatchesDatadir

  
\* The process ends, and a SIGTERM under a lock blocks it for good.
CHECK_DEADLOCK FALSE
