\* Two relays measured by two threads, one round of main_loop.
CONSTANTS
  Relays = {r1, r2}
  MeasurementThreads = 2
  TestingTorNetwork = TRUE
  MaxRounds = 1
SPECIFICATION Spec
INVARIANTS
  TypeOK
  EachResultAccountedFor
  NoQueuedSuccessLost
PROPERTIES
  ImplementsMeasurementLog
  
\* The process ends, and a SIGTERM under a lock blocks it for good.
CHECK_DEADLOCK FALSE
