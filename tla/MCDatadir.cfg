\* Three processes, two bandwidth files, one crash.
CONSTANTS
  Kinds = {"ResultErrorDestination"}
  FreshDays = 0
  DataCompress = 1
  DataDelete = 2
  BwCompress = 1
  BwDelete = 2
  MaxDay = 5
  MaxWrites = 1
  MaxGenerates = 2
  MaxCrashes = 1
SPECIFICATION Spec
INVARIANTS
  TypeOK
  ValidResultsRead
  LatestIsWhole
  OnlyCrashBlocksGenerate
