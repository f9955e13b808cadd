\* Two relays, every filter and scaling method.
CONSTANTS
  None = None
  Version = 4
  Second = 2
  r1 = r1
  r2 = r2
  Relays = {r1, r2}
  LineLists <- MCLineLists
  Consensuses <- MCConsensuses
  NotMeasured = 1
  Arguments <- MCArguments
  ScaleConstant = 75
  TorflowCap = 60
  RoundDigits = 2
  MinReport = 60
  Kilo = 10
  Now = 8
SPECIFICATION Spec
INVARIANTS
  TypeOK
  
  
  ScaledWithinLimit
