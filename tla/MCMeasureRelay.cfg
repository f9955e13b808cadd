\* Two measurements at the same time, of relays that can exit.
CONSTANTS
  new = new
  old = old
  bad = bad
  middle = middle
  Threads = {t1, t2}
  Relays = {new, old, bad, middle}
  Prioritized = {new}
  Flags <- MCFlags
  ExitPolicy <- MCExitPolicy
  FlowCtrl <- MCFlowCtrl
  Bandwidth <- MCBandwidth
  ExitMinBw = 3
  NonExitMinBw = 0
  Consensuses <- MCConsensuses
  TestingTorNetwork = FALSE
  NumRtts = 1
  NumDownloads = 1
  InitialRead = 8
  MinDl = 8
  MaxDl = 24
  TooFast = 1
  DlMin = 5
  DlTarget = 6
  DlMax = 10
  Speeds = {1, 4}
  MaxProbes = 2
  MaxMeasurements = 2
SPECIFICATION Spec
SYMMETRY Symmetry
INVARIANTS
  TypeOK
  StreamThroughOwnCircuit
  OneCircuitLeftAtMost
  
  
PROPERTIES
  EndsOnceStopped
