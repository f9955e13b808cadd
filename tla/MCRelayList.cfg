\* Two threads, three consensuses within the period.
CONSTANTS
  fast = fast
  slow = slow
  m1 = m1
  m2 = m2
  m3 = m3
  m4 = m4
  Threads = {t1, t2}
  Fingerprints = {fast, slow, m1, m2, m3, m4}
  Exits = {fast, slow}
  Bandwidth <- MCBandwidth
  Consensuses <- MCConsensuses
  Hour = 2
  Period = 5
  MaxCount = 3
SPECIFICATION Spec
INVARIANTS
  TypeOK
  OneRefreshAnHour
  
  
  MinBwOfTop75
PROPERTIES
  EveryReadEnds
