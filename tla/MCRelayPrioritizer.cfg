\* Rounds of one relay out of three, with consensuses of all, of two and of none.
CONSTANTS
  fast = fast
  slow = slow
  auth = auth
  Fingerprints = {fast, slow, auth}
  Exits = {fast, slow}
  Authorities = {auth}
  Consensuses = {{fast, slow, auth}, {slow, auth}, {}}
  MeasureAuthorities = FALSE
  MinRelays = 1
  Fraction <- MCFraction
  Period = 5
  MaxWait = 9
  MaxRestarts = 1
SPECIFICATION Spec
CHECK_DEADLOCK FALSE
INVARIANTS
  TypeOK
  
  NoEmptyRound
  CountsOfThePeriod
