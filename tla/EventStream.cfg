\* One run with two pull requests, the second opened or adopted later.
SPECIFICATION FairSpec
CONSTANTS
  Pr = {"p", "q"}
  Named = {"p"}
  Reader = {1, 2}
  NoReader = 0
  MaxEvents = 1
  MaxOutages = 1
INVARIANTS
  TypeOK
PROPERTIES
  ConnectionsEnd
  HeardIsFired
  
CHECK_DEADLOCK FALSE
