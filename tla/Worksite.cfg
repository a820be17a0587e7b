SPECIFICATION FairSpec
CONSTANTS
  Fresh = {"n"}
  Adopted = {"p"}
  MaxWorkers = 1
  MaxAgents = 2
  MaxCommands = 1
  MaxAccidents = 1
INVARIANTS WorldMatchesTheRows
PROPERTIES AbortReachesEveryRow NothingIsTakenBack MergedIsReclaimed EndedWorkIsSettled
CHECK_DEADLOCK FALSE
