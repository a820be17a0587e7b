\* A chain of three nodes under every command: sessions, dependencies, lock and job.
SPECIFICATION Spec
CONSTANTS
  a = a
  b = b
  c = c
  Node = {a, b, c}
  DependsOn <- Chain
  MaxWorkers = 1
  NodeWakes = 1
  RecoveryAllowance = 1
  Commands = {"retry", "skip", "stop", "abort", "recover"}
  MaxIncidents = 3
  StaleVerdicts = FALSE
INVARIANTS
  TypeOK
  SessionInv
  WorkStandsOnMergedDependencies
  ParkedBehindStopped
  RetiredRunHasNothingToDo
PROPERTIES
  FollowsTheLifecycle
  AbortKillsEveryAgent
CHECK_DEADLOCK FALSE
