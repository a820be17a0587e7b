\* Two nodes that compete for one worker, sent back by a verdict that
\* may come too late, losing a pass or a thread: they come to an end.
SPECIFICATION FairSpec
CONSTANTS
  a = a
  b = b
  c = c
  Node = {a, b}
  DependsOn <- Siblings
  MaxWorkers = 1
  NodeWakes = 1
  RecoveryAllowance = 1
  Commands = {"recover"}
  MaxIncidents = 1
  StaleVerdicts = TRUE
INVARIANTS
  SessionsWithinBudget
PROPERTIES
  RunSettles
CHECK_DEADLOCK FALSE
