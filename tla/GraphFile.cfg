\* Three nodes, one worker, one edit of the file.
SPECIFICATION FairSpec
CONSTANTS
  Id = {"a", "b", "c"}
  Files <- MCFiles
  Cooldowns = {0, 2}
  MaxWorkers = 1
  MaxTime = 3
  MaxEdits = 1
INVARIANTS
  RunKeepsToTheFile
PROPERTIES
  CooldownIsKept
  ReadyNodeStarts
CHECK_DEADLOCK FALSE
