SPECIFICATION FairSpec
CONSTANTS
  Node = {"n"}
  Allowance = 2
  MaxAgents = 2
  MaxLearners = 2
  MaxCommands = 1
  MaxAccidents = 1
INVARIANTS NothingIsDispatchedTwice
PROPERTIES BatchesAreDue AbortEndsHelpers FailuresAreExamined SettledIsExtracted
CHECK_DEADLOCK FALSE
