\* A pass and a command tell the story of two nodes.
SPECIFICATION FairSpec
CONSTANTS
  Node = {"a", "b"}
  Passes = {"pass"}
  Commands = {"command"}
  MaxEvents = 3
  MaxLosses = 1
  MaxCrashes = 1
INVARIANTS
  StoryIsToldInOrder
PROPERTIES
  PublishedIsTried
CHECK_DEADLOCK FALSE
