\* Two lists of artifacts are fetched one after the other.
SPECIFICATION Spec
CONSTANTS
  x = x
  Endpoints <- TwoLists
  Check = {}
  NodeWakes = 2
  FollowsRunbook = TRUE
  MaxComments = 3
  MaxHead = 1
  MaxNews = 3
  MaxLosses = 0
INVARIANTS
  NoCommentIsLost
CHECK_DEADLOCK FALSE
