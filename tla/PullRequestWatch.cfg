\* Two lists of comments fetched one after the other, a check, a conflict, an approval, a push; a pass that dies at
\* any write, or a verdict that restores marks.
SPECIFICATION FairSpec
CONSTANTS
  x = x
  Endpoints <- TwoLists
  Check = {x}
  NodeWakes = 2
  FollowsRunbook = FALSE
  MaxComments = 2
  MaxHead = 2
  MaxNews = 2
  MaxLosses = 1
INVARIANTS
  LostBetweenCallsOnly
  NewsIsToldOnce
  OneAgentUnlessAPassDied
PROPERTIES
  CommentsReachTheAgent
CHECK_DEADLOCK FALSE
