------------------------- MODULE MCPullRequestWatch -------------------------
\* Small pull requests for the runs of PullRequestWatch.
EXTENDS PullRequestWatch

CONSTANT x

TwoLists == <<"issue_comment", "review_comment">>
=============================================================================
