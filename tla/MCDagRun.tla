------------------------------ MODULE MCDagRun ------------------------------
\* Small graphs for the runs of DagRun.
EXTENDS DagRun, TLC

CONSTANTS a, b, c

\* b waits for a and c waits for b.
Chain == a :> {} @@ b :> {a} @@ c :> {b}

\* Two nodes nothing holds back but the workers.
Siblings == a :> {} @@ b :> {}
=============================================================================
