---- MODULE MCGraphFile ----
EXTENDS GraphFile

Waiting(id, deps, cooldown) ==
  [id |-> id, deps |-> deps, cooldown |-> cooldown, flaw |-> "none"]

\* A chain, and a node that waits for two; the last node cools down.
MCFiles ==
  {[root |-> TRUE,
    nodes |-> <<Waiting("a", {}, 0), Waiting("b", deps, 0), Waiting("c", {"b"}, 2)>>] :
     deps \in {{}, {"a"}}}
====
