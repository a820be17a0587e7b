------------------------------ MODULE DagGraph ------------------------------
(***************************************************************************)
(* The graph of a run and the questions the controller asks of it          *)
(* (domain/service/graph_service.py).  The code computes each answer with  *)
(* a worklist; the definitions here are the least fixed points those loops *)
(* reach, written as an intersection of closed sets so that they can be    *)
(* reasoned about.  DagGraphWalk checks that the loops compute them.       *)
(***************************************************************************)
EXTENDS Naturals

CONSTANTS Node,       \* the ids of the graph's [[nodes]]
          DependsOn   \* depends_on of each node

\* The validators reject an id that names no node of the graph, a node that
\* depends on itself and a cycle (domain/service/validators): in every set of
\* nodes some node waits for none of the others.
ASSUME GraphAssumption ==
  /\ DependsOn \in [Node -> SUBSET Node]
  /\ \A S \in SUBSET Node : S # {} => \E n \in S : DependsOn[n] \cap S = {}

Pending    == "pending"
InProgress == "in_progress"
Resting    == "resting"
NeedsHuman == "needs_human"
Merged     == "merged"
Errored    == "errored"
Skipped    == "skipped"

NodeState ==
  {Pending, InProgress, Resting, NeedsHuman, Merged, Errored, Skipped}

\* The states that stop a node's dependents.
Stopped == {NeedsHuman, Errored}

\* The controller's own notion of a node it is finished with.
Terminal == {Merged, NeedsHuman, Errored, Skipped}

-----------------------------------------------------------------------------
\* S answers for n's dependencies once it holds those n declares and those of
\* every skipped node in it.
ResolvedWithin(n, skipped, S) ==
  /\ DependsOn[n] \subseteq S
  /\ \A d \in S \cap skipped : DependsOn[d] \subseteq S

\* The ids the dependency walk resolves, skipped ones included.
ResolvedDependencies(n, skipped) ==
  {d \in Node : \A S \in SUBSET Node : ResolvedWithin(n, skipped, S) => d \in S}

\* Each skipped dependency is replaced by its own dependencies.
EffectiveDependencies(n, skipped) == ResolvedDependencies(n, skipped) \ skipped

\* S is closed downstream of n once it holds each node that depends on n or
\* on a member of S.
ClosedDownstream(n, S) ==
  \A m \in Node : DependsOn[m] \cap (S \cup {n}) # {} => m \in S

Descendants(n) ==
  {m \in Node : \A S \in SUBSET Node : ClosedDownstream(n, S) => m \in S}

\* Whether a run with these node states can end, and as what.
RunStatus(states) ==
  IF states \subseteq {Merged, Skipped} THEN "complete"
  ELSE IF states \subseteq {NeedsHuman, Errored, Skipped} THEN "errored"
  ELSE "active"

=============================================================================
