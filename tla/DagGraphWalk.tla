---------------------------- MODULE DagGraphWalk ----------------------------
(***************************************************************************)
(* The worklist loops of the graph service and of the cycle validator, one *)
(* iteration per step, over every graph on Id.  The frontier of the code   *)
(* is a list popped from its end; here any member may be popped next, so   *)
(* the result is shown not to depend on the order in which dag.toml lists  *)
(* its nodes.                                                              *)
(***************************************************************************)
EXTENDS Naturals, FiniteSets

CONSTANTS Id,             \* the node ids
          MaxEdges        \* bound: how many depends_on edges a graph has

Graphs == {g \in [Id -> SUBSET Id] :
             Cardinality({e \in Id \X Id : e[2] \in g[e[1]]}) <= MaxEdges}

VARIABLES
  graph,      \* depends_on of each node, as loaded (cycles included)
  start,      \* the node the walk was asked about
  skippedIds, \* the ids of the run's skipped nodes
  walk,       \* "dependencies", "descendants" or "cycles"
  frontier,   \* ids still to visit (in the cycle walk: ids to peel next)
  reached,    \* resolved_ids, descendant_ids, or the peeled ids
  effective   \* effective_dependency_ids

walkVars == <<graph, start, skippedIds, walk, frontier, reached, effective>>
asked == <<graph, start, skippedIds, walk>>

\* What DagGraph says of this graph; its acyclicity assumption is not used.
G == INSTANCE DagGraph WITH Node <- Id, DependsOn <- graph

Walks == {"dependencies", "descendants", "cycles"}

WalkInit ==
  /\ graph \in Graphs
  /\ start \in Id
  /\ skippedIds \in SUBSET Id
  /\ walk \in Walks
  /\ reached = {}
  /\ effective = {}
  /\ frontier = CASE walk = "dependencies" -> graph[start]
                  [] walk = "descendants"  -> {start}
                  [] walk = "cycles"       -> {n \in Id : graph[n] = {}}

\* ResolveDependency without the resolved_ids guard (a mutated form).
ResolveDependencyForgetsResolved ==
  /\ walk = "dependencies"
  /\ \E d \in frontier :
       /\ reached' = reached \cup {d}
       /\ IF d \notin skippedIds
          THEN frontier' = frontier \ {d} /\ effective' = effective \cup {d}
          ELSE frontier' = (frontier \ {d}) \cup graph[d] /\ UNCHANGED effective
  /\ UNCHANGED asked

\* One iteration of the while loop of get_effective_dependencies.
ResolveDependency ==
  /\ walk = "dependencies"
  /\ \E d \in frontier :
       /\ reached' = reached \cup {d}
       /\ IF d \in reached
          THEN frontier' = frontier \ {d} /\ UNCHANGED effective
          ELSE IF d \notin skippedIds
          THEN frontier' = frontier \ {d} /\ effective' = effective \cup {d}
          ELSE frontier' = (frontier \ {d}) \cup graph[d] /\ UNCHANGED effective
  /\ UNCHANGED asked

\* CollectDependents stopping at the direct dependents (a mutated form).
CollectDirectDependents ==
  /\ walk = "descendants"
  /\ \E d \in frontier :
       /\ reached' = reached \cup ({m \in Id : d \in graph[m]} \ reached)
       /\ frontier' = frontier \ {d}
  /\ UNCHANGED <<asked, effective>>

\* One iteration of the while loop of get_descendants.
CollectDependents ==
  /\ walk = "descendants"
  /\ \E d \in frontier :
       LET dependents == {m \in Id : d \in graph[m]} \ reached
       IN /\ reached' = reached \cup dependents
          /\ frontier' = (frontier \ {d}) \cup dependents
  /\ UNCHANGED <<asked, effective>>

\* One round of the validator's elimination: every node whose remaining
\* dependencies are all peeled goes at once.
PeelStartable ==
  /\ walk = "cycles"
  /\ frontier # {}
  /\ reached' = reached \cup frontier
  /\ frontier' = {n \in Id \ reached' : graph[n] \subseteq reached'}
  /\ UNCHANGED <<asked, effective>>

WalkNext == ResolveDependency \/ CollectDependents \/ PeelStartable

WalkSpec == WalkInit /\ [][WalkNext]_walkVars /\ WF_walkVars(WalkNext)

-----------------------------------------------------------------------------
\* No set of nodes keeps each of its members waiting for another of them.
Acyclic == \A S \in SUBSET Id : S # {} => \E n \in S : graph[n] \cap S = {}

\* The loop of get_effective_dependencies ends on exactly the dependencies
\* that remain when every skipped node is taken out of the graph, whichever
\* way it pops its frontier and whatever cycles the skipped nodes are on.
WalkFindsEffectiveDependencies ==
  walk = "dependencies" /\ frontier = {}
    => effective = G!EffectiveDependencies(start, skippedIds)

\* The loop of get_descendants reaches every node whose dependency walk would
\* resolve the start node, whatever is skipped: a restarted or skipped node
\* can release every dependent it stopped (DependentReleaseService.release).
ReleaseReachesEveryWaiter ==
  walk = "descendants" /\ frontier = {}
    => /\ reached = G!Descendants(start)
       /\ {n \in Id : start \in G!ResolvedDependencies(n, skippedIds)} \subseteq reached

\* The cycle validator passes a graph exactly when it can be ordered, so a run
\* is never started on a graph that could not finish (_find_cycle_members).
ValidatorFindsCycles ==
  walk = "cycles" /\ frontier = {} => (reached = Id <=> Acyclic)

\* Every walk ends, on a cyclic graph too: resolved_ids and descendant_ids keep
\* the loops from coming back to a node.
WalkEnds == <>(frontier = {})

\* Each loop ends with what it is to compute (graph_service.py, cycle_validator.py),
\* whatever order it takes its worklist in.
WalksFindTheFixedPoints ==
  /\ WalkFindsEffectiveDependencies
  /\ ReleaseReachesEveryWaiter
  /\ ValidatorFindsCycles

=============================================================================
