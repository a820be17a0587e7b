---------------------------- MODULE DagRunProofs ----------------------------
(***************************************************************************)
(* What holds of every run, for every graph, budget and allowance: first   *)
(* that the walks over the graph compute what DagGraph says of it and what *)
(* that is good for, then types, the lock, sessions, endings,              *)
(* dependencies, release, workers, abort, the host job, and that the nodes *)
(* of a run live as NodeLifecycle allows.                                  *)
(***************************************************************************)
EXTENDS DagRun, DagGraphWalk, FiniteSetTheorems, TLAPS

-----------------------------------------------------------------------------
(* The walks: the worklist loops compute what DagGraph says of a graph of  *)
(* any size, with any dependencies, cyclic ones included, and in whatever  *)
(* order they take their worklist.                                         *)

WalkTypes ==
  /\ graph \in [Id -> SUBSET Id]
  /\ start \in Id
  /\ walk \in Walks
  /\ frontier \in SUBSET Id
  /\ reached \in SUBSET Id

\* What the dependency walk has reached or has still to visit is resolved, and
\* whatever it has passed has its dependencies reached or to be visited.
DependencyInv ==
  walk = "dependencies" =>
    /\ reached \cup frontier \subseteq G!ResolvedDependencies(start, skippedIds)
    /\ graph[start] \subseteq reached \cup frontier
    /\ \A d \in reached \cap skippedIds : graph[d] \subseteq reached \cup frontier
    /\ effective = reached \ skippedIds

\* What the descendant walk has reached are descendants, and those that depend on
\* what it has visited are reached.
DescendantInv ==
  walk = "descendants" =>
    /\ reached \subseteq G!Descendants(start)
    /\ frontier \subseteq reached \cup {start}
    /\ \A m \in Id : graph[m] \cap ((reached \cup {start}) \ frontier) # {} => m \in reached

\* The validator peels next whatever depends on peeled nodes only, and a set of which
\* it has peeled any has a node that waits for none of it.
CycleInv ==
  walk = "cycles" =>
    /\ frontier = {n \in Id \ reached : graph[n] \subseteq reached}
    /\ \A S \in SUBSET Id : S \cap reached # {} => \E n \in S : graph[n] \cap S = {}

WalkInv == WalkTypes /\ DependencyInv /\ DescendantInv /\ CycleInv

-----------------------------------------------------------------------------
\* What a node depends on is resolved, and what a resolved and skipped node depends on.
LEMMA WalkedIsClosed ==
  ASSUME WalkTypes, NEW n \in Id
  PROVE  /\ G!ResolvedDependencies(n, skippedIds) \in SUBSET Id
         /\ G!ResolvedWithin(n, skippedIds, G!ResolvedDependencies(n, skippedIds))
<1> DEFINE R == G!ResolvedDependencies(n, skippedIds)
<1>1. R \in SUBSET Id
  BY DEF G!ResolvedDependencies
<1>2. graph[n] \subseteq R
  BY DEF WalkTypes, G!ResolvedDependencies, G!ResolvedWithin
<1>3. ASSUME NEW d \in R \cap skippedIds PROVE graph[d] \subseteq R
  BY <1>1 DEF WalkTypes, G!ResolvedDependencies, G!ResolvedWithin
<1> QED
  BY <1>1, <1>2, <1>3 DEF G!ResolvedWithin

\* Whoever waits for a node, through skipped nodes too, is among its descendants.
LEMMA WaitersAreReached ==
  ASSUME WalkTypes, NEW n \in Id, start \in G!ResolvedDependencies(n, skippedIds)
  PROVE  n \in G!Descendants(start)
<1> SUFFICES ASSUME NEW S \in SUBSET Id, G!ClosedDownstream(start, S), n \notin S
             PROVE  FALSE
  BY DEF G!Descendants
<1> DEFINE T == Id \ (S \cup {start})
<1>1. G!ResolvedWithin(n, skippedIds, T)
  BY DEF WalkTypes, G!ResolvedWithin, G!ClosedDownstream
<1>2. start \in T
  BY <1>1 DEF G!ResolvedDependencies
<1> QED
  BY <1>2

\* Each walk begins at what it is asked about.
LEMMA WalkStart == WalkInit => WalkInv
<1> SUFFICES ASSUME WalkInit PROVE WalkInv
  OBVIOUS
<1>1. graph \in [Id -> SUBSET Id] /\ start \in Id /\ walk \in Walks /\ reached = {} /\ effective = {}
  BY DEF WalkInit, Graphs
<1>2. frontier = IF walk = "dependencies" THEN graph[start]
                 ELSE IF walk = "descendants" THEN {start} ELSE {n \in Id : graph[n] = {}}
  BY <1>1 DEF WalkInit, Walks
<1>3. WalkTypes
  BY <1>1, <1>2 DEF WalkTypes
<1>4. DependencyInv
  BY <1>1, <1>2, <1>3, WalkedIsClosed DEF DependencyInv, G!ResolvedWithin
<1>5. DescendantInv
  BY <1>1, <1>2 DEF DescendantInv
<1>6. CycleInv
  BY <1>1, <1>2 DEF CycleInv
<1> QED
  BY <1>3, <1>4, <1>5, <1>6 DEF WalkInv

\* One iteration of get_effective_dependencies keeps the invariant.
LEMMA DependencyStep ==
  ASSUME WalkInv, ResolveDependency
  PROVE  WalkInv'
<1>1. WalkTypes /\ walk = "dependencies" /\ UNCHANGED asked
  BY DEF WalkInv, ResolveDependency
<1>2. PICK d \in frontier :
        /\ reached' = reached \cup {d}
        /\ IF d \in reached
           THEN frontier' = frontier \ {d} /\ UNCHANGED effective
           ELSE IF d \notin skippedIds
           THEN frontier' = frontier \ {d} /\ effective' = effective \cup {d}
           ELSE frontier' = (frontier \ {d}) \cup graph[d] /\ UNCHANGED effective
  BY DEF ResolveDependency
<1> DEFINE R == G!ResolvedDependencies(start, skippedIds)
<1>3. /\ reached \cup frontier \subseteq R
      /\ graph[start] \subseteq reached \cup frontier
      /\ \A e \in reached \cap skippedIds : graph[e] \subseteq reached \cup frontier
      /\ effective = reached \ skippedIds
  BY <1>1 DEF WalkInv, DependencyInv
<1>4. R \in SUBSET Id /\ \A e \in R \cap skippedIds : graph[e] \subseteq R
  BY <1>1, WalkedIsClosed DEF WalkTypes, G!ResolvedWithin
<1>5. R' = R
  BY <1>1 DEF asked, G!ResolvedDependencies, G!ResolvedWithin
<1> HIDE DEF R
<1>6. reached' \cup frontier' \subseteq R
  BY <1>2, <1>3, <1>4
<1>7. graph[start] \subseteq reached' \cup frontier'
  BY <1>2, <1>3
<1>8. ASSUME NEW e \in reached' \cap skippedIds PROVE graph[e] \subseteq reached' \cup frontier'
  <2>1. CASE e \in reached
    BY <1>2, <1>3, <2>1
  <2>2. CASE e \notin reached
    BY <1>2, <2>2
  <2> QED
    BY <2>1, <2>2
<1>9. effective' = reached' \ skippedIds
  BY <1>2, <1>3
<1>10. WalkTypes'
  BY <1>1, <1>4, <1>6 DEF WalkTypes, asked
<1>11. DependencyInv'
  BY <1>1, <1>5, <1>6, <1>7, <1>8, <1>9 DEF DependencyInv, asked, R
<1> QED
  BY <1>1, <1>10, <1>11 DEF WalkInv, DescendantInv, CycleInv, asked

\* One iteration of get_descendants keeps the invariant.
LEMMA DescendantStep ==
  ASSUME WalkInv, CollectDependents
  PROVE  WalkInv'
<1>1. WalkTypes /\ walk = "descendants" /\ UNCHANGED asked
  BY DEF WalkInv, CollectDependents
<1>2. PICK d \in frontier :
        /\ reached' = reached \cup {m \in Id : d \in graph[m]}
        /\ frontier' = (frontier \ {d}) \cup ({m \in Id : d \in graph[m]} \ reached)
  BY DEF CollectDependents
<1>3. /\ reached \subseteq G!Descendants(start)
      /\ frontier \subseteq reached \cup {start}
      /\ \A m \in Id : graph[m] \cap ((reached \cup {start}) \ frontier) # {} => m \in reached
  BY <1>1 DEF WalkInv, DescendantInv
<1>4. ASSUME NEW m \in Id, d \in graph[m] PROVE m \in G!Descendants(start)
  <2> SUFFICES ASSUME NEW S \in SUBSET Id, G!ClosedDownstream(start, S)
               PROVE  m \in S
    BY DEF G!Descendants
  <2>1. d \in S \cup {start}
    BY <1>2, <1>3 DEF G!Descendants
  <2> QED
    BY <1>4, <2>1 DEF G!ClosedDownstream
<1>5. reached' \subseteq G!Descendants(start)
  BY <1>2, <1>3, <1>4
<1>6. frontier' \subseteq reached' \cup {start}
  BY <1>2, <1>3
<1>7. ASSUME NEW m \in Id, NEW x \in graph[m] \cap ((reached' \cup {start}) \ frontier')
      PROVE  m \in reached'
  <2>1. CASE x = d
    BY <1>2, <1>7, <2>1
  <2>2. CASE x # d
    BY <1>2, <1>3, <1>7, <2>2
  <2> QED
    BY <2>1, <2>2
<1>8. G!Descendants(start)' = G!Descendants(start)
  BY <1>1 DEF asked, G!Descendants, G!ClosedDownstream
<1>9. WalkTypes'
  BY <1>1, <1>2 DEF WalkTypes, asked
<1>10. DescendantInv'
  BY <1>1, <1>5, <1>6, <1>7, <1>8 DEF DescendantInv, asked
<1> QED
  BY <1>1, <1>9, <1>10 DEF WalkInv, DependencyInv, CycleInv, asked

\* One round of the cycle validator keeps the invariant.
LEMMA CycleStep ==
  ASSUME WalkInv, PeelStartable
  PROVE  WalkInv'
<1>1. /\ WalkTypes /\ walk = "cycles" /\ UNCHANGED asked
      /\ reached' = reached \cup frontier
      /\ frontier' = {n \in Id \ reached' : graph[n] \subseteq reached'}
  BY DEF WalkInv, PeelStartable
<1>2. /\ frontier = {n \in Id \ reached : graph[n] \subseteq reached}
      /\ \A S \in SUBSET Id : S \cap reached # {} => \E n \in S : graph[n] \cap S = {}
  BY <1>1 DEF WalkInv, CycleInv
<1>3. ASSUME NEW S \in SUBSET Id, S \cap reached' # {}
      PROVE  \E n \in S : graph[n] \cap S = {}
  <2>1. CASE S \cap reached # {}
    BY <1>2, <2>1
  <2>2. CASE S \cap reached = {}
    <3>1. PICK n \in S : n \in frontier
      BY <1>1, <1>3, <2>2
    <3> QED
      BY <1>2, <2>2, <3>1
  <2> QED
    BY <2>1, <2>2
<1>4. WalkTypes'
  BY <1>1 DEF WalkTypes, asked
<1>5. CycleInv'
  BY <1>1, <1>3 DEF CycleInv, asked
<1> QED
  BY <1>1, <1>4, <1>5 DEF WalkInv, DependencyInv, DescendantInv, asked

\* The invariant of the walks holds in every state of every walk.
THEOREM WalkInductive == WalkSpec => []WalkInv
<1>1. ASSUME WalkInv, UNCHANGED walkVars PROVE WalkInv'
  BY <1>1 DEF WalkInv, WalkTypes, DependencyInv, DescendantInv, CycleInv, walkVars,
     G!ResolvedDependencies, G!ResolvedWithin, G!Descendants, G!ClosedDownstream
<1>2. ASSUME WalkInv, [WalkNext]_walkVars PROVE WalkInv'
  BY <1>1, <1>2, DependencyStep, DescendantStep, CycleStep DEF WalkNext
<1> QED
  BY <1>2, WalkStart, PTL DEF WalkSpec

\* A walk that has no frontier left has found what DagGraph says: the dependencies
\* that remain, every node that could wait for the start, and whether the graph can be
\* ordered (graph_service.py, cycle_validator.py).
THEOREM WalksTheorem == WalkSpec => []WalksFindTheFixedPoints
<1>1. ASSUME WalkInv PROVE WalkFindsEffectiveDependencies
  <2> SUFFICES ASSUME walk = "dependencies", frontier = {}
               PROVE  effective = G!EffectiveDependencies(start, skippedIds)
    BY DEF WalkFindsEffectiveDependencies
  <2>1. /\ reached \in SUBSET Id
        /\ reached \subseteq G!ResolvedDependencies(start, skippedIds)
        /\ G!ResolvedWithin(start, skippedIds, reached)
        /\ effective = reached \ skippedIds
    BY <1>1 DEF WalkInv, WalkTypes, DependencyInv, G!ResolvedWithin
  <2>2. G!ResolvedDependencies(start, skippedIds) \subseteq reached
    BY <2>1 DEF G!ResolvedDependencies
  <2> QED
    BY <2>1, <2>2 DEF G!EffectiveDependencies
<1>2. ASSUME WalkInv PROVE ReleaseReachesEveryWaiter
  <2> SUFFICES ASSUME walk = "descendants", frontier = {}
               PROVE  /\ reached = G!Descendants(start)
                      /\ {n \in Id : start \in G!ResolvedDependencies(n, skippedIds)} \subseteq reached
    BY DEF ReleaseReachesEveryWaiter
  <2>1. /\ reached \in SUBSET Id
        /\ reached \subseteq G!Descendants(start)
        /\ G!ClosedDownstream(start, reached)
    BY <1>2 DEF WalkInv, WalkTypes, DescendantInv, G!ClosedDownstream
  <2>2. G!Descendants(start) \subseteq reached
    BY <2>1 DEF G!Descendants
  <2> QED
    BY <1>2, <2>1, <2>2, WaitersAreReached DEF WalkInv
<1>3. ASSUME WalkInv PROVE ValidatorFindsCycles
  <2> SUFFICES ASSUME walk = "cycles", frontier = {}
               PROVE  reached = Id <=> Acyclic
    BY DEF ValidatorFindsCycles
  <2>1. /\ graph \in [Id -> SUBSET Id]
        /\ reached \in SUBSET Id
        /\ {n \in Id \ reached : graph[n] \subseteq reached} = {}
        /\ \A S \in SUBSET Id : S \cap reached # {} => \E n \in S : graph[n] \cap S = {}
    BY <1>3 DEF WalkInv, WalkTypes, CycleInv
  <2>2. ASSUME reached = Id PROVE Acyclic
    BY <2>1, <2>2 DEF Acyclic
  <2>3. ASSUME Acyclic, reached # Id PROVE FALSE
    <3>1. PICK n \in Id \ reached : graph[n] \cap (Id \ reached) = {}
      BY <2>1, <2>3 DEF Acyclic
    <3> QED
      BY <2>1, <3>1
  <2> QED
    BY <2>2, <2>3
<1>4. WalkInv => WalksFindTheFixedPoints
  BY <1>1, <1>2, <1>3 DEF WalksFindTheFixedPoints
<1> QED
  BY <1>4, WalkInductive, PTL

-----------------------------------------------------------------------------
(* What a run does with the answers.                                       *)

\* The resolved dependencies of a node hold its own dependencies and those of
\* every skipped node among them (get_effective_dependencies).
LEMMA ResolvedIsClosed ==
  ASSUME NEW n \in Node, NEW skipped
  PROVE  /\ ResolvedDependencies(n, skipped) \in SUBSET Node
         /\ ResolvedWithin(n, skipped, ResolvedDependencies(n, skipped))
BY GraphAssumption DEF ResolvedDependencies, ResolvedWithin

\* And they are the least such set.
LEMMA ResolvedIsLeast ==
  ASSUME NEW n \in Node, NEW skipped, NEW S \in SUBSET Node,
         ResolvedWithin(n, skipped, S)
  PROVE  ResolvedDependencies(n, skipped) \subseteq S
BY DEF ResolvedDependencies

\* Skipping one more node takes no node out of what a walk resolves.
LEMMA SkippingOnlyAdds ==
  ASSUME NEW n \in Node, NEW skipped, NEW x \in Node
  PROVE  ResolvedDependencies(n, skipped)
           \subseteq ResolvedDependencies(n, skipped \cup {x})
<1> DEFINE S == ResolvedDependencies(n, skipped \cup {x})
<1>1. S \in SUBSET Node /\ ResolvedWithin(n, skipped \cup {x}, S)
  BY ResolvedIsClosed
<1>2. ResolvedWithin(n, skipped, S)
  BY <1>1 DEF ResolvedWithin
<1> QED
  BY <1>1, <1>2, ResolvedIsLeast

\* Skipping a node that a walk does not resolve leaves the walk as it was.
LEMMA SkippingElsewhereChangesNothing ==
  ASSUME NEW n \in Node, NEW skipped, NEW x \in Node,
         x \notin ResolvedDependencies(n, skipped)
  PROVE  ResolvedDependencies(n, skipped \cup {x}) = ResolvedDependencies(n, skipped)
<1> DEFINE S == ResolvedDependencies(n, skipped)
<1>1. S \in SUBSET Node /\ ResolvedWithin(n, skipped, S)
  BY ResolvedIsClosed
<1>2. ResolvedWithin(n, skipped \cup {x}, S)
  BY <1>1 DEF ResolvedWithin
<1>3. ResolvedDependencies(n, skipped \cup {x}) \subseteq S
  BY <1>1, <1>2, ResolvedIsLeast
<1> QED
  BY <1>3, SkippingOnlyAdds

\* Whatever a node waits for, through skipped nodes too, has the node among
\* its descendants: releasing the descendants of a node misses no waiter.
LEMMA WaitersAreDescendants ==
  ASSUME NEW m \in Node, NEW skipped, NEW d \in ResolvedDependencies(m, skipped)
  PROVE  m \in Descendants(d)
<1> SUFFICES ASSUME NEW S \in SUBSET Node, ClosedDownstream(d, S), m \notin S
             PROVE  FALSE
  BY DEF Descendants
<1> DEFINE T == Node \ (S \cup {d})
<1>1. ResolvedWithin(m, skipped, T)
  BY GraphAssumption DEF ResolvedWithin, ClosedDownstream
<1>2. d \in T
  BY <1>1, ResolvedIsLeast
<1> QED
  BY <1>2

\* A descendant of a descendant is a descendant.
LEMMA DescendantsAreTransitive ==
  ASSUME NEW x \in Node, NEW d \in Descendants(x), NEW m \in Descendants(d)
  PROVE  m \in Descendants(x)
<1> SUFFICES ASSUME NEW S \in SUBSET Node, ClosedDownstream(x, S) PROVE m \in S
  BY DEF Descendants
<1>1. d \in S
  BY DEF Descendants
<1>2. ClosedDownstream(d, S)
  BY <1>1 DEF ClosedDownstream
<1> QED
  BY <1>2 DEF Descendants

\* Recording a node's move writes well-typed rows (NodeStateHandler.record).
LEMMA RecordTypes ==
  ASSUME TypeOK, NEW n \in Node, NEW s \in NodeState, Record(n, s)
  PROVE  /\ state' \in [Node -> NodeState]
         /\ resume' \in [Node -> {"none", "later", "due"}]
         /\ upstreamNote' \in SUBSET Node
BY DEF TypeOK, Record

\* So does recording it together with the release of its dependents
\* (DependentReleaseService.release).
LEMMA RecordAndReleaseTypes ==
  ASSUME TypeOK, NEW n \in Node, NEW s \in NodeState,
         NEW r \in {"none", "later"}, RecordAndRelease(n, s, r)
  PROVE  /\ state' \in [Node -> NodeState]
         /\ resume' \in [Node -> {"none", "later", "due"}]
         /\ upstreamNote' \in SUBSET Node
<1>1. Pending \in NodeState BY DEF NodeState
<1> QED BY <1>1 DEF TypeOK, RecordAndRelease, Released

\* A launch or a wake leaves the session columns well typed.
LEMMA BeginSessionTypes ==
  ASSUME TypeOK, NEW n \in Node, BeginSession(n)
  PROVE  /\ process' \in [Node -> {"none", "alive", "late", "dead"}]
         /\ openRow' \in SUBSET Node
         /\ stray' \in [Node -> {"none", "alive", "dead"}]
BY DEF TypeOK, BeginSession

\* So does the closing of a session (InProgressNodeHandler._close_session).
LEMMA CloseSessionTypes ==
  ASSUME TypeOK, NEW n \in Node, CloseSession(n)
  PROVE  /\ process' \in [Node -> {"none", "alive", "late", "dead"}]
         /\ openRow' \in SUBSET Node
BY DEF TypeOK, CloseSession

\* Every variable keeps the values its declaration names; in particular no
\* node is ever woken more often than caps.node_wakes allows.
THEOREM TypeCorrect == Spec => []TypeOK
<1>1. Init => TypeOK
  BY RunAssumption DEF Init, TypeOK, NodeState, Phase
<1>2. TypeOK /\ [Next]_vars => TypeOK'
  <2> SUFFICES ASSUME TypeOK, [Next]_vars PROVE TypeOK'
    OBVIOUS
  <2>a. /\ Pending \in NodeState /\ InProgress \in NodeState /\ Resting \in NodeState
        /\ NeedsHuman \in NodeState /\ Merged \in NodeState
        /\ Errored \in NodeState /\ Skipped \in NodeState
    BY DEF NodeState
  <2>1. ASSUME NEW n \in Node, SessionExits(n) PROVE TypeOK'
    BY <2>1 DEF TypeOK, SessionExits, nodeVars, sessionVars, passVars
  <2>2. ASSUME NEW n \in Node, DeadlinePasses(n) PROVE TypeOK'
    BY <2>2 DEF TypeOK, DeadlinePasses, nodeVars, sessionVars, passVars
  <2>3. ASSUME NEW n \in Node, StrayExits(n) PROVE TypeOK'
    BY <2>3 DEF TypeOK, StrayExits, nodeVars, sessionVars, passVars
  <2>4. ASSUME NEW n \in Node, AgentOpensPullRequest(n) PROVE TypeOK'
    BY <2>4 DEF TypeOK, AgentOpensPullRequest, nodeVars, sessionVars, passVars
  <2>5. ASSUME NEW n \in Node, HumanSettlesPullRequest(n) PROVE TypeOK'
    BY <2>5 DEF TypeOK, HumanSettlesPullRequest, nodeVars, sessionVars, passVars
  <2>6. ASSUME NEW n \in Node, ResumeTimeComes(n) PROVE TypeOK'
    BY <2>6 DEF TypeOK, ResumeTimeComes, nodeVars, sessionVars, passVars
  <2>7. ASSUME BeginPass PROVE TypeOK'
    BY <2>7, RunAssumption DEF TypeOK, BeginPass, Incident, InState, Phase, nodeVars, sessionVars, passVars
  <2>8. ASSUME PassDies PROVE TypeOK'
    BY <2>8, RunAssumption DEF TypeOK, PassDies, Incident, Phase, nodeVars, sessionVars, passVars
  <2>9. ASSUME NextPhase PROVE TypeOK'
    BY <2>9 DEF TypeOK, NextPhase, InState, Phase, nodeVars, sessionVars, passVars
  <2>10. ASSUME NEW n \in Node, LeaveWorking(n) PROVE TypeOK'
    BY <2>10 DEF TypeOK, LeaveWorking, Handle, Visit, nodeVars, sessionVars, passVars
  <2>11. ASSUME NEW n \in Node, LeaveResting(n) PROVE TypeOK'
    BY <2>11 DEF TypeOK, LeaveResting, Handle, Visit, nodeVars, sessionVars, passVars
  <2>12. ASSUME NEW n \in Node, LeavePending(n) PROVE TypeOK'
    BY <2>12 DEF TypeOK, LeavePending, Handle, Visit, nodeVars, sessionVars, passVars
  <2>13. ASSUME NEW n \in Node, SettleFails(n) PROVE TypeOK'
    BY <2>13, CloseSessionTypes DEF TypeOK, SettleFails, Handle, Visit, nodeVars, sessionVars, passVars
  <2>14. ASSUME NEW n \in Node, WaitForUsageLimit(n) PROVE TypeOK'
    BY <2>14, <2>a, CloseSessionTypes DEF TypeOK, WaitForUsageLimit, Handle, Visit, nodeVars, sessionVars, passVars
  <2>15. ASSUME NEW n \in Node, SettleWithoutPullRequest(n) PROVE TypeOK'
    BY <2>15, <2>a, CloseSessionTypes, RecordTypes DEF TypeOK, SettleWithoutPullRequest, Handle, Visit, nodeVars, sessionVars, passVars
  <2>16. ASSUME NEW n \in Node, SettleOnPullRequest(n) PROVE TypeOK'
    BY <2>16, <2>a, CloseSessionTypes, RecordTypes DEF TypeOK, SettleOnPullRequest, Handle, Visit, nodeVars, sessionVars, passVars
  <2>17. ASSUME NEW n \in Node, RecordMerged(n) PROVE TypeOK'
    BY <2>17, <2>a, RecordTypes DEF TypeOK, RecordMerged, Handle, Visit, nodeVars, sessionVars, passVars
  <2>18. ASSUME NEW n \in Node, RecordClosed(n) PROVE TypeOK'
    BY <2>18, <2>a, RecordTypes DEF TypeOK, RecordClosed, Handle, Visit, nodeVars, sessionVars, passVars
  <2>19. ASSUME NEW n \in Node, RunOutOfWakes(n) PROVE TypeOK'
    BY <2>19, <2>a, RecordTypes DEF TypeOK, RunOutOfWakes, Handle, Visit, nodeVars, sessionVars, passVars
  <2>20. ASSUME NEW n \in Node, FailToProvision(n) PROVE TypeOK'
    BY <2>20, <2>a, RecordTypes DEF TypeOK, FailToProvision, Handle, Visit, nodeVars, sessionVars, passVars
  <2>21. ASSUME NEW n \in Node, Wake(n) PROVE TypeOK'
    BY <2>21, <2>a, RunAssumption, RecordTypes, BeginSessionTypes
       DEF TypeOK, Wake, MayWake, Resume, Incident, Visit, nodeVars, sessionVars, passVars
  <2>22. ASSUME NEW n \in Node, StopBehindUpstream(n) PROVE TypeOK'
    BY <2>22, <2>a DEF TypeOK, StopBehindUpstream, Handle, Visit, nodeVars, sessionVars, passVars
  <2>23. ASSUME NEW n \in Node, Start(n) PROVE TypeOK'
    BY <2>23, <2>a, RunAssumption, RecordTypes, BeginSessionTypes
       DEF TypeOK, Start, Resume, Incident, Visit, nodeVars, sessionVars, passVars
  <2>24. ASSUME ScanForRecovery PROVE TypeOK'
    BY <2>24, <2>a DEF TypeOK, ScanForRecovery, Phase, nodeVars, sessionVars, passVars
  <2>25. ASSUME Conclude PROVE TypeOK'
    BY <2>25 DEF TypeOK, Conclude, Phase, nodeVars, sessionVars, passVars
  <2>26. ASSUME NEW n \in Node, Retry(n) PROVE TypeOK'
    BY <2>26, <2>a, RunAssumption, RecordAndReleaseTypes
       DEF TypeOK, Retry, Command, Incident, EnsureRegistered, nodeVars, sessionVars, passVars
  <2>27. ASSUME NEW n \in Node, Skip(n) PROVE TypeOK'
    BY <2>27, <2>a, RunAssumption, RecordAndReleaseTypes
       DEF TypeOK, Skip, Command, Incident, EnsureRegistered, nodeVars, sessionVars, passVars
  <2>28. ASSUME NEW n \in Node, Stop(n) PROVE TypeOK'
    BY <2>28, <2>a, RunAssumption, CloseSessionTypes, RecordTypes
       DEF TypeOK, Stop, Command, Incident, nodeVars, sessionVars, passVars
  <2>29. ASSUME Abort PROVE TypeOK'
    BY <2>29, <2>a, RunAssumption DEF TypeOK, Abort, StrayRows, Command, Incident, nodeVars, sessionVars, passVars
  <2>30. ASSUME NEW n \in Node, RecoverLater(n) PROVE TypeOK'
    BY <2>30, RunAssumption DEF TypeOK, RecoverLater, Verdict, Command, Incident, nodeVars, sessionVars, passVars
  <2>31. ASSUME NEW n \in Node, RecoverByWaiting(n) PROVE TypeOK'
    BY <2>31, <2>a, RunAssumption, RecordAndReleaseTypes
       DEF TypeOK, RecoverByWaiting, Verdict, Command, Incident, EnsureRegistered, nodeVars, sessionVars, passVars
  <2>32. ASSUME NEW n \in Node, RecoverByWaking(n) PROVE TypeOK'
    BY <2>32, <2>a, RunAssumption, RecordAndReleaseTypes, BeginSessionTypes
       DEF TypeOK, RecoverByWaking, Verdict, Command, Incident, EnsureRegistered, nodeVars, sessionVars, passVars
  <2>33. ASSUME NEW n \in Node, Unrecoverable(n) PROVE TypeOK'
    BY <2>33, <2>a, RunAssumption, RecordTypes
       DEF TypeOK, Unrecoverable, Verdict, Command, Incident, nodeVars, sessionVars, passVars
  <2>34. CASE UNCHANGED vars
    BY <2>34 DEF TypeOK, vars, nodeVars, sessionVars, passVars
  <2> QED
    BY <2>1, <2>2, <2>3, <2>4, <2>5, <2>6, <2>7, <2>8, <2>9, <2>10, <2>11,
       <2>12, <2>13, <2>14, <2>15, <2>16, <2>17, <2>18, <2>19, <2>20, <2>21,
       <2>22, <2>23, <2>24, <2>25, <2>26, <2>27, <2>28, <2>29, <2>30, <2>31,
       <2>32, <2>33, <2>34
       DEF Next, Environment, PassStep, Sweep, Operator
<1> QED
  BY <1>1, <1>2, PTL DEF Spec

-----------------------------------------------------------------------------
(* The run lock.                                                           *)

\* A sweep leaves every node alone but the one it handles, and takes that one
\* off the list of those it has read.
LEMMA SweepMovesOneNode ==
  ASSUME TypeOK, NEW n \in Node, Sweep(n)
  PROVE  /\ phase' = phase
         /\ n \in todo
         /\ todo' = todo \ {n}
         /\ \A m \in Node \ {n} : state'[m] = state[m]
<1>1. CASE \/ LeaveWorking(n) \/ SettleFails(n) \/ LeaveResting(n) \/ LeavePending(n)
  BY <1>1 DEF LeaveWorking, SettleFails, LeaveResting, LeavePending, Handle, Visit,
              nodeVars
<1>2. CASE WaitForUsageLimit(n) \/ StopBehindUpstream(n)
  BY <1>2 DEF WaitForUsageLimit, StopBehindUpstream, Handle, Visit, TypeOK
<1>3. CASE \/ SettleWithoutPullRequest(n) \/ SettleOnPullRequest(n) \/ RecordMerged(n)
           \/ RecordClosed(n) \/ RunOutOfWakes(n) \/ FailToProvision(n)
           \/ Wake(n) \/ Start(n)
  BY <1>3 DEF SettleWithoutPullRequest, SettleOnPullRequest, RecordMerged, RecordClosed,
              RunOutOfWakes, FailToProvision, Wake, Start, Handle, Visit, Record, TypeOK
<1> QED
  BY <1>1, <1>2, <1>3 DEF Sweep

\* Sessions, GitHub and the clock change neither a node's state nor what a pass
\* has read.
LEMMA EnvironmentMovesNoNode ==
  ASSUME Environment
  PROVE  UNCHANGED <<state, phase, todo, openRow, upstreamNote>>
BY DEF Environment, SessionExits, DeadlinePasses, StrayExits, AgentOpensPullRequest,
       HumanSettlesPullRequest, ResumeTimeComes, nodeVars, sessionVars, passVars

\* Every command waits for the run lock, so none runs while a pass is under way.
LEMMA OperatorNeedsTheLock ==
  ASSUME Operator
  PROVE  phase = "idle" /\ UNCHANGED <<phase, todo>>
BY DEF Operator, Abort, Retry, Skip, Stop, RecoverLater, RecoverByWaiting,
       RecoverByWaking, Unrecoverable, Verdict, Command, passVars

\* Between its sweeps a pass has read nothing.
LockInv ==
  /\ PassReadsAreCurrent
  /\ phase \notin {"in_progress", "resting", "pending"} => todo = {}

\* What a sweep read stays true: the sweep forgets a node as it moves it, and
\* nobody else moves one.
LEMMA LockInvIsKept == TypeOK /\ LockInv /\ [Next]_vars => LockInv'
<1> SUFFICES ASSUME TypeOK, LockInv, [Next]_vars PROVE LockInv'
  OBVIOUS
<1>1. CASE Environment
  BY <1>1, EnvironmentMovesNoNode DEF LockInv, PassReadsAreCurrent
<1>2. CASE BeginPass \/ PassDies \/ NextPhase
  BY <1>2 DEF BeginPass, PassDies, NextPhase, InState, LockInv, PassReadsAreCurrent,
              nodeVars
<1>3. ASSUME NEW n \in Node, Sweep(n) PROVE LockInv'
  BY <1>3, SweepMovesOneNode DEF LockInv, PassReadsAreCurrent, TypeOK
<1>4. CASE ScanForRecovery \/ Conclude
  BY <1>4 DEF ScanForRecovery, Conclude, LockInv, PassReadsAreCurrent
<1>5. CASE Operator
  BY <1>5, OperatorNeedsTheLock DEF LockInv, PassReadsAreCurrent
<1>6. CASE UNCHANGED vars
  BY <1>6 DEF LockInv, PassReadsAreCurrent, vars, nodeVars, passVars
<1> QED
  BY <1>1, <1>2, <1>3, <1>4, <1>5, <1>6 DEF Next, PassStep

\* What a sweep read when it began is true of every node it comes to, whatever
\* sessions, GitHub and the operator do meanwhile, stale verdicts included.
THEOREM PassReadsStayCurrent == Spec => []PassReadsAreCurrent
<1>1. Init => LockInv
  BY DEF Init, LockInv, PassReadsAreCurrent
<1>2. LockInv => PassReadsAreCurrent
  BY DEF LockInv
<1> QED
  BY <1>1, <1>2, TypeCorrect, LockInvIsKept, PTL DEF Spec

-----------------------------------------------------------------------------
(* Sessions, as long as every verdict is current.                          *)

\* Handling one node in a sweep leaves sessions, rows and states in step.
LEMMA SessionInvUnderSweep ==
  ASSUME TypeOK, LockInv, SessionInv, NEW n \in Node, Sweep(n)
  PROVE  SessionInv'
<1> USE DEF SessionInv, OneSessionPerWorktree, OnlyWorkingNodesHaveOpenSessions,
            LockInv, PassReadsAreCurrent, IsAlive, TypeOK,
            Pending, InProgress, Resting, NeedsHuman, Merged, Errored
<1>1. CASE LeaveWorking(n) \/ LeaveResting(n) \/ LeavePending(n)
  BY <1>1 DEF LeaveWorking, LeaveResting, LeavePending, nodeVars, sessionVars
<1>2. CASE SettleFails(n)
  BY <1>2 DEF SettleFails, CloseSession, nodeVars
<1>3. CASE WaitForUsageLimit(n)
  BY <1>3 DEF WaitForUsageLimit, CloseSession
<1>4. CASE SettleWithoutPullRequest(n) \/ SettleOnPullRequest(n)
  BY <1>4 DEF SettleWithoutPullRequest, SettleOnPullRequest, Handle, Visit, CloseSession,
              Record
<1>5. CASE \/ RecordMerged(n) \/ RecordClosed(n) \/ RunOutOfWakes(n)
           \/ StopBehindUpstream(n) \/ FailToProvision(n)
  BY <1>5 DEF RecordMerged, RecordClosed, RunOutOfWakes, StopBehindUpstream,
              FailToProvision, Handle, Visit, Record, sessionVars
<1>6. CASE Wake(n) \/ Start(n)
  <2>1. n \notin openRow
    BY <1>6 DEF Wake, Start, Visit
  <2> QED
    BY <1>6, <2>1 DEF Wake, Start, BeginSession, Record
<1> QED
  BY <1>1, <1>2, <1>3, <1>4, <1>5, <1>6 DEF Sweep

\* So does every command, as long as verdicts are not stale.
LEMMA SessionInvUnderOperator ==
  ASSUME TypeOK, SessionInv, ~StaleVerdicts, Operator
  PROVE  SessionInv'
<1> USE DEF SessionInv, OneSessionPerWorktree, OnlyWorkingNodesHaveOpenSessions,
            IsAlive, TypeOK,
            Pending, InProgress, Resting, NeedsHuman, Merged, Errored, Skipped
<1>1. CASE Abort
  BY <1>1 DEF Abort, StrayRows
<1>2. ASSUME NEW n \in Node, Retry(n) \/ Skip(n) \/ RecoverByWaiting(n) PROVE SessionInv'
  BY <1>2 DEF Retry, Skip, RecoverByWaiting, Verdict, Examined, RecordAndRelease,
              Released, Stopped, sessionVars
<1>3. ASSUME NEW n \in Node, Stop(n) PROVE SessionInv'
  BY <1>3 DEF Stop, CloseSession, Record
<1>4. ASSUME NEW n \in Node, RecoverLater(n) \/ Unrecoverable(n) PROVE SessionInv'
  BY <1>4 DEF RecoverLater, Unrecoverable, Verdict, Examined, Record, nodeVars,
              sessionVars
<1>5. ASSUME NEW n \in Node, RecoverByWaking(n) PROVE SessionInv'
  <2>1. n \notin openRow
    BY <1>5 DEF RecoverByWaking
  <2> QED
    BY <1>5, <2>1 DEF RecoverByWaking, BeginSession, RecordAndRelease, Released
<1> QED
  BY <1>1, <1>2, <1>3, <1>4, <1>5 DEF Operator

\* The records of a session and of its node stay in step under every step.
LEMMA SessionInvIsKept ==
  ASSUME ~StaleVerdicts
  PROVE  TypeOK /\ LockInv /\ SessionInv /\ [Next]_vars => SessionInv'
<1> SUFFICES ASSUME TypeOK, LockInv, SessionInv, [Next]_vars PROVE SessionInv'
  OBVIOUS
<1> USE DEF SessionInv, OneSessionPerWorktree, OnlyWorkingNodesHaveOpenSessions, IsAlive
<1>1. CASE Environment
  BY <1>1 DEF Environment, SessionExits, DeadlinePasses, StrayExits,
              AgentOpensPullRequest, HumanSettlesPullRequest, ResumeTimeComes,
              nodeVars, sessionVars, TypeOK
<1>2. CASE BeginPass \/ PassDies \/ NextPhase \/ Conclude
  BY <1>2 DEF BeginPass, PassDies, NextPhase, Conclude, nodeVars, sessionVars
<1>3. CASE ScanForRecovery
  BY <1>3 DEF ScanForRecovery, InState, sessionVars, TypeOK,
              InProgress, Resting, NeedsHuman, Errored
<1>4. CASE UNCHANGED vars
  BY <1>4 DEF vars, nodeVars, sessionVars
<1> QED
  BY <1>1, <1>2, <1>3, <1>4, SessionInvUnderSweep, SessionInvUnderOperator
     DEF Next, PassStep

\* The inductive invariant that the theorems below draw on.
LEMMA InvariantsHold ==
  ASSUME ~StaleVerdicts
  PROVE  Spec => [](TypeOK /\ LockInv /\ SessionInv)
<1>1. Init => LockInv /\ SessionInv
  BY DEF Init, LockInv, PassReadsAreCurrent, SessionInv, OneSessionPerWorktree,
         OnlyWorkingNodesHaveOpenSessions, IsAlive, Pending, InProgress, Resting
<1> QED
  BY <1>1, TypeCorrect, LockInvIsKept, SessionInvIsKept, PTL DEF Spec

\* As long as verdicts are current, the three records of a session agree: its process,
\* its row and its node's state (launch, supervision, stop and abort keep them so).
THEOREM SessionsStayInStep ==
  ASSUME ~StaleVerdicts
  PROVE  Spec => []SessionInv
<1> QED
  BY InvariantsHold, PTL

\* As long as verdicts are current, no two agents ever share a worktree and an
\* agent that runs is one the next pass supervises.
THEOREM OneSessionPerWorktreeAlways ==
  ASSUME ~StaleVerdicts
  PROVE  Spec => []OneSessionPerWorktree
<1>1. SessionInv => OneSessionPerWorktree
  BY DEF SessionInv
<1> QED
  BY <1>1, InvariantsHold, PTL

\* As long as verdicts are current, abort parks working nodes only: no open
\* row belongs to a node that has moved on.
THEOREM OnlyWorkingNodesHaveOpenSessionsAlways ==
  ASSUME ~StaleVerdicts
  PROVE  Spec => []OnlyWorkingNodesHaveOpenSessions
<1>1. SessionInv => OnlyWorkingNodesHaveOpenSessions
  BY DEF SessionInv
<1> QED
  BY <1>1, InvariantsHold, PTL

-----------------------------------------------------------------------------
(* Endings.                                                                *)

\* What a step may do to a node that merged or was skipped: nothing.
LEMMA EndingsAreKept ==
  ASSUME TypeOK, LockInv, SessionInv, ~StaleVerdicts, [Next]_vars,
         NEW m \in Node, state[m] \in {Merged, Skipped}
  PROVE  state'[m] = state[m]
<1> USE DEF TypeOK, Pending, InProgress, Resting, NeedsHuman, Merged, Errored, Skipped
<1>1. CASE Environment
  BY <1>1, EnvironmentMovesNoNode
<1>2. ASSUME NEW n \in Node, Sweep(n) PROVE state'[m] = state[m]
  <2>1. m \in todo => state[m] \in {InProgress, Resting, Pending}
    BY DEF LockInv, PassReadsAreCurrent
  <2> QED
    BY <1>2, <2>1, SweepMovesOneNode
<1>3. CASE BeginPass \/ PassDies \/ NextPhase \/ Conclude
  BY <1>3 DEF BeginPass, PassDies, NextPhase, Conclude, nodeVars
<1>4. CASE ScanForRecovery
  BY <1>4 DEF ScanForRecovery, InState
<1>5. CASE Abort
  BY <1>5 DEF Abort, StrayRows, SessionInv, OnlyWorkingNodesHaveOpenSessions
<1>6. ASSUME NEW n \in Node, Retry(n) \/ Skip(n) \/ RecoverByWaiting(n) \/ RecoverByWaking(n)
      PROVE  state'[m] = state[m]
  BY <1>6 DEF Retry, Skip, RecoverByWaiting, RecoverByWaking, Verdict, Examined,
              RecordAndRelease, Released, Stopped
<1>7. ASSUME NEW n \in Node, Stop(n) \/ RecoverLater(n) \/ Unrecoverable(n)
      PROVE  state'[m] = state[m]
  BY <1>7 DEF Stop, RecoverLater, Unrecoverable, Verdict, Examined, Record, nodeVars
<1>8. CASE UNCHANGED vars
  BY <1>8 DEF vars, nodeVars
<1> QED
  BY <1>1, <1>2, <1>3, <1>4, <1>5, <1>6, <1>7, <1>8 DEF Next, PassStep, Operator

\* As long as verdicts are current, a merged node stays merged and a skipped
\* node stays skipped.
THEOREM EndingsStayFinal ==
  ASSUME ~StaleVerdicts
  PROVE  Spec => EndingsAreFinal
<1>1. TypeOK /\ LockInv /\ SessionInv /\ [Next]_vars
        => [\A n \in Node : state[n] \in {Merged, Skipped} => state'[n] = state[n]]_vars
  BY EndingsAreKept
<1> QED
  BY <1>1, InvariantsHold, PTL DEF Spec, EndingsAreFinal

-----------------------------------------------------------------------------
(* What an agent's work stands on.                                         *)

\* Skipping x makes it skipped and nothing else.
LEMMA SkipAddsOne ==
  ASSUME TypeOK, NEW x \in Node, Skip(x)
  PROVE  InState(Skipped)' = InState(Skipped) \cup {x}
BY DEF Skip, RecordAndRelease, Released, InState, TypeOK, Pending, NeedsHuman, Skipped

\* A human is the only way into skipped, and there is no way out of it.
LEMMA SkippedOnlyBySkip ==
  ASSUME TypeOK, LockInv, SessionInv, ~StaleVerdicts, [Next]_vars,
         ~ \E x \in Node : Skip(x)
  PROVE  InState(Skipped)' = InState(Skipped)
<1> SUFFICES ASSUME NEW m \in Node, state'[m] = Skipped
             PROVE  state[m] = Skipped
  BY EndingsAreKept DEF InState
<1> USE DEF TypeOK, Pending, InProgress, Resting, NeedsHuman, Merged, Errored, Skipped
<1>1. CASE Environment
  BY <1>1, EnvironmentMovesNoNode
<1>2. ASSUME NEW n \in Node, Sweep(n) PROVE state[m] = Skipped
  <2>1. state'[n] # Skipped \/ state'[n] = state[n]
    BY <1>2 DEF Sweep, LeaveWorking, WaitForUsageLimit, SettleFails,
                SettleWithoutPullRequest, SettleOnPullRequest, LeaveResting, RecordMerged,
                RecordClosed, RunOutOfWakes, Wake, StopBehindUpstream, LeavePending,
                FailToProvision, Start, Record, nodeVars
  <2> QED
    BY <1>2, <2>1, SweepMovesOneNode
<1>3. CASE BeginPass \/ PassDies \/ NextPhase \/ Conclude
  BY <1>3 DEF BeginPass, PassDies, NextPhase, Conclude, nodeVars
<1>4. CASE ScanForRecovery
  BY <1>4 DEF ScanForRecovery, InState
<1>5. CASE Abort
  BY <1>5 DEF Abort
<1>6. ASSUME NEW n \in Node, Retry(n) \/ RecoverByWaiting(n) \/ RecoverByWaking(n)
      PROVE  state[m] = Skipped
  BY <1>6 DEF Retry, RecoverByWaiting, RecoverByWaking, RecordAndRelease
<1>7. ASSUME NEW n \in Node, Stop(n) \/ RecoverLater(n) \/ Unrecoverable(n)
      PROVE  state[m] = Skipped
  BY <1>7 DEF Stop, RecoverLater, Unrecoverable, Record, nodeVars
<1>8. CASE UNCHANGED vars
  BY <1>8 DEF vars, nodeVars
<1> QED
  BY <1>1, <1>2, <1>3, <1>4, <1>5, <1>6, <1>7, <1>8 DEF Next, PassStep, Operator

\* A node gets its first session only once its dependencies have merged.
LEMMA FirstSessionOnMerged ==
  ASSUME TypeOK, LockInv, SessionInv, ~StaleVerdicts, [Next]_vars,
         NEW m \in Node, process'[m] # "none"
  PROVE  process[m] # "none" \/ \A d \in Dependencies(m) : state[d] = Merged
<1> USE DEF TypeOK
<1>1. CASE Environment
  BY <1>1 DEF Environment, SessionExits, DeadlinePasses, StrayExits, IsAlive,
              AgentOpensPullRequest, HumanSettlesPullRequest, ResumeTimeComes, sessionVars
<1>2. ASSUME NEW n \in Node, Wake(n)
      PROVE  process[m] # "none" \/ \A d \in Dependencies(m) : state[d] = Merged
  BY <1>2 DEF Wake, Visit, BeginSession, LockInv, PassReadsAreCurrent, SessionInv
<1>3. ASSUME NEW n \in Node, Start(n)
      PROVE  process[m] # "none" \/ \A d \in Dependencies(m) : state[d] = Merged
  BY <1>3 DEF Start, MayStart, BeginSession
<1>4. ASSUME NEW n \in Node, Sweep(n), ~Wake(n), ~Start(n)
      PROVE  process[m] # "none" \/ \A d \in Dependencies(m) : state[d] = Merged
  <2>1. CASE UNCHANGED process
    BY <2>1
  <2>2. CASE CloseSession(n) /\ Visit(n, "in_progress")
    BY <2>2 DEF CloseSession, Visit, LockInv, PassReadsAreCurrent, SessionInv
  <2> QED
    BY <1>4, <2>1, <2>2
       DEF Sweep, LeaveWorking, WaitForUsageLimit, SettleFails, SettleWithoutPullRequest,
           SettleOnPullRequest, LeaveResting, RecordMerged, RecordClosed, RunOutOfWakes,
           StopBehindUpstream, LeavePending, FailToProvision, Handle, sessionVars
<1>5. CASE BeginPass \/ PassDies \/ NextPhase \/ ScanForRecovery \/ Conclude
  BY <1>5 DEF BeginPass, PassDies, NextPhase, ScanForRecovery, Conclude, sessionVars
<1>6. CASE Abort
  BY <1>6 DEF Abort, SessionInv, OnlyWorkingNodesHaveOpenSessions
<1>7. ASSUME NEW n \in Node, Stop(n)
      PROVE  process[m] # "none" \/ \A d \in Dependencies(m) : state[d] = Merged
  BY <1>7 DEF Stop, CloseSession, SessionInv
<1>8. ASSUME NEW n \in Node,
             \/ Retry(n) \/ Skip(n) \/ RecoverLater(n) \/ RecoverByWaiting(n)
             \/ RecoverByWaking(n) \/ Unrecoverable(n)
      PROVE  process[m] # "none" \/ \A d \in Dependencies(m) : state[d] = Merged
  BY <1>8 DEF Retry, Skip, RecoverLater, RecoverByWaiting, RecoverByWaking, Unrecoverable,
              Verdict, Examined, BeginSession, sessionVars
<1>9. CASE UNCHANGED vars
  BY <1>9 DEF vars, sessionVars
<1> QED
  BY <1>1, <1>2, <1>3, <1>4, <1>5, <1>6, <1>7, <1>8, <1>9 DEF Next, PassStep, Operator

\* A node all of whose dependencies have merged keeps it so when one more node
\* is skipped: what the walk resolves for it does not change.
LEMMA SkipKeepsMergedDependencies ==
  ASSUME TypeOK, NEW x \in Node, Skip(x), NEW m \in Node,
         \A d \in Dependencies(m) : state[d] = Merged
  PROVE  Dependencies(m)' \subseteq Dependencies(m)
<1>1. CASE x \in InState(Skipped)
  BY <1>1, SkipAddsOne DEF Dependencies, EffectiveDependencies, ResolvedDependencies,
                           ResolvedWithin
<1>2. CASE x \notin InState(Skipped)
  <2>1. x \notin Dependencies(m)
    BY DEF Skip
  <2>2. x \notin ResolvedDependencies(m, InState(Skipped))
    BY <1>2, <2>1 DEF Dependencies, EffectiveDependencies
  <2> QED
    BY <2>2, SkipAddsOne, SkippingElsewhereChangesNothing
       DEF Dependencies, EffectiveDependencies
<1> QED
  BY <1>1, <1>2

\* A node that has a session keeps standing on merged dependencies: merged nodes
\* stay merged, and only a skip changes what a node depends on.
LEMMA WorkStaysOnMerged ==
  ASSUME ~StaleVerdicts
  PROVE  TypeOK /\ LockInv /\ SessionInv /\ WorkStandsOnMergedDependencies /\ [Next]_vars
           => WorkStandsOnMergedDependencies'
<1> SUFFICES ASSUME TypeOK, LockInv, SessionInv, WorkStandsOnMergedDependencies,
                    [Next]_vars, NEW m \in Node, process'[m] # "none"
             PROVE  \A d \in Dependencies(m)' : state'[d] = Merged
  BY DEF WorkStandsOnMergedDependencies, Dependencies
<1>1. \A d \in Dependencies(m) : state[d] = Merged
  BY FirstSessionOnMerged DEF WorkStandsOnMergedDependencies, Dependencies
<1>2. Dependencies(m)' \subseteq Dependencies(m)
  <2>1. CASE \E x \in Node : Skip(x)
    BY <1>1, <2>1, SkipKeepsMergedDependencies
  <2>2. CASE ~ \E x \in Node : Skip(x)
    BY <2>2, SkippedOnlyBySkip DEF Dependencies
  <2> QED
    BY <2>1, <2>2
<1>3. Dependencies(m) \subseteq Node
  BY DEF Dependencies, EffectiveDependencies, ResolvedDependencies
<1> QED
  BY <1>1, <1>2, <1>3, EndingsAreKept

\* As long as verdicts are current, an agent works on top of merged
\* dependencies only, for every graph and whatever is skipped while it works.
THEOREM WorkAlwaysStandsOnMergedDependencies ==
  ASSUME ~StaleVerdicts
  PROVE  Spec => []WorkStandsOnMergedDependencies
<1>1. Init => WorkStandsOnMergedDependencies
  BY DEF Init, WorkStandsOnMergedDependencies
<1> QED
  BY <1>1, InvariantsHold, WorkStaysOnMerged, PTL DEF Spec

-----------------------------------------------------------------------------
(* What waits behind a stopped node.                                       *)

\* A step that takes no node out of the stopped ones parks rightly, as long as
\* every note it leaves is an old one or one with a stopped dependency.
LEMMA ParkedUnderMove ==
  ASSUME ParkedBehindStopped,
         InState(Skipped)' = InState(Skipped),
         \A n \in Node : process'[n] = "none" => process[n] = "none",
         \A d \in Node : state[d] \in Stopped => state'[d] \in Stopped,
         \A n \in upstreamNote' :
           \/ n \in upstreamNote /\ state'[n] = state[n]
           \/ state'[n] = NeedsHuman /\ \E d \in Dependencies(n) : state[d] \in Stopped,
         upstreamNote' \subseteq Node
  PROVE  ParkedBehindStopped'
<1> SUFFICES ASSUME NEW n \in upstreamNote'
             PROVE  /\ state'[n] = NeedsHuman
                    /\ process'[n] = "none"
                         => \E d \in Dependencies(n)' : state'[d] \in Stopped
  BY DEF ParkedBehindStopped, Stopped
<1>1. Dependencies(n)' = Dependencies(n) /\ Dependencies(n) \subseteq Node
  BY DEF Dependencies, EffectiveDependencies, ResolvedDependencies
<1> QED
  BY <1>1 DEF ParkedBehindStopped

\* A restart or a skip of x releases all that had stopped behind x, or behind
\* a node that had stopped behind x.
LEMMA ParkedUnderRelease ==
  ASSUME TypeOK, ParkedBehindStopped, NEW x \in Node, NEW s \in NodeState, NEW r,
         RecordAndRelease(x, s, r),
         InState(Skipped)' \in {InState(Skipped), InState(Skipped) \cup {x}},
         \A n \in Node : process'[n] = "none" => process[n] = "none"
  PROVE  ParkedBehindStopped'
<1> SUFFICES ASSUME NEW n \in upstreamNote'
             PROVE  /\ state'[n] = NeedsHuman
                    /\ process'[n] = "none"
                         => \E d \in Dependencies(n)' : state'[d] \in Stopped
  BY DEF ParkedBehindStopped, Stopped
<1>1. n \in Node /\ n \in upstreamNote /\ n # x /\ n \notin Released(x)
  BY DEF RecordAndRelease, TypeOK
<1>2. state'[n] = NeedsHuman
  BY <1>1 DEF RecordAndRelease, ParkedBehindStopped
<1>3. ASSUME process'[n] = "none" PROVE \E d \in Dependencies(n)' : state'[d] \in Stopped
  <2>1. process[n] = "none" /\ state[n] = NeedsHuman
    BY <1>1, <1>3 DEF ParkedBehindStopped
  <2>2. n \notin Descendants(x)
    BY <1>1, <2>1 DEF Released
  <2>3. PICK d \in Dependencies(n) : state[d] \in Stopped
    BY <1>1, <2>1 DEF ParkedBehindStopped
  <2>4. d \in Node /\ n \in Descendants(d)
    BY <1>1, WaitersAreDescendants
       DEF Dependencies, EffectiveDependencies, ResolvedDependencies
  <2>5. d # x /\ d \notin Descendants(x)
    BY <2>2, <2>4, DescendantsAreTransitive
  <2>6. state'[d] = state[d]
    BY <2>4, <2>5 DEF RecordAndRelease, Released
  <2>7. d \in Dependencies(n)'
    BY <1>1, <2>5, SkippingOnlyAdds DEF Dependencies, EffectiveDependencies
  <2> QED
    BY <2>3, <2>6, <2>7
<1> QED
  BY <1>2, <1>3

\* No session is ever forgotten.
LEMMA SessionsAreKept ==
  ASSUME TypeOK, [Next]_vars, NEW n \in Node, process'[n] = "none"
  PROVE  process[n] = "none"
<1> USE DEF TypeOK, BeginSession, CloseSession, nodeVars, sessionVars
<1>1. CASE Environment
  BY <1>1 DEF Environment, SessionExits, DeadlinePasses, StrayExits,
              AgentOpensPullRequest, HumanSettlesPullRequest, ResumeTimeComes
<1>2. CASE PassStep
  BY <1>2 DEF PassStep, Sweep, BeginPass, PassDies, NextPhase, ScanForRecovery, Conclude,
              LeaveWorking, WaitForUsageLimit, SettleFails, SettleWithoutPullRequest,
              SettleOnPullRequest, LeaveResting, RecordMerged, RecordClosed,
              RunOutOfWakes, Wake, StopBehindUpstream, LeavePending, FailToProvision,
              Start, Handle, Visit
<1>3. CASE Operator
  BY <1>3 DEF Operator, Abort, Retry, Skip, Stop, RecoverLater, RecoverByWaiting,
              RecoverByWaking, Unrecoverable
<1>4. CASE UNCHANGED vars
  BY <1>4 DEF vars
<1> QED
  BY <1>1, <1>2, <1>3, <1>4 DEF Next

\* No sweep takes the last stopped dependency from under a node parked behind it.
LEMMA ParkedUnderSweep ==
  ASSUME TypeOK, LockInv, SessionInv, ParkedBehindStopped, ~StaleVerdicts,
         NEW n \in Node, Sweep(n)
  PROVE  ParkedBehindStopped'
<1> USE DEF Pending, InProgress, Resting, NeedsHuman, Merged, Errored, Skipped
<1>1. [Next]_vars /\ ~ \E x \in Node : Skip(x)
  BY DEF Next, PassStep, Skip, Command, Sweep, Handle, Visit, LeaveWorking,
         WaitForUsageLimit, SettleFails, SettleWithoutPullRequest, SettleOnPullRequest,
         LeaveResting, RecordMerged, RecordClosed, RunOutOfWakes, Wake,
         StopBehindUpstream, LeavePending, FailToProvision, Start
<1>2. InState(Skipped)' = InState(Skipped)
  BY <1>1, SkippedOnlyBySkip
<1>3. state[n] \notin Stopped
  BY SweepMovesOneNode DEF Sweep, LockInv, PassReadsAreCurrent, Stopped, Handle, Visit,
         LeaveWorking, WaitForUsageLimit, SettleFails, SettleWithoutPullRequest,
         SettleOnPullRequest, LeaveResting, RecordMerged, RecordClosed, RunOutOfWakes,
         Wake, StopBehindUpstream, LeavePending, FailToProvision, Start
<1>4. \A d \in Node : state[d] \in Stopped => state'[d] \in Stopped
  BY <1>3, SweepMovesOneNode
<1>5. n \notin upstreamNote
  BY <1>3 DEF ParkedBehindStopped, Stopped
<1>6. \A m \in upstreamNote' :
        \/ m \in upstreamNote /\ state'[m] = state[m]
        \/ state'[m] = NeedsHuman /\ \E d \in Dependencies(m) : state[d] \in Stopped
  <2>1. CASE StopBehindUpstream(n)
    BY <1>5, <2>1, SweepMovesOneNode DEF StopBehindUpstream, TypeOK
  <2>2. CASE ~StopBehindUpstream(n)
    <3>1. upstreamNote' \subseteq upstreamNote
      BY <2>2 DEF Sweep, LeaveWorking, WaitForUsageLimit, SettleFails,
                  SettleWithoutPullRequest, SettleOnPullRequest, LeaveResting,
                  RecordMerged, RecordClosed, RunOutOfWakes, Wake, LeavePending,
                  FailToProvision, Start, Record, nodeVars
    <3> QED
      BY <1>5, <3>1, SweepMovesOneNode DEF TypeOK
  <2> QED
    BY <2>1, <2>2
<1>7. upstreamNote' \subseteq Node
  BY <1>6 DEF TypeOK, Sweep, LeaveWorking, WaitForUsageLimit, SettleFails,
              SettleWithoutPullRequest, SettleOnPullRequest, LeaveResting,
              RecordMerged, RecordClosed, RunOutOfWakes, Wake, StopBehindUpstream,
              LeavePending, FailToProvision, Start, Record, nodeVars
<1>8. \A m \in Node : process'[m] = "none" => process[m] = "none"
  BY <1>1, SessionsAreKept
<1> QED
  BY <1>2, <1>4, <1>6, <1>7, <1>8, ParkedUnderMove

\* No command does so without releasing the parked node.
LEMMA ParkedUnderOperator ==
  ASSUME TypeOK, LockInv, SessionInv, ParkedBehindStopped, ~StaleVerdicts, Operator
  PROVE  ParkedBehindStopped'
<1> USE DEF Pending, InProgress, Resting, NeedsHuman, Merged, Errored, Skipped
<1>1. [Next]_vars /\ \A m \in Node : process'[m] = "none" => process[m] = "none"
  BY SessionsAreKept DEF Next
<1>2. ASSUME NEW x \in Node, Skip(x) PROVE ParkedBehindStopped'
  BY <1>1, <1>2, SkipAddsOne, ParkedUnderRelease DEF Skip, NodeState
<1>3. ASSUME ~ \E x \in Node : Skip(x),
             NEW x \in Node, Retry(x) \/ RecoverByWaiting(x) \/ RecoverByWaking(x)
      PROVE  ParkedBehindStopped'
  <2>1. InState(Skipped)' = InState(Skipped)
    BY <1>1, <1>3, SkippedOnlyBySkip
  <2>2. \E s \in NodeState, r \in {"none", "later"} : RecordAndRelease(x, s, r)
    BY <1>3 DEF Retry, RecoverByWaiting, RecoverByWaking, NodeState
  <2> QED
    BY <1>1, <2>1, <2>2, ParkedUnderRelease
<1>4. ASSUME ~ \E x \in Node : Skip(x),
             \/ Abort
             \/ \E x \in Node : Stop(x) \/ RecoverLater(x) \/ Unrecoverable(x)
      PROVE  ParkedBehindStopped'
  <2>1. InState(Skipped)' = InState(Skipped)
    BY <1>1, <1>4, SkippedOnlyBySkip
  <2>2. /\ \A d \in Node : state[d] \in Stopped => state'[d] \in Stopped
        /\ \A m \in upstreamNote' : m \in upstreamNote /\ state'[m] = state[m]
    BY <1>4 DEF Abort, Stop, RecoverLater, Unrecoverable, Record, Stopped, nodeVars, TypeOK
  <2> QED
    BY <1>1, <2>1, <2>2, ParkedUnderMove DEF TypeOK
<1> QED
  BY <1>2, <1>3, <1>4 DEF Operator

\* As long as verdicts are current, a node parked behind an upstream stop has
\* a stopped dependency for as long as it is parked: no restart and no skip
\* ever forgets a waiter, however far down the graph.
THEOREM ParkedStayBehindStopped ==
  ASSUME ~StaleVerdicts
  PROVE  Spec => []ParkedBehindStopped
<1>1. Init => ParkedBehindStopped
  BY DEF Init, ParkedBehindStopped
<1>2. TypeOK /\ LockInv /\ SessionInv /\ ParkedBehindStopped /\ [Next]_vars
        => ParkedBehindStopped'
  <2> SUFFICES ASSUME TypeOK, LockInv, SessionInv, ParkedBehindStopped, [Next]_vars
               PROVE  ParkedBehindStopped'
    OBVIOUS
  <2>1. \A m \in Node : process'[m] = "none" => process[m] = "none"
    BY SessionsAreKept
  <2>2. ASSUME ~ \E x \in Node : Skip(x),
               \A d \in Node : state[d] \in Stopped => state'[d] \in Stopped,
               \A m \in upstreamNote' : m \in upstreamNote /\ state'[m] = state[m]
        PROVE  ParkedBehindStopped'
    <3>1. InState(Skipped)' = InState(Skipped)
      BY <2>2, SkippedOnlyBySkip
    <3> QED
      BY <2>1, <2>2, <3>1, ParkedUnderMove DEF TypeOK
  <2>3. CASE Environment \/ UNCHANGED vars
    <3>1. UNCHANGED <<state, upstreamNote>>
      BY <2>3, EnvironmentMovesNoNode DEF vars, nodeVars
    <3>2. CASE \E x \in Node : Skip(x)
      BY <3>2, ParkedUnderOperator DEF Operator
    <3> QED
      BY <2>2, <3>1, <3>2
  <2>4. CASE BeginPass \/ PassDies \/ NextPhase \/ Conclude \/ ScanForRecovery
    <3>1. /\ \A d \in Node : state[d] \in Stopped => state'[d] \in Stopped
          /\ \A m \in upstreamNote' : m \in upstreamNote /\ state'[m] = state[m]
      BY <2>4 DEF BeginPass, PassDies, NextPhase, Conclude, ScanForRecovery, InState,
                  Stopped, NeedsHuman, Errored, nodeVars, TypeOK
    <3>2. CASE \E x \in Node : Skip(x)
      BY <3>2, ParkedUnderOperator DEF Operator
    <3> QED
      BY <2>2, <3>1, <3>2
  <2> QED
    BY <2>3, <2>4, ParkedUnderSweep, ParkedUnderOperator DEF Next, PassStep
<1> QED
  BY <1>1, <1>2, InvariantsHold, PTL DEF Spec

-----------------------------------------------------------------------------
(* The worker budget, whatever the recovery agent does.                    *)

\* Nodes in progress are counted before another one starts or wakes; a verdict
\* takes an attempt, and only a retry gives it back.
BudgetInv ==
  /\ \A n \in Node : attempts[n] <= RecoveryAllowance
  /\ Cardinality(SpentNoVerdict) <= MaxWorkers

\* The nodes in progress that no verdict was spent on grow by one at most, and only
\* below the budget.
LEMMA WorkersGrowUnderBudget ==
  ASSUME TypeOK, [Next]_vars, \A n \in Node : attempts[n] <= RecoveryAllowance
  PROVE  \/ SpentNoVerdict' \subseteq SpentNoVerdict
         \/ /\ Cardinality(InState(InProgress)) < MaxWorkers
            /\ \E n \in Node : SpentNoVerdict' \subseteq InState(InProgress) \cup {n}
<1> DEFINE Goal ==
      \/ SpentNoVerdict' \subseteq SpentNoVerdict
      \/ /\ Cardinality(InState(InProgress)) < MaxWorkers
         /\ \E n \in Node : SpentNoVerdict' \subseteq InState(InProgress) \cup {n}
<1> USE DEF TypeOK, InState, SpentNoVerdict,
            Pending, InProgress, Resting, NeedsHuman, Merged, Errored, Skipped
<1>1. CASE Environment
  <2>1. state' = state /\ attempts' = attempts
    BY <1>1, EnvironmentMovesNoNode DEF Environment, SessionExits, DeadlinePasses,
       StrayExits, AgentOpensPullRequest, HumanSettlesPullRequest, ResumeTimeComes
  <2> QED
    BY <2>1
<1>2. ASSUME NEW n \in Node, Wake(n) \/ Start(n) PROVE Goal
  <2>1. Cardinality(InState(InProgress)) < MaxWorkers
    BY <1>2 DEF Wake, Start, MayStart
  <2>2. InState(InProgress)' = InState(InProgress) \cup {n}
    BY <1>2 DEF Wake, Start, Record
  <2>3. SpentNoVerdict' \subseteq InState(InProgress) \cup {n}
    BY <2>2
  <2> QED
    BY <2>1, <2>3
<1>3. ASSUME NEW n \in Node, Sweep(n), ~Wake(n), ~Start(n) PROVE Goal
  <2>1. state'[n] # InProgress \/ state'[n] = state[n]
    BY <1>3 DEF Sweep, LeaveWorking, WaitForUsageLimit, SettleFails,
                SettleWithoutPullRequest, SettleOnPullRequest, LeaveResting, RecordMerged,
                RecordClosed, RunOutOfWakes, StopBehindUpstream, LeavePending,
                FailToProvision, Record, nodeVars
  <2>2. attempts' = attempts
    BY <1>3 DEF Sweep, Handle, Visit, LeaveWorking, WaitForUsageLimit, SettleFails,
                SettleWithoutPullRequest, SettleOnPullRequest, LeaveResting, RecordMerged,
                RecordClosed, RunOutOfWakes, StopBehindUpstream, LeavePending,
                FailToProvision
  <2> QED
    BY <1>3, <2>1, <2>2, SweepMovesOneNode
<1>4. CASE BeginPass \/ PassDies \/ NextPhase \/ Conclude
  BY <1>4 DEF BeginPass, PassDies, NextPhase, Conclude, nodeVars
<1>5. CASE ScanForRecovery
  BY <1>5 DEF ScanForRecovery
<1>6. CASE Abort
  BY <1>6 DEF Abort
<1>7. ASSUME NEW n \in Node, Retry(n) \/ Skip(n) \/ Stop(n) PROVE Goal
  BY <1>7 DEF Retry, Skip, Stop, RecordAndRelease, Record
<1>8. ASSUME NEW n \in Node,
             RecoverLater(n) \/ RecoverByWaiting(n) \/ RecoverByWaking(n) \/ Unrecoverable(n)
      PROVE  Goal
  <2>1. attempts'[n] # RecoveryAllowance /\ \A m \in Node \ {n} : attempts'[m] = attempts[m]
    BY <1>8, RunAssumption
       DEF RecoverLater, RecoverByWaiting, RecoverByWaking, Unrecoverable, Verdict
  <2>2. \A m \in Node \ {n} : state'[m] = InProgress => state[m] = InProgress
    BY <1>8 DEF RecoverLater, RecoverByWaiting, RecoverByWaking, Unrecoverable,
                RecordAndRelease, Record, nodeVars
  <2> QED
    BY <2>1, <2>2
<1>9. CASE UNCHANGED vars
  BY <1>9 DEF vars, nodeVars
<1> QED
  BY <1>1, <1>2, <1>3, <1>4, <1>5, <1>6, <1>7, <1>8, <1>9 DEF Next, PassStep, Operator

\* Only the operator's commands count attempts.
LEMMA OnlyCommandsCountAttempts ==
  ASSUME Environment \/ PassStep \/ UNCHANGED vars
  PROVE  attempts' = attempts
BY DEF Environment, SessionExits, DeadlinePasses, StrayExits, vars,
   AgentOpensPullRequest, HumanSettlesPullRequest, ResumeTimeComes, PassStep, BeginPass,
   PassDies, NextPhase, ScanForRecovery, Conclude, Sweep, Handle, Visit, LeaveWorking,
   WaitForUsageLimit, SettleFails, SettleWithoutPullRequest, SettleOnPullRequest,
   LeaveResting, RecordMerged, RecordClosed, RunOutOfWakes, Wake, StopBehindUpstream,
   LeavePending, FailToProvision, Start

\* No step gives a node more attempts than it began with.
LEMMA AttemptsAreBounded ==
  ASSUME TypeOK, [Next]_vars, \A n \in Node : attempts[n] <= RecoveryAllowance
  PROVE  \A n \in Node : attempts'[n] <= RecoveryAllowance
<1> USE RunAssumption DEF TypeOK
<1>1. CASE Environment \/ PassStep \/ UNCHANGED vars
  BY <1>1, OnlyCommandsCountAttempts
<1>2. CASE Operator
  BY <1>2 DEF Operator, Retry, Skip, Stop, Abort, RecoverLater, RecoverByWaiting,
     RecoverByWaking, Unrecoverable, Verdict
<1> QED
  BY <1>1, <1>2 DEF Next

\* Each start and each wake of a sweep counts the nodes in progress first.
LEMMA BudgetIsKept ==
  ASSUME IsFiniteSet(Node)
  PROVE  TypeOK /\ BudgetInv /\ [Next]_vars => BudgetInv'
<1> SUFFICES ASSUME TypeOK, BudgetInv, [Next]_vars PROVE BudgetInv'
  OBVIOUS
<1>1. /\ IsFiniteSet(InState(InProgress)) /\ Cardinality(InState(InProgress)) \in Nat
      /\ IsFiniteSet(SpentNoVerdict) /\ Cardinality(SpentNoVerdict) \in Nat
  BY FS_Subset, FS_CardinalityType DEF InState, SpentNoVerdict
<1>2. \A n \in Node : attempts'[n] <= RecoveryAllowance
  BY AttemptsAreBounded DEF BudgetInv
<1>3. CASE SpentNoVerdict' \subseteq SpentNoVerdict
  <2>1. /\ Cardinality(SpentNoVerdict') <= Cardinality(SpentNoVerdict)
        /\ Cardinality(SpentNoVerdict') \in Nat
    BY <1>1, <1>3, FS_Subset, FS_CardinalityType
  <2> QED
    BY <1>1, <1>2, <2>1, RunAssumption DEF BudgetInv
<1>4. ASSUME Cardinality(InState(InProgress)) < MaxWorkers, NEW n \in Node,
             SpentNoVerdict' \subseteq InState(InProgress) \cup {n}
      PROVE  BudgetInv'
  <2> DEFINE Grown == InState(InProgress) \cup {n}
  <2>1. /\ IsFiniteSet(Grown)
        /\ Cardinality(Grown)
             \in {Cardinality(InState(InProgress)), Cardinality(InState(InProgress)) + 1}
    BY <1>1, FS_AddElement
  <2>2. /\ Cardinality(SpentNoVerdict') <= Cardinality(Grown)
        /\ Cardinality(SpentNoVerdict') \in Nat
    BY <1>4, <2>1, FS_Subset, FS_CardinalityType
  <2> QED
    BY <1>1, <1>2, <1>4, <2>1, <2>2, RunAssumption DEF BudgetInv
<1> QED
  BY <1>3, <1>4, WorkersGrowUnderBudget DEF BudgetInv

\* However many nodes become ready at once and whatever verdicts come, stale ones
\* included, no more agents work for nodes without a verdict than max_workers allows.
THEOREM SessionsStayWithinBudget ==
  ASSUME IsFiniteSet(Node)
  PROVE  Spec => []SessionsWithinBudget
<1>1. Init => BudgetInv
  <2>1. Init => SpentNoVerdict = {}
    BY DEF Init, InState, SpentNoVerdict, Pending, InProgress
  <2> QED
    BY <2>1, FS_EmptySet, RunAssumption DEF BudgetInv, Init
<1>2. BudgetInv => SessionsWithinBudget
  <2> SUFFICES ASSUME BudgetInv PROVE SessionsWithinBudget
    OBVIOUS
  <2> DEFINE Running == {n \in SpentNoVerdict : IsAlive(n)}
  <2>1. IsFiniteSet(SpentNoVerdict) /\ Cardinality(SpentNoVerdict) \in Nat
    BY FS_Subset, FS_CardinalityType DEF InState, SpentNoVerdict
  <2>2. Cardinality(Running) <= Cardinality(SpentNoVerdict) /\ Cardinality(Running) \in Nat
    BY <2>1, FS_Subset, FS_CardinalityType
  <2> QED
    BY <2>1, <2>2, RunAssumption DEF BudgetInv, SessionsWithinBudget
<1> QED
  BY <1>1, <1>2, BudgetIsKept, TypeCorrect, PTL DEF Spec

-----------------------------------------------------------------------------
(* Abort.                                                                  *)

\* The row of a session that runs is open, stale verdicts or not.
RowsInv == \A n \in Node : IsAlive(n) => n \in openRow

\* A latest session that runs keeps its row open under every step.
LEMMA RowsAreKept == TypeOK /\ RowsInv /\ [Next]_vars => RowsInv'
<1> SUFFICES ASSUME TypeOK, RowsInv, [Next]_vars PROVE RowsInv'
  OBVIOUS
<1> USE DEF TypeOK, RowsInv, IsAlive, BeginSession, CloseSession, nodeVars, sessionVars
<1>1. CASE Environment
  BY <1>1 DEF Environment, SessionExits, DeadlinePasses, StrayExits,
              AgentOpensPullRequest, HumanSettlesPullRequest, ResumeTimeComes
<1>2. CASE PassStep
  BY <1>2 DEF PassStep, Sweep, BeginPass, PassDies, NextPhase, ScanForRecovery, Conclude,
              LeaveWorking, WaitForUsageLimit, SettleFails, SettleWithoutPullRequest,
              SettleOnPullRequest, LeaveResting, RecordMerged, RecordClosed,
              RunOutOfWakes, Wake, StopBehindUpstream, LeavePending, FailToProvision,
              Start, Handle, Visit
<1>3. CASE Operator
  BY <1>3 DEF Operator, Abort, Retry, Skip, Stop, RecoverLater, RecoverByWaiting,
              RecoverByWaking, Unrecoverable
<1>4. CASE UNCHANGED vars
  BY <1>4 DEF vars
<1> QED
  BY <1>1, <1>2, <1>3, <1>4 DEF Next

\* Abort leaves no agent running, whatever stale verdicts did before it.
THEOREM AbortAlwaysKillsEveryAgent == Spec => AbortKillsEveryAgent
<1>1. Init => RowsInv
  BY DEF Init, RowsInv, IsAlive
<1>2. TypeOK /\ RowsInv /\ [Next]_vars
        => [Abort => \A n \in Node : process'[n] \notin {"alive", "late"}
                                     /\ stray'[n] # "alive"]_vars
  BY DEF TypeOK, RowsInv, IsAlive, Abort, StrayRows
<1> QED
  BY <1>1, <1>2, TypeCorrect, RowsAreKept, PTL DEF Spec, AbortKillsEveryAgent

-----------------------------------------------------------------------------
(* The host job.                                                           *)

\* The states of a run that can end.
Ended(states) ==
  states \subseteq {Merged, Skipped} \/ states \subseteq {NeedsHuman, Errored, Skipped}

\* A run status other than active says every node has ended (get_run_status).
LEMMA EndedIsNotActive ==
  ASSUME NEW states
  PROVE  RunStatus(states) # "active" <=> Ended(states)
BY DEF RunStatus, Ended

JobInv == job = "retired" => Ended({state[n] : n \in Node})

\* Only a pass that found the run ended retires the job, and every command that
\* puts a node back to work registers it again.
LEMMA JobInvIsKept ==
  ASSUME ~StaleVerdicts
  PROVE  TypeOK /\ LockInv /\ SessionInv /\ JobInv /\ [Next]_vars => JobInv'
<1> SUFFICES ASSUME TypeOK, LockInv, SessionInv, JobInv, [Next]_vars, job' = "retired"
             PROVE  Ended({state'[n] : n \in Node})
  BY DEF JobInv
<1> USE DEF JobInv, Ended,
            Pending, InProgress, Resting, NeedsHuman, Merged, Errored, Skipped
<1>1. CASE UNCHANGED <<state, job>>
  BY <1>1
<1>2. CASE Conclude
  BY <1>2, EndedIsNotActive DEF Conclude, nodeVars
<1>3. ASSUME NEW n \in Node, Sweep(n) PROVE FALSE
  <2>1. state[n] \in {Pending, InProgress, Resting}
    BY <1>3, SweepMovesOneNode
       DEF LockInv, PassReadsAreCurrent, Sweep, Handle, Visit, LeaveWorking,
           WaitForUsageLimit, SettleFails, SettleWithoutPullRequest, SettleOnPullRequest,
           LeaveResting, RecordMerged, RecordClosed, RunOutOfWakes, Wake,
           StopBehindUpstream, LeavePending, FailToProvision, Start
  <2>2. job = "retired"
    BY <1>3 DEF Sweep, Handle, Visit, LeaveWorking, WaitForUsageLimit, SettleFails,
           SettleWithoutPullRequest, SettleOnPullRequest, LeaveResting, RecordMerged,
           RecordClosed, RunOutOfWakes, Wake, StopBehindUpstream, LeavePending,
           FailToProvision, Start
  <2> QED
    BY <2>1, <2>2
<1>4. CASE ScanForRecovery
  BY <1>4 DEF ScanForRecovery, InState
<1>5. ASSUME NEW n \in Node, Unrecoverable(n)
      PROVE  Ended({state'[m] : m \in Node})
  <2>1. job = "retired" /\ state[n] \in {Errored, NeedsHuman, Resting}
    BY <1>5 DEF Unrecoverable, Verdict, Examined
  <2>2. \A m \in Node : state[m] \in {NeedsHuman, Errored, Skipped}
    BY <2>1
  <2>3. \A m \in Node : state'[m] \in {NeedsHuman, Errored, Skipped}
    BY <1>5, <2>2 DEF Unrecoverable, Record, nodeVars, TypeOK
  <2> QED
    BY <2>3
<1>6. ASSUME NEW n \in Node, Stop(n) PROVE FALSE
  BY <1>6 DEF Stop
<1>7. ASSUME NEW n \in Node, Skip(n) PROVE UNCHANGED <<state, job>>
  BY <1>7 DEF Skip, EnsureRegistered, RecordAndRelease, TypeOK
<1>8. ~ Abort /\ ~ \E n \in Node : Retry(n) \/ RecoverByWaiting(n) \/ RecoverByWaking(n)
  BY DEF Abort, Retry, RecoverByWaiting, RecoverByWaking, EnsureRegistered
<1>9. CASE Environment \/ BeginPass \/ PassDies \/ NextPhase \/ UNCHANGED vars
  BY <1>1, <1>9 DEF Environment, SessionExits, DeadlinePasses, StrayExits,
         AgentOpensPullRequest, HumanSettlesPullRequest, ResumeTimeComes,
         BeginPass, PassDies, NextPhase, nodeVars, vars
<1>10. ASSUME NEW n \in Node, RecoverLater(n) PROVE UNCHANGED <<state, job>>
  BY <1>10 DEF RecoverLater, nodeVars
<1> QED
  BY <1>1, <1>2, <1>3, <1>4, <1>5, <1>6, <1>7, <1>8, <1>9, <1>10
     DEF Next, PassStep, Operator

\* As long as verdicts are current, a run whose host job was retired has
\* nothing left for a pass to do, until a command registers the job again.
THEOREM RetiredRunsAreDone ==
  ASSUME ~StaleVerdicts
  PROVE  Spec => []RetiredRunHasNothingToDo
<1>1. Init => JobInv
  BY DEF Init, JobInv
<1>2. JobInv => RetiredRunHasNothingToDo
  BY EndedIsNotActive DEF JobInv, RetiredRunHasNothingToDo
<1> QED
  BY <1>1, <1>2, JobInvIsKept, InvariantsHold, PTL DEF Spec

-----------------------------------------------------------------------------
(* The life of a node, as long as every verdict is current.                *)

\* The life of a node is told in the words of the run.
LEMMA SameWords ==
  ASSUME NEW n \in Node
  PROVE  /\ \A s : Lifecycle!InState(s) = InState(s)
         /\ Lifecycle!Dependencies(n) = Dependencies(n)
         /\ Lifecycle!Descendants(n) = Descendants(n)
<1>1. \A s : Lifecycle!InState(s) = InState(s)
  BY DEF Lifecycle!InState, InState
<1>2. \A S, T : Lifecycle!ResolvedWithin(n, S, T) <=> ResolvedWithin(n, S, T)
  BY DEF Lifecycle!ResolvedWithin, ResolvedWithin
<1>3. Lifecycle!Dependencies(n) = Dependencies(n)
  BY <1>1, <1>2
     DEF Lifecycle!Dependencies, Lifecycle!EffectiveDependencies,
         Lifecycle!ResolvedDependencies, Lifecycle!Skipped, Dependencies,
         EffectiveDependencies, ResolvedDependencies, Skipped
<1>4. Lifecycle!Descendants(n) = Descendants(n)
  BY DEF Lifecycle!Descendants, Lifecycle!ClosedDownstream, Descendants, ClosedDownstream
<1> QED
  BY <1>1, <1>3, <1>4

\* Workers are counted in a node's life as the handlers count them.
LEMMA WorkersAreCounted ==
  Lifecycle!WorkerFree <=> Cardinality(InState(InProgress)) < MaxWorkers
<1>1. \A S : Lifecycle!Cardinality(S) = Cardinality(S)
  BY DEF Lifecycle!Cardinality, Cardinality
<1>2. Lifecycle!InState(Lifecycle!InProgress) = InState(InProgress)
  BY DEF Lifecycle!InState, Lifecycle!InProgress, InState, InProgress
<1> QED
  BY <1>1, <1>2 DEF Lifecycle!WorkerFree

\* An agent at work is that of its node's latest session.
LEMMA WorkingIsTheLatest ==
  ASSUME SessionInv
  PROVE  Working = {n \in Node : IsAlive(n)}
BY DEF Working, SessionInv, OneSessionPerWorktree

\* What an agent may begin on, it does: a node that ever had a session stands on
\* merged dependencies, and so does a pending one that may start.
LEMMA ReadyToBegin ==
  ASSUME WorkStandsOnMergedDependencies, NEW n \in Node,
         process[n] # "none" \/ MayStart(n)
  PROVE  Lifecycle!Ready(n)
BY SameWords DEF Lifecycle!Ready, Lifecycle!Merged, Merged, MayStart, Dependencies,
   WorkStandsOnMergedDependencies

\* To record a node's move is to move it in its life.
LEMMA RecordMoves ==
  ASSUME TypeOK, NEW n \in Node, NEW s, Record(n, s),
         \A m \in Node \ {n} : process'[m] = process[m]
  PROVE  Lifecycle!Move(n, s)
BY DEF Record, Lifecycle!Move, Parked, TypeOK

\* To release the dependents of a node is to release nodes parked downstream.
LEMMA ReleaseMoves ==
  ASSUME TypeOK, NEW n \in Node, NEW s, NEW r,
         RecordAndRelease(n, s, r),
         \A m \in Node \ {n} : process'[m] = process[m]
  PROVE  Lifecycle!MoveAndRelease(n, s)
<1>1. Released(n) \subseteq Parked \cap Lifecycle!Descendants(n)
  BY SameWords DEF Released, Parked, TypeOK
<1>2. state' = [m \in Node |-> IF m = n THEN s
                               ELSE IF m \in Released(n) THEN Lifecycle!Pending
                               ELSE state[m]]
  BY DEF RecordAndRelease, Lifecycle!Pending, Pending
<1>3. Parked' = Parked \ (Released(n) \cup {n})
  BY DEF RecordAndRelease, Parked, TypeOK
<1> QED
  BY <1>1, <1>2, <1>3 DEF Lifecycle!MoveAndRelease

\* A session that begins where none runs is an agent that begins on the node.
LEMMA SessionBegins ==
  ASSUME TypeOK, SessionInv, SessionInv', NEW n \in Node, BeginSession(n), ~IsAlive(n),
         Lifecycle!Ready(n)
  PROVE  Lifecycle!Begin(n)
<1>1. Working' = {m \in Node : IsAlive(m)'}
  BY DEF Working, SessionInv, OneSessionPerWorktree
<1>2. n \notin Working /\ Working' = Working \cup {n}
  BY <1>1, WorkingIsTheLatest DEF BeginSession, IsAlive, TypeOK
<1> QED
  BY <1>2 DEF Lifecycle!Begin

\* A node that is parked is so in its life, too.
LEMMA NobodyForgotten ==
  ASSUME TypeOK, ParkedBehindStopped
  PROVE  Lifecycle!NobodyIsForgotten
BY SameWords DEF Lifecycle!NobodyIsForgotten, Lifecycle!Behind, Lifecycle!Stopped,
   Lifecycle!NeedsHuman, Lifecycle!Errored, Parked, ParkedBehindStopped, Stopped,
   NeedsHuman, Errored, TypeOK

\* What the steps below start from.
LifeInv ==
  /\ TypeOK /\ LockInv /\ SessionInv
  /\ WorkStandsOnMergedDependencies
  /\ ParkedBehindStopped
  /\ \A n \in Node : attempts[n] <= RecoveryAllowance

\* A node without a note is not parked, and one that is parked waits for a human.
LEMMA OnlyStoppedAreParked ==
  ASSUME LifeInv, NEW n \in Node, state[n] # NeedsHuman
  PROVE  n \notin upstreamNote
BY DEF LifeInv, ParkedBehindStopped

\* Sessions, GitHub and the clock end agents and do nothing else one can see.
LEMMA LifeUnderEnvironment ==
  ASSUME LifeInv, SessionInv', Environment
  PROVE  Lifecycle!Course \/ UNCHANGED Lifecycle!life
<1> USE DEF LifeInv, TypeOK, Lifecycle!life, nodeVars, sessionVars
<1>1. ASSUME NEW n \in Node, SessionExits(n) PROVE Lifecycle!Course
  <2>1. n \in Working /\ Working' = Working \ {n}
    BY <1>1 DEF SessionExits, Working, IsAlive, SessionInv, OneSessionPerWorktree
  <2>2. Parked' = Parked /\ state' = state
    BY <1>1 DEF SessionExits, Parked, IsAlive
  <2> QED
    BY <2>1, <2>2 DEF Lifecycle!Course, Lifecycle!AgentEnds
<1>2. ASSUME NEW n \in Node, DeadlinePasses(n) PROVE UNCHANGED Lifecycle!life
  BY <1>2 DEF DeadlinePasses, Working, Parked, IsAlive
<1>3. ASSUME NEW n \in Node, StrayExits(n) PROVE FALSE
  BY <1>3 DEF StrayExits, SessionInv, OneSessionPerWorktree
<1>4. ASSUME NEW n \in Node,
             AgentOpensPullRequest(n) \/ HumanSettlesPullRequest(n) \/ ResumeTimeComes(n)
      PROVE  UNCHANGED Lifecycle!life
  BY <1>4 DEF AgentOpensPullRequest, HumanSettlesPullRequest, ResumeTimeComes,
              Working, Parked, IsAlive
<1> QED
  BY <1>1, <1>2, <1>3, <1>4 DEF Environment

\* The sweep of the nodes in progress ends agents and settles their nodes.
LEMMA LifeUnderSettling ==
  ASSUME LifeInv, SessionInv', NEW n \in Node,
         \/ LeaveWorking(n) \/ WaitForUsageLimit(n) \/ SettleFails(n)
         \/ SettleWithoutPullRequest(n) \/ SettleOnPullRequest(n)
  PROVE  Lifecycle!Course \/ UNCHANGED Lifecycle!life
<1>1. state[n] = InProgress /\ n \notin upstreamNote
  <2>1. state[n] = InProgress
    BY DEF LeaveWorking, WaitForUsageLimit, SettleFails, SettleWithoutPullRequest,
           SettleOnPullRequest, Handle, Visit, LifeInv, LockInv, PassReadsAreCurrent
  <2> QED
    BY <2>1, OnlyStoppedAreParked DEF InProgress, NeedsHuman
<1>2. ASSUME CloseSession(n), UNCHANGED stray PROVE Working' = Working \ {n}
  BY <1>2 DEF CloseSession, Working, IsAlive, LifeInv, TypeOK, SessionInv,
              OneSessionPerWorktree
<1>3. ASSUME NEW s \in {Pending, Resting, NeedsHuman, Errored}, s = Errored => IsAlive(n),
             CloseSession(n), UNCHANGED stray, Lifecycle!Move(n, s)
      PROVE  Lifecycle!Course
  <2>1. s \in {Lifecycle!Pending, Lifecycle!Resting, Lifecycle!NeedsHuman,
               Lifecycle!Errored}
    BY DEF Lifecycle!Pending, Lifecycle!Resting, Lifecycle!NeedsHuman, Lifecycle!Errored,
           Pending, Resting, NeedsHuman, Errored
  <2>2. s = Lifecycle!Errored => n \in Working
    BY <1>3 DEF Lifecycle!Errored, Errored, Working
  <2>3. Lifecycle!Settle(n)
    BY <1>1, <1>2, <1>3, <2>1, <2>2 DEF Lifecycle!Settle, Lifecycle!InProgress, InProgress
  <2> QED
    BY <2>3 DEF Lifecycle!Course
<1>4. CASE LeaveWorking(n)
  BY <1>4 DEF LeaveWorking, Lifecycle!life, Working, Parked, IsAlive, nodeVars, sessionVars
<1>5. CASE WaitForUsageLimit(n)
  <2>1. Lifecycle!Move(n, Pending)
    BY <1>5 DEF WaitForUsageLimit, CloseSession, Lifecycle!Move, Parked, LifeInv, TypeOK
  <2> QED
    BY <1>3, <1>5, <2>1 DEF WaitForUsageLimit, Pending, Errored
<1>6. CASE SettleFails(n)
  <2>1. Parked' = Parked /\ state' = state
    BY <1>1, <1>6 DEF SettleFails, CloseSession, Parked, nodeVars, LifeInv, TypeOK
  <2>2. CASE CloseSession(n) /\ n \in Working
    BY <1>2, <1>6, <2>1, <2>2 DEF SettleFails, Lifecycle!Course, Lifecycle!AgentEnds
  <2>3. CASE CloseSession(n) /\ n \notin Working
    BY <1>2, <1>6, <2>1, <2>3 DEF SettleFails, Lifecycle!life
  <2>4. CASE UNCHANGED process
    BY <1>6, <2>1, <2>4 DEF SettleFails, Lifecycle!life, Working, IsAlive
  <2> QED
    BY <1>6, <2>2, <2>3, <2>4 DEF SettleFails
<1>7. CASE SettleWithoutPullRequest(n)
  <2> DEFINE s == IF process[n] = "late" THEN Errored ELSE NeedsHuman
  <2>1. Record(n, s) /\ CloseSession(n) /\ UNCHANGED stray
    BY <1>7 DEF SettleWithoutPullRequest
  <2>2. Lifecycle!Move(n, s)
    BY <2>1, RecordMoves DEF CloseSession, LifeInv, TypeOK
  <2>3. s \in {NeedsHuman, Errored} /\ (s = Errored => IsAlive(n))
    BY DEF NeedsHuman, Errored, IsAlive
  <2> QED
    BY <1>3, <2>1, <2>2, <2>3
<1>8. CASE SettleOnPullRequest(n)
  <2>1. Lifecycle!Move(n, Resting)
    BY <1>8, RecordMoves DEF SettleOnPullRequest, CloseSession, LifeInv, TypeOK
  <2> QED
    BY <1>3, <1>8, <2>1 DEF SettleOnPullRequest, Resting, Errored
<1> QED
  BY <1>4, <1>5, <1>6, <1>7, <1>8

\* The sweep of the resting nodes ends reviews and wakes agents on merged work.
LEMMA LifeUnderReview ==
  ASSUME LifeInv, SessionInv', NEW n \in Node,
         \/ LeaveResting(n) \/ RecordMerged(n) \/ RecordClosed(n) \/ RunOutOfWakes(n)
         \/ Wake(n)
  PROVE  Lifecycle!Course \/ UNCHANGED Lifecycle!life
<1>1. state[n] = Resting
  BY DEF LeaveResting, RecordMerged, RecordClosed, RunOutOfWakes, Wake, Handle, Visit,
         LifeInv, LockInv, PassReadsAreCurrent
<1>2. CASE LeaveResting(n)
  BY <1>2 DEF LeaveResting, Lifecycle!life, Working, Parked, IsAlive, nodeVars, sessionVars
<1>3. CASE RecordMerged(n) \/ RecordClosed(n) \/ RunOutOfWakes(n)
  <2>1. UNCHANGED process /\ Working' = Working
    BY <1>3 DEF RecordMerged, RecordClosed, RunOutOfWakes, Working, IsAlive, sessionVars
  <2>2. \E s \in {Merged, NeedsHuman} : Lifecycle!Move(n, s)
    BY <1>3, <2>1, RecordMoves DEF RecordMerged, RecordClosed, RunOutOfWakes, LifeInv
  <2>3. Lifecycle!EndReview(n)
    BY <1>1, <2>1, <2>2
       DEF Lifecycle!EndReview, Lifecycle!Resting, Lifecycle!Merged, Lifecycle!NeedsHuman,
           Resting, Merged, NeedsHuman
  <2> QED
    BY <2>3 DEF Lifecycle!Course
<1>4. CASE Wake(n)
  <2>1. process[n] # "none" /\ ~IsAlive(n)
    BY <1>1 DEF LifeInv, SessionInv, OneSessionPerWorktree, Resting, InProgress
  <2>2. Lifecycle!Begin(n)
    BY <1>4, <2>1, ReadyToBegin, SessionBegins DEF Wake, LifeInv
  <2>3. Lifecycle!Move(n, InProgress)
    BY <1>4, RecordMoves DEF Wake, BeginSession, LifeInv, TypeOK
  <2>4. Lifecycle!WorkerFree
    BY <1>4, WorkersAreCounted DEF Wake
  <2>5. Lifecycle!Wake(n)
    BY <1>1, <2>2, <2>3, <2>4
       DEF Lifecycle!Wake, Lifecycle!Resting, Lifecycle!InProgress, Resting, InProgress
  <2> QED
    BY <2>5 DEF Lifecycle!Course
<1> QED
  BY <1>2, <1>3, <1>4

\* The sweep of the pending nodes parks them, fails to start them or starts them:
\* only a node that never had an agent has a dependency that stopped.
LEMMA LifeUnderStarting ==
  ASSUME LifeInv, SessionInv', NEW n \in Node,
         StopBehindUpstream(n) \/ LeavePending(n) \/ FailToProvision(n) \/ Start(n)
  PROVE  Lifecycle!Course \/ UNCHANGED Lifecycle!life
<1>1. state[n] = Pending
  BY DEF StopBehindUpstream, LeavePending, FailToProvision, Start, Handle, Visit,
         LifeInv, LockInv, PassReadsAreCurrent
<1>2. CASE LeavePending(n)
  BY <1>2 DEF LeavePending, Lifecycle!life, Working, Parked, IsAlive, nodeVars, sessionVars
<1>3. CASE StopBehindUpstream(n)
  <2>1. UNCHANGED process /\ Working' = Working
    BY <1>3 DEF StopBehindUpstream, Working, IsAlive, sessionVars
  <2>2. PICK d \in Dependencies(n) : state[d] \in Stopped
    BY <1>3 DEF StopBehindUpstream
  <2>3. process[n] = "none"
    BY <2>2 DEF LifeInv, WorkStandsOnMergedDependencies, Dependencies, Stopped, Merged,
                NeedsHuman, Errored
  <2>4. Parked' = Parked \cup {n}
    BY <1>3, <2>1, <2>3 DEF StopBehindUpstream, Parked
  <2>5. Lifecycle!Behind(n)
    BY <2>2, SameWords DEF Lifecycle!Behind, Lifecycle!Stopped, Lifecycle!NeedsHuman,
       Lifecycle!Errored, Stopped, NeedsHuman, Errored
  <2>6. Lifecycle!Park(n)
    BY <1>1, <1>3, <2>1, <2>4, <2>5
       DEF StopBehindUpstream, Lifecycle!Park, Lifecycle!Pending, Lifecycle!NeedsHuman,
           Pending, NeedsHuman
  <2> QED
    BY <2>6 DEF Lifecycle!Course
<1>4. CASE FailToProvision(n)
  <2>1. UNCHANGED process /\ Working' = Working
    BY <1>4 DEF FailToProvision, Working, IsAlive, sessionVars
  <2>2. Lifecycle!Move(n, Errored)
    BY <1>4, <2>1, RecordMoves DEF FailToProvision, LifeInv
  <2>3. Lifecycle!FailToStart(n)
    BY <1>1, <1>4, <2>1, <2>2, ReadyToBegin
       DEF FailToProvision, Lifecycle!FailToStart, Lifecycle!Pending, Lifecycle!Errored,
           Pending, Errored, LifeInv
  <2> QED
    BY <2>3 DEF Lifecycle!Course
<1>5. CASE Start(n)
  <2>1. ~IsAlive(n)
    BY <1>1 DEF LifeInv, SessionInv, OneSessionPerWorktree, Pending, InProgress
  <2>2. Lifecycle!Begin(n)
    BY <1>5, <2>1, ReadyToBegin, SessionBegins DEF Start, LifeInv
  <2>3. Lifecycle!Move(n, InProgress)
    BY <1>5, RecordMoves DEF Start, BeginSession, LifeInv, TypeOK
  <2>4. Lifecycle!WorkerFree
    BY <1>5, WorkersAreCounted DEF Start, MayStart
  <2>5. Lifecycle!Start(n)
    BY <1>1, <2>2, <2>3, <2>4
       DEF Lifecycle!Start, Lifecycle!Pending, Lifecycle!InProgress, Pending, InProgress
  <2> QED
    BY <2>5 DEF Lifecycle!Course
<1> QED
  BY <1>2, <1>3, <1>4, <1>5

\* A retry takes a node out of those the recovery agent had its hand in, a verdict
\* adds it to them, and nothing else changes who is one.
LEMMA RetryForgivesVerdictJudges ==
  ASSUME TypeOK, \A m \in Node : attempts[m] <= RecoveryAllowance, NEW n \in Node
  PROVE  /\ Retry(n) => Judged' = Judged \ {n}
         /\ Verdict(n) => Judged' = Judged \cup {n}
BY RunAssumption DEF TypeOK, Retry, Verdict, Judged

\* A retry moves the node and releases who is parked downstream.
LEMMA LifeUnderRetry ==
  ASSUME LifeInv, NEW n \in Node, Retry(n)
  PROVE  Lifecycle!Step
<1>1. UNCHANGED process /\ Working' = Working
  BY DEF Retry, Working, IsAlive
<1>2. Lifecycle!MoveAndRelease(n, Lifecycle!Pending)
  BY <1>1, ReleaseMoves DEF Retry, LifeInv, Lifecycle!Pending, Pending
<1>3. Lifecycle!Retry(n)
  BY <1>1, <1>2 DEF Retry, Lifecycle!Retry, Stopped, Lifecycle!Stopped, NeedsHuman,
     Lifecycle!NeedsHuman, Errored, Lifecycle!Errored
<1> QED
  BY <1>3, RetryForgivesVerdictJudges DEF Lifecycle!Step, LifeInv

\* A skip, too.
LEMMA LifeUnderSkip ==
  ASSUME LifeInv, NEW n \in Node, Skip(n)
  PROVE  Lifecycle!Course
<1>1. UNCHANGED process /\ Working' = Working
  BY DEF Skip, Working, IsAlive, sessionVars
<1>2. Lifecycle!MoveAndRelease(n, Lifecycle!Skipped)
  BY <1>1, ReleaseMoves DEF Skip, LifeInv, Lifecycle!Skipped, Skipped
<1>3. Lifecycle!Skip(n)
  BY <1>1, <1>2 DEF Skip, Lifecycle!Skip, InProgress, Lifecycle!InProgress, Merged,
     Lifecycle!Merged
<1> QED
  BY <1>3 DEF Lifecycle!Course

\* A verdict finds a node stopped or resting, and its agent begins on merged work only.
LEMMA LifeUnderVerdict ==
  ASSUME LifeInv, SessionInv', ~StaleVerdicts, NEW n \in Node,
         RecoverLater(n) \/ RecoverByWaiting(n) \/ RecoverByWaking(n) \/ Unrecoverable(n)
  PROVE  Lifecycle!Step
<1> USE DEF Lifecycle!Pending, Lifecycle!InProgress, Lifecycle!Resting,
            Lifecycle!NeedsHuman, Lifecycle!Errored,
            Pending, InProgress, Resting, NeedsHuman, Errored
<1>1. Verdict(n) /\ n \notin Parked
  BY DEF RecoverLater, RecoverByWaiting, RecoverByWaking, Unrecoverable, Verdict, Parked
<1>2. SUFFICES Lifecycle!Verdict(n)
  BY <1>1, RetryForgivesVerdictJudges DEF Lifecycle!Step, LifeInv
<1>3. CASE RecoverLater(n)
  <2>1. UNCHANGED Lifecycle!life
    BY <1>3 DEF RecoverLater, Lifecycle!life, Working, Parked, IsAlive, nodeVars,
                sessionVars
  <2> QED
    BY <1>1, <2>1 DEF Lifecycle!Verdict
<1>4. CASE RecoverByWaiting(n)
  <2>1. UNCHANGED process /\ Working' = Working
    BY <1>4 DEF RecoverByWaiting, Working, IsAlive, sessionVars
  <2>2. Lifecycle!MoveAndRelease(n, Pending)
    BY <1>4, <2>1, ReleaseMoves DEF RecoverByWaiting, LifeInv
  <2>3. state[n] \in Lifecycle!Stopped \cup {Resting}
    BY <1>4 DEF RecoverByWaiting, Examined, Lifecycle!Stopped
  <2> QED
    BY <1>1, <2>1, <2>2, <2>3 DEF Lifecycle!Verdict
<1>5. CASE RecoverByWaking(n)
  <2>1. Lifecycle!Begin(n)
    BY <1>5, ReadyToBegin, SessionBegins DEF RecoverByWaking, Verdict, LifeInv
  <2>2. \A m \in Node \ {n} : process'[m] = process[m]
    BY <1>5 DEF RecoverByWaking, BeginSession, LifeInv, TypeOK
  <2>3. Lifecycle!MoveAndRelease(n, InProgress)
    BY <1>5, <2>2, ReleaseMoves DEF RecoverByWaking, LifeInv
  <2>4. state[n] \in Lifecycle!Stopped \cup {Resting}
    BY <1>5 DEF RecoverByWaking, Lifecycle!Stopped
  <2> QED
    BY <1>1, <2>1, <2>3, <2>4 DEF Lifecycle!Verdict
<1>6. CASE Unrecoverable(n)
  <2>1. UNCHANGED process /\ Working' = Working
    BY <1>6 DEF Unrecoverable, Working, IsAlive, sessionVars
  <2>2. state[n] \in Lifecycle!Stopped \cup {Resting}
    BY <1>6 DEF Unrecoverable, Examined, Lifecycle!Stopped
  <2>3. CASE state[n] = NeedsHuman
    <3>1. UNCHANGED Lifecycle!life
      BY <1>6, <2>1, <2>3 DEF Unrecoverable, Lifecycle!life, Parked, nodeVars
    <3> QED
      BY <1>1, <3>1 DEF Lifecycle!Verdict
  <2>4. CASE state[n] # NeedsHuman
    <3>1. Lifecycle!Move(n, NeedsHuman)
      BY <1>6, <2>1, <2>4, RecordMoves DEF Unrecoverable, LifeInv
    <3> QED
      BY <1>1, <2>1, <2>2, <3>1 DEF Lifecycle!Verdict
  <2> QED
    BY <2>3, <2>4
<1> QED
  BY <1>3, <1>4, <1>5, <1>6

\* A stop and an abort end agents and leave their nodes to a human.
LEMMA LifeUnderStop ==
  ASSUME LifeInv, SessionInv', Abort \/ \E n \in Node : Stop(n)
  PROVE  Lifecycle!Course
<1> USE DEF Lifecycle!InProgress, Lifecycle!NeedsHuman, Lifecycle!Errored,
            InProgress, NeedsHuman, Errored
<1>1. CASE Abort
  <2>1. StrayRows = {}
    BY DEF StrayRows, LifeInv, SessionInv, OnlyWorkingNodesHaveOpenSessions
  <2>2. openRow \in SUBSET Lifecycle!InState(Lifecycle!InProgress)
    BY DEF Lifecycle!InState, LifeInv, TypeOK, SessionInv,
           OnlyWorkingNodesHaveOpenSessions
  <2>3. Working \subseteq openRow
    BY WorkingIsTheLatest DEF LifeInv, SessionInv
  <2>4. state' = [m \in Node |-> IF m \in openRow THEN Lifecycle!NeedsHuman ELSE state[m]]
    BY <1>1, <2>1 DEF Abort
  <2>5. Working' = {}
    BY <1>1, <2>3 DEF Abort, Working, IsAlive, LifeInv, TypeOK, SessionInv,
                      OneSessionPerWorktree
  <2>6. Parked' = Parked
    <3>1. openRow \cap upstreamNote = {}
      BY <2>2 DEF Lifecycle!InState, LifeInv, ParkedBehindStopped
    <3>2. \A m \in Node : process'[m] = IF m \in openRow THEN "dead" ELSE process[m]
      BY <1>1 DEF Abort
    <3>3. upstreamNote' = upstreamNote
      BY <1>1, <2>1, <3>1 DEF Abort
    <3> QED
      BY <3>1, <3>2, <3>3 DEF Parked, LifeInv, TypeOK
  <2>7. Lifecycle!Abort
    BY <2>2, <2>3, <2>4, <2>5, <2>6 DEF Lifecycle!Abort
  <2> QED
    BY <2>7 DEF Lifecycle!Course
<1>2. ASSUME NEW n \in Node, Stop(n) PROVE Lifecycle!Course
  <2>1. state[n] = InProgress /\ Working' = Working \ {n}
    BY <1>2 DEF Stop, CloseSession, Working, IsAlive, LifeInv, TypeOK, SessionInv,
                OneSessionPerWorktree
  <2>2. Lifecycle!Move(n, NeedsHuman)
    BY <1>2, RecordMoves DEF Stop, CloseSession, LifeInv, TypeOK
  <2>3. Lifecycle!Settle(n)
    BY <2>1, <2>2 DEF Lifecycle!Settle
  <2> QED
    BY <2>3 DEF Lifecycle!Course
<1> QED
  BY <1>1, <1>2

\* What a pass does between its sweeps is not seen, but for the failed nodes that
\* its end leaves to a human.
LEMMA LifeBetweenSweeps ==
  ASSUME LifeInv,
         BeginPass \/ PassDies \/ NextPhase \/ ScanForRecovery \/ Conclude
  PROVE  Lifecycle!Course \/ UNCHANGED Lifecycle!life
<1>1. CASE BeginPass \/ PassDies \/ NextPhase \/ Conclude
  BY <1>1 DEF BeginPass, PassDies, NextPhase, Conclude, Lifecycle!life, Working, Parked,
              IsAlive, nodeVars, sessionVars
<1>2. CASE ScanForRecovery
  <2> DEFINE exhausted == {n \in InState(Errored) : attempts[n] <= 0 /\ ~IsAlive(n)}
  <2>1. exhausted \in SUBSET Lifecycle!InState(Lifecycle!Errored)
    BY DEF InState, Lifecycle!InState, Lifecycle!Errored, Errored
  <2>2. state' = [n \in Node |-> IF n \in exhausted THEN Lifecycle!NeedsHuman ELSE state[n]]
    BY <1>2 DEF ScanForRecovery, Lifecycle!NeedsHuman, NeedsHuman
  <2>3. \A n \in exhausted : n \notin upstreamNote
    BY OnlyStoppedAreParked DEF InState, Errored, NeedsHuman
  <2>4. upstreamNote' = upstreamNote
    BY <1>2, <2>3 DEF ScanForRecovery
  <2>5. UNCHANGED <<Working, Parked>>
    BY <1>2, <2>4 DEF ScanForRecovery, Working, Parked, IsAlive, sessionVars
  <2>6. Lifecycle!GiveUp
    BY <2>1, <2>2, <2>5 DEF Lifecycle!GiveUp
  <2> QED
    BY <2>6 DEF Lifecycle!Course
<1> QED
  BY <1>1, <1>2

\* A run begins as the lives of its nodes do.
LEMMA LivesBegin == Init => Lifecycle!Init
BY DEF Init, Lifecycle!Init, Lifecycle!Pending, Pending, Working, Parked, Judged, IsAlive

\* Every step of a run is a step in the lives of its nodes, or is not seen.
LEMMA LivesGoOn ==
  ASSUME ~StaleVerdicts
  PROVE  LifeInv /\ (TypeOK /\ SessionInv /\ ParkedBehindStopped)' /\ [Next]_vars
           => [Lifecycle!Next]_(Lifecycle!vars)
<1> SUFFICES ASSUME LifeInv, SessionInv', Lifecycle!NobodyIsForgotten', [Next]_vars
             PROVE  Lifecycle!Step \/ UNCHANGED Lifecycle!vars
  <2>1. TypeOK' /\ ParkedBehindStopped' => Lifecycle!NobodyIsForgotten'
    BY NobodyForgotten, PTL
  <2> QED
    BY <2>1 DEF Lifecycle!Next
<1>1. ASSUME UNCHANGED attempts, Lifecycle!Course \/ UNCHANGED Lifecycle!life
      PROVE  Lifecycle!Step \/ UNCHANGED Lifecycle!vars
  BY <1>1 DEF Judged, Lifecycle!Step, Lifecycle!vars
<1>2. CASE UNCHANGED vars
  BY <1>1, <1>2 DEF vars, nodeVars, sessionVars, Lifecycle!life, Working, Parked, IsAlive
<1>3. CASE Environment
  BY <1>1, <1>3, LifeUnderEnvironment, OnlyCommandsCountAttempts
<1>4. CASE PassStep
  BY <1>1, <1>4, LifeUnderSettling, LifeUnderReview, LifeUnderStarting, LifeBetweenSweeps,
     OnlyCommandsCountAttempts
     DEF PassStep, Sweep
<1>5. CASE Abort \/ \E n \in Node : Stop(n)
  BY <1>1, <1>5, LifeUnderStop DEF Abort, Stop
<1>6. ASSUME NEW n \in Node, Skip(n) PROVE Lifecycle!Step \/ UNCHANGED Lifecycle!vars
  BY <1>1, <1>6, LifeUnderSkip DEF Skip
<1>7. CASE Operator
  BY <1>5, <1>6, <1>7, LifeUnderRetry, LifeUnderVerdict DEF Operator
<1> QED
  BY <1>2, <1>3, <1>4, <1>7 DEF Next

\* As long as verdicts are current, a run is what the manual tells of the lives of its
\* nodes (README.md, "How a node goes"), for every graph and any number of workers:
\* agents begin on merged work only, alone and, unless a verdict resumes one, within the
\* workers, ends are final, and nobody is parked behind nothing.
THEOREM RunsFollowTheLifecycle ==
  ASSUME ~StaleVerdicts
  PROVE  Spec => FollowsTheLifecycle
<1> DEFINE Allowed == \A n \in Node : attempts[n] <= RecoveryAllowance
<1>1. Init => Allowed
  <2>1. RecoveryAllowance <= RecoveryAllowance
    BY RunAssumption
  <2> QED
    BY <2>1 DEF Init
<1>2. TypeOK /\ Allowed /\ [Next]_vars => Allowed'
  BY AttemptsAreBounded
<1>3. LifeInv <=> /\ TypeOK /\ LockInv /\ SessionInv
                  /\ WorkStandsOnMergedDependencies
                  /\ ParkedBehindStopped
                  /\ Allowed
  BY DEF LifeInv
<1> HIDE DEF Allowed
<1>4. Spec => []LifeInv
  BY <1>1, <1>2, <1>3, InvariantsHold, WorkAlwaysStandsOnMergedDependencies,
     ParkedStayBehindStopped, PTL DEF Spec
<1>5. LifeInv => TypeOK /\ SessionInv /\ ParkedBehindStopped
  BY DEF LifeInv
<1> QED
  BY <1>4, <1>5, LivesBegin, LivesGoOn, PTL DEF Spec, FollowsTheLifecycle, Lifecycle!Spec
=============================================================================
