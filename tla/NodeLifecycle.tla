---------------------------- MODULE NodeLifecycle ----------------------------
(***************************************************************************)
(* The life of a node, as the person who watches a run is told it: its     *)
(* seven states (domain/node/node_state.py), whether its agent is at work, *)
(* whether it was stopped only for the sake of another node, and whether   *)
(* the recovery agent had its hand in it.  Passes, the run lock, session   *)
(* rows, pull requests, attempts and clocks are out of sight.  DagRun is   *)
(* shown to implement it.                                                  *)
(***************************************************************************)
EXTENDS DagGraph, FiniteSets

CONSTANT MaxWorkers  \* how many nodes may be in progress at once

VARIABLES
  state,    \* where each node is in its life
  working,  \* nodes whose agent runs
  parked,   \* nodes stopped for another's sake before they ever had an agent
  judged    \* nodes the recovery agent gave a verdict on since their last retry

life == <<state, working, parked>>
vars == <<life, judged>>

Init ==
  /\ state = [n \in Node |-> Pending]
  /\ working = {}
  /\ parked = {}
  /\ judged = {}

-----------------------------------------------------------------------------
InState(s) == {n \in Node : state[n] = s}

\* Those a node waits for: a skipped one is replaced by its own dependencies.
Dependencies(n) == EffectiveDependencies(n, InState(Skipped))

Ready(n)  == \A d \in Dependencies(n) : state[d] = Merged
Behind(n) == \E d \in Dependencies(n) : state[d] \in Stopped

WorkerFree == Cardinality(InState(InProgress)) < MaxWorkers

Move(n, s) ==
  /\ state' = [state EXCEPT ![n] = s]
  /\ parked' = parked \ {n}

\* n moves to s and nodes parked downstream of it return to pending.
MoveAndRelease(n, s) ==
  \E released \in SUBSET (parked \cap Descendants(n)) :
    /\ state' = [m \in Node |-> IF m = n THEN s
                                ELSE IF m \in released THEN Pending ELSE state[m]]
    /\ parked' = parked \ (released \cup {n})

\* An agent begins on n: nobody else works on it, and all it builds on is merged.
Begin(n) ==
  /\ Ready(n)
  /\ n \notin working
  /\ working' = working \cup {n}

-----------------------------------------------------------------------------
(* What a pass does with a node.                                           *)

Start(n) ==
  /\ state[n] = Pending
  /\ WorkerFree
  /\ Begin(n)
  /\ Move(n, InProgress)

FailToStart(n) ==
  /\ state[n] = Pending
  /\ Ready(n)
  /\ Move(n, Errored)
  /\ UNCHANGED working

Park(n) ==
  /\ state[n] = Pending
  /\ Behind(n)
  /\ state' = [state EXCEPT ![n] = NeedsHuman]
  /\ parked' = parked \cup {n}
  /\ UNCHANGED working

AgentEnds(n) ==
  /\ n \in working
  /\ working' = working \ {n}
  /\ UNCHANGED <<state, parked>>

\* The work of a node ends; only one that was still at work has failed.
Settle(n) ==
  /\ state[n] = InProgress
  /\ \E s \in {Pending, Resting, NeedsHuman, Errored} :
       /\ s = Errored => n \in working
       /\ Move(n, s)
  /\ working' = working \ {n}

Wake(n) ==
  /\ state[n] = Resting
  /\ WorkerFree
  /\ Begin(n)
  /\ Move(n, InProgress)

EndReview(n) ==
  /\ state[n] = Resting
  /\ \E s \in {Merged, NeedsHuman} : Move(n, s)
  /\ UNCHANGED working

\* Failed nodes are left to a human.
GiveUp ==
  /\ \E failed \in SUBSET InState(Errored) :
       state' = [n \in Node |-> IF n \in failed THEN NeedsHuman ELSE state[n]]
  /\ UNCHANGED <<working, parked>>

-----------------------------------------------------------------------------
(* What a person, or the recovery agent, does with a node.                 *)

Retry(n) ==
  /\ state[n] \in Stopped
  /\ MoveAndRelease(n, Pending)
  /\ UNCHANGED working

\* A verdict on the agent n had: n stays as it is, waits in pending, is left to
\* a human, or its agent resumes at once, a worker free or not.
Verdict(n) ==
  /\ n \notin parked
  /\ \/ UNCHANGED life
     \/ /\ state[n] \in Stopped \cup {Resting}
        /\ \/ MoveAndRelease(n, Pending) /\ UNCHANGED working
           \/ MoveAndRelease(n, InProgress) /\ Begin(n)
           \/ Move(n, NeedsHuman) /\ UNCHANGED working

Skip(n) ==
  /\ state[n] \notin {InProgress, Merged}
  /\ MoveAndRelease(n, Skipped)
  /\ UNCHANGED working

\* No agent outlives an abort; the nodes they worked on are left to a human,
\* and so may be those whose agent has just ended.
Abort ==
  /\ \E killed \in SUBSET InState(InProgress) :
       /\ working \subseteq killed
       /\ state' = [n \in Node |-> IF n \in killed THEN NeedsHuman ELSE state[n]]
  /\ working' = {}
  /\ UNCHANGED parked

\* Nobody waits for nothing: whatever happens, a node that was stopped for
\* another's sake has a stopped dependency for as long as it is parked.
NobodyIsForgotten == \A n \in parked : state[n] = NeedsHuman /\ Behind(n)

\* What happens to nodes without the recovery agent and without a retry.
Course ==
  \/ GiveUp
  \/ Abort
  \/ \E n \in Node :
       \/ Start(n) \/ FailToStart(n) \/ Park(n) \/ AgentEnds(n) \/ Settle(n)
       \/ Wake(n) \/ EndReview(n) \/ Skip(n)

Step ==
  \/ Course /\ UNCHANGED judged
  \/ \E n \in Node : Retry(n) /\ judged' = judged \ {n}
  \/ \E n \in Node : Verdict(n) /\ judged' = judged \cup {n}

Next == Step /\ NobodyIsForgotten'

Spec == Init /\ [][Next]_vars

=============================================================================
