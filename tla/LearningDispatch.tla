-------------------------- MODULE LearningDispatch --------------------------
(***************************************************************************)
(* The learning half of a pass's end: the learning agent, started with a   *)
(* batch of nodes whose pull requests have settled, and the extraction     *)
(* lock, a file that names the process at it and the batch.  Writing the   *)
(* file truncates it first.                                                *)
(***************************************************************************)
EXTENDS PassNodes, Integers, FiniteSets

CONSTANTS
  MaxLearners   \* bound: learning agents at once

ASSUME LearningDispatchAssumption == MaxLearners \in Nat

VARIABLES
  settled,    \* nodes with a pull_request_settled_at
  extracted,  \* nodes with a learnings_extracted_at
  lock,       \* the lock file: what it names, and the nodes of the session
  learner,    \* per learning agent: its process
  learning,   \* what the learning half of the pass does; "idle" between passes
  due,        \* nodes it has found due
  starting,   \* the agent just started, 0 if there is none
  handed,     \* history: nodes handed to a learning agent once, and those handed again
  unmarked,   \* history: nodes handed over by a pass that did not mark them
  unnamed     \* history: learning agents at work that the lock never named

learningVars == <<settled, extracted, lock, learner, learning, due, starting, handed, unmarked,
                  unnamed>>

Learner == 1 .. MaxLearners

\* The file is absent, empty (as it is between two writes), or names the pass
\* that took it (0) or the learning agent that has it.
Absent == [holds |-> "nothing", agent |-> 0, nodes |-> {}]
Empty == [Absent EXCEPT !.holds = "no pid"]
Taken == [Absent EXCEPT !.holds = "pass"]
HeldBy(a, nodes) == [holds |-> "session", agent |-> a, nodes |-> nodes]

LearningTypeOK ==
  /\ settled \in SUBSET Node
  /\ extracted \in SUBSET settled
  /\ \/ lock \in {Absent, Empty, Taken}
     \/ \E a \in Learner, b \in SUBSET settled : lock = HeldBy(a, b)
  /\ learner \in [Learner -> {"none", "up", "late"}]
  /\ learning \in {"idle", "check", "touch", "write", "launch", "truncate", "name", "mark", "done"}
  /\ due \in SUBSET settled
  /\ starting \in 0 .. MaxLearners
  /\ handed \in [Node -> {"never", "once", "again"}]
  /\ unmarked \in SUBSET Node
  /\ unnamed \in SUBSET Learner

LearningInit ==
  /\ settled = {}
  /\ extracted = {}
  /\ lock = Absent
  /\ learner = [a \in Learner |-> "none"]
  /\ learning = "idle"
  /\ due = {}
  /\ starting = 0
  /\ handed = [n \in Node |-> "never"]
  /\ unmarked = {}
  /\ unnamed = {}

-----------------------------------------------------------------------------
Learning == {a \in Learner : learner[a] # "none"}

\* IsHeld as long as the lock names an agent (a mutated form).
HeldWhileNamed == lock.holds = "session"

\* The process the lock names is running.  A pass that took the lock is gone
\* when the next one looks.
IsHeld == lock.holds = "session" /\ lock.agent \in Learning

Checking ==
  /\ learning = "check"
  /\ UNCHANGED <<settled, extracted, starting, handed, unmarked>>

\* The file has no process id: nothing is started until somebody deletes it.
LeaveUnreadable ==
  /\ Checking
  /\ lock = Empty
  /\ learning' = "done"
  /\ UNCHANGED <<lock, learner, due, unnamed>>

LeaveLearning ==
  /\ Checking
  /\ IsHeld
  /\ learner[lock.agent] = "up"
  /\ learning' = "done"
  /\ UNCHANGED <<lock, learner, due, unnamed>>

\* The overdue agent is killed; its nodes stay marked, its lock is removed.
KillOverdueLearning ==
  /\ Checking
  /\ IsHeld
  /\ learner[lock.agent] = "late"
  /\ learner' = [learner EXCEPT ![lock.agent] = "none"]
  /\ lock' = Absent
  /\ learning' = "done"
  /\ UNCHANGED <<due, unnamed>>

DueForExtraction == settled \ extracted

\* The lock is free.  That of an agent which has ended is removed first.
FindDue ==
  /\ Checking
  /\ lock # Empty
  /\ ~IsHeld
  /\ lock' = IF lock.nodes = {} THEN lock ELSE Absent
  /\ due' = DueForExtraction
  /\ learning' = IF DueForExtraction = {} THEN "done" ELSE "touch"
  /\ UNCHANGED <<learner, unnamed>>

Stepping(from, to) ==
  /\ learning = from
  /\ learning' = to
  /\ UNCHANGED settled

Touch ==
  /\ Stepping("touch", "write")
  /\ lock' = Empty
  /\ UNCHANGED <<extracted, learner, due, starting, handed, unmarked, unnamed>>

WriteOwnPid ==
  /\ Stepping("write", "launch")
  /\ lock' = Taken
  /\ UNCHANGED <<extracted, learner, due, starting, handed, unmarked, unnamed>>

LaunchLearning ==
  /\ Stepping("launch", "truncate")
  /\ \E a \in Learner \ Learning :
       /\ \A b \in Learner \ Learning : a <= b
       /\ learner' = [learner EXCEPT ![a] = "up"]
       /\ starting' = a
  /\ handed' = [n \in Node |-> IF n \notin due THEN handed[n]
                               ELSE IF handed[n] = "never" THEN "once" ELSE "again"]
  /\ UNCHANGED <<extracted, lock, due, unmarked, unnamed>>

Truncate ==
  /\ Stepping("truncate", "name")
  /\ lock' = Empty
  /\ UNCHANGED <<extracted, learner, due, starting, handed, unmarked, unnamed>>

NameSession ==
  /\ Stepping("name", "mark")
  /\ lock' = HeldBy(starting, due)
  /\ starting' = 0
  /\ UNCHANGED <<extracted, learner, due, handed, unmarked, unnamed>>

MarkExtracted ==
  /\ Stepping("mark", "done")
  /\ extracted' = extracted \cup due
  /\ due' = {}
  /\ UNCHANGED <<lock, learner, starting, handed, unmarked, unnamed>>

BeginLearning ==
  /\ learning' = "check"
  /\ UNCHANGED <<settled, extracted, lock, learner, due, starting, handed, unmarked, unnamed>>

\* The pass is over, wherever this half of it is.
CutLearning ==
  /\ learning' = "idle"
  /\ due' = {}
  /\ starting' = 0
  /\ unmarked' = IF learning \in {"truncate", "name", "mark"} THEN unmarked \cup due ELSE unmarked
  /\ unnamed' = unnamed \cup ({starting} \cap Learning)
  /\ UNCHANGED <<settled, extracted, learner, handed>>

\* A task that is cancelled still finishes the creation of the lock; one that
\* dies does not.
CancelLearning == CutLearning /\ lock' = IF learning = "write" THEN Taken ELSE lock

KillLearning == CutLearning /\ UNCHANGED lock

LearningStep ==
  \/ LeaveUnreadable \/ LeaveLearning \/ KillOverdueLearning \/ FindDue
  \/ Touch \/ WriteOwnPid \/ LaunchLearning \/ Truncate \/ NameSession \/ MarkExtracted

-----------------------------------------------------------------------------
(* Pull requests, learning agents, the clock and the operator.             *)

\* A sweep of a pass has seen the pull request merged or closed.
Settles(n) ==
  /\ learning = "idle"
  /\ settled' = settled \cup {n}
  /\ UNCHANGED <<extracted, lock, learner, learning, due, starting, handed, unmarked, unnamed>>

LearnerChanges(a, s) ==
  /\ learner' = [learner EXCEPT ![a] = s]
  /\ unnamed' = IF s = "none" THEN unnamed \ {a} ELSE unnamed
  /\ UNCHANGED <<settled, extracted, lock, learning, due, starting, handed, unmarked>>

LearnerEnds(a) == a \in Learning /\ LearnerChanges(a, "none")

\* The lock that names the agent grows too old.
LearningTimesOut(a) ==
  /\ lock = HeldBy(a, lock.nodes)
  /\ learner[a] = "up"
  /\ LearnerChanges(a, "late")

\* AbortLearning forgetting the learning agent (a mutated form).
AbortNoLearning == UNCHANGED learningVars

\* Abort kills the agent the lock names and leaves the lock.
AbortLearning ==
  /\ learner' = [a \in Learner |-> IF lock = HeldBy(a, lock.nodes) THEN "none" ELSE learner[a]]
  /\ unnamed' = {a \in unnamed : learner'[a] # "none"}
  /\ UNCHANGED <<settled, extracted, lock, learning, due, starting, handed, unmarked>>

DeleteLock ==
  /\ learning = "idle"
  /\ lock = Empty
  /\ lock' = Absent
  /\ UNCHANGED <<settled, extracted, learner, learning, due, starting, handed, unmarked, unnamed>>

LearningWorld == \E a \in Learner : LearnerEnds(a) \/ LearningTimesOut(a)

=============================================================================
