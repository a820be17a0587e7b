---------------------------- MODULE DispatchProofs ----------------------------
(***************************************************************************)
(* Proofs that no work is given out twice: one recovery agent and one      *)
(* learning agent at a time, batches that are due, learnings taken once.   *)
(* Each half of the dispatch keeps an invariant of its own, and a step of  *)
(* the whole is a step of both halves (which may be a stutter of one).     *)
(***************************************************************************)
EXTENDS Dispatch, FiniteSetTheorems, TLAPS

\* The open rows name one agent at most, the one at work, and none while a pass
\* is between the start of an agent and its row.
AgentsInv ==
  /\ recovery = "add" => launched # 0 /\ open = {}
  /\ recovery # "add" => launched = 0
  /\ \A a, b \in open : a = b
  /\ AtWork \ strays \subseteq open \cup {launched}

\* What the scan picked is handed over or dropped before a command, a verdict or
\* the clock changes the nodes.
PickedInv ==
  /\ recovery # "dispatch" => picked = {}
  /\ \A n \in picked : IsRecoverable(n)

RecoveryInv == RecoveryTypeOK /\ AgentsInv /\ PickedInv

\* Where a pass has started a learning agent that the lock does not name yet.
Unnamed == {"truncate", "name"}

\* A pass that takes the lock has found nobody at work that the lock could name.
NamedInv ==
  /\ learning \in Unnamed => starting # 0
  /\ learning \notin Unnamed => starting = 0
  /\ learning \in {"touch", "write", "launch"} => Learning \subseteq unnamed
  /\ learning \in Unnamed => Learning \ unnamed \subseteq {starting}
  /\ \A a \in Learning \ unnamed : starting = a \/ (lock.holds = "session" /\ lock.agent = a)

\* What was handed over is marked, or about to be, or known to be unmarked.
HandedInv ==
  /\ due \cap extracted = {}
  /\ \A n \in Node : handed[n] # "never" =>
       n \in extracted \cup unmarked \/ (n \in due /\ learning \in Unnamed \cup {"mark"})
  /\ HandedOnce

LearningInv == LearningTypeOK /\ NamedInv /\ HandedInv

DispatchInv == TypeOK /\ RecoveryInv /\ LearningInv

-----------------------------------------------------------------------------
(* The recovery half.                                                      *)

\* What a step of the whole is for the recovery half.
RecoveryMove ==
  \/ RecoveryStep
  \/ RecoveryWorld
  \/ \E n \in Node : PullRequestEnds(n)
  \/ recovery = "idle" /\ (BeginRecovery \/ AbortRecovery \/ \E n \in Node : RetryFailed(n))
  \/ CutRecovery
  \/ UNCHANGED recoveryVars

\* Every step of the recovery half leaves its rows and its agents well typed.
LEMMA RecoveryTypesKept ==
  ASSUME RecoveryInv, RecoveryMove
  PROVE  RecoveryTypeOK'
<1>0. RecoveryTypeOK /\ MaxAgents \in Nat /\ Allowance \in Nat
  BY RecoveryDispatchAssumption DEF RecoveryInv
<1> USE <1>0 DEF RecoveryTypeOK, nodeVars, agentVars, passVars, RecoveryAgent, Failed
<1>1. CASE Scan
  BY <1>1 DEF Scan
<1>2. CASE Launch
  <2>1. PICK a \in RecoveryAgent \ AtWork :
          /\ process' = [process EXCEPT ![a] = "up"]
          /\ batch' = [batch EXCEPT ![a] = picked]
          /\ launched' = a
    BY <1>2 DEF Launch
  <2> QED BY <1>2, <2>1 DEF Launch
<1>3. CASE AddRow \/ NothingToExamine
  <2>1. CASE AddRow
    BY <2>1 DEF RecoveryInv, AgentsInv, AddRow
  <2>2. CASE NothingToExamine
    BY <2>2 DEF NothingToExamine, Dispatching
  <2> QED BY <1>3, <2>1, <2>2
<1>4. CASE \E a \in RecoveryAgent : CloseEnded(a) \/ KillOverdue(a) \/ LeaveAtWork(a)
  <2> PICK a \in RecoveryAgent : CloseEnded(a) \/ KillOverdue(a) \/ LeaveAtWork(a)
    BY <1>4
  <2>1. CASE CloseEnded(a)
    BY <2>1 DEF CloseEnded, Dispatching, Close
  <2>2. CASE KillOverdue(a)
    BY <2>2 DEF KillOverdue, Dispatching, Close
  <2>3. CASE LeaveAtWork(a)
    BY <2>3 DEF LeaveAtWork, Dispatching
  <2> QED BY <2>1, <2>2, <2>3
<1>5. CASE \E n \in Node : Fails(n) \/ RecoverAtPasses(n) \/ DelayPasses(n)
  <2> PICK n \in Node : Fails(n) \/ RecoverAtPasses(n) \/ DelayPasses(n)
    BY <1>5
  <2>1. CASE Fails(n)
    BY <2>1 DEF Fails
  <2>2. CASE RecoverAtPasses(n) \/ DelayPasses(n)
    BY <2>2 DEF RecoverAtPasses, DelayPasses
  <2> QED BY <2>1, <2>2
<1>6. CASE \E a \in RecoveryAgent : RecoveryAgentEnds(a) \/ RecoveryTimesOut(a)
  BY <1>6 DEF RecoveryAgentEnds, RecoveryTimesOut
<1>7. CASE \E a \in RecoveryAgent, n \in Node : Verdict(a, n)
  <2> PICK a \in RecoveryAgent, n \in Node : Verdict(a, n)
    BY <1>7
  <2>1. attempts' \in [Node -> 0 .. Allowance]
    BY DEF Verdict
  <2>2. health' \in [Node -> Failed \cup {"well", "merged"}]
    <3>1. CASE Renew(n)
      BY <3>1 DEF Renew
    <3>2. CASE \E v \in {"due", "later", "never"} :
                 health' = [health EXCEPT ![n] = IF v = "never" THEN "needs_human" ELSE @]
      BY <3>2
    <3> QED BY <3>1, <3>2 DEF Verdict
  <2>4. verdict' \in [Node -> {"due", "later", "never"}]
    <3>1. CASE Renew(n)
      BY <3>1 DEF Renew
    <3>2. CASE \E v \in {"due", "later", "never"} : verdict' = [verdict EXCEPT ![n] = v]
      BY <3>2
    <3> QED BY <3>1, <3>2 DEF Verdict
  <2>3. held' \in SUBSET Node /\ dealt' \in SUBSET Node
    BY DEF Verdict, Renew, Deal
  <2> QED BY <2>1, <2>2, <2>3, <2>4 DEF Verdict
<1>8. CASE BeginRecovery \/ CutRecovery \/ UNCHANGED recoveryVars
  <2>1. CASE BeginRecovery
    BY <2>1 DEF BeginRecovery
  <2>2. CASE CutRecovery
    <3>1. batch' \in [RecoveryAgent -> SUBSET Node]
      BY <2>2 DEF CutRecovery
    <3>2. UNCHANGED <<health, attempts, verdict, held, dealt, open, process>>
      BY <2>2 DEF CutRecovery
    <3>3. recovery' = "idle" /\ picked' = {} /\ launched' = 0 /\ strays' \subseteq RecoveryAgent
      BY <2>2 DEF CutRecovery, AtWork
    <3> QED BY <3>1, <3>2, <3>3
  <2>3. CASE UNCHANGED recoveryVars
    BY <2>3 DEF recoveryVars
  <2> QED BY <1>8, <2>1, <2>2, <2>3
<1>9. CASE AbortRecovery
  <2>1. UNION {batch[a] : a \in open} \subseteq Node
    OBVIOUS
  <2>2. batch' \in [RecoveryAgent -> SUBSET Node] /\ process' \in [RecoveryAgent -> {"none", "up", "late"}]
    BY <1>9 DEF AbortRecovery
  <2> QED BY <1>9, <2>1, <2>2 DEF AbortRecovery
<1>10. CASE \E n \in Node : RetryFailed(n)
  BY <1>10 DEF RetryFailed, Renew, Deal
<1>11. CASE \E n \in Node : PullRequestEnds(n)
  BY <1>11 DEF PullRequestEnds
<1> QED
  BY <1>1, <1>2, <1>3, <1>4, <1>5, <1>6, <1>7, <1>8, <1>9, <1>10, <1>11
     DEF RecoveryMove, RecoveryStep, RecoveryWorld

\* No step of RecoveryDispatchService drops what the scan picked but by handing
\* it over, and nodes change their health only while nothing is picked.
LEMMA PickedKept ==
  ASSUME RecoveryInv, RecoveryMove
  PROVE  PickedInv'
<1>0. /\ PickedInv /\ health \in [Node -> Failed \cup {"well", "merged"}] /\ picked \subseteq Node
      /\ recovery \in {"idle", "scan", "dispatch", "add", "done"}
  BY DEF RecoveryInv, RecoveryTypeOK
<1> USE <1>0 DEF PickedInv, nodeVars, agentVars, passVars
<1>1. CASE Scan
  <2>1. /\ picked' \subseteq {n \in Node : IsRecoverable(n)} /\ recovery' = "dispatch"
        /\ UNCHANGED <<attempts, verdict, held>>
    BY <1>1 DEF Scan
  <2>2. \A n \in Node : CanAttempt(n) => health'[n] = health[n]
    BY <1>1 DEF Scan
  <2> QED BY <2>1, <2>2 DEF IsRecoverable, HasFailed, CanAttempt, IsDue
<1>2. CASE picked' = {}
  BY <1>2
<1>3. CASE recovery = "idle" /\ UNCHANGED picked
  BY <1>3
<1>4. CASE UNCHANGED <<recovery, picked, health, attempts, verdict, held>>
  BY <1>4 DEF IsRecoverable, HasFailed, CanAttempt, IsDue
<1>5. CASE AddRow
  BY <1>5 DEF AddRow
<1> QED
  BY <1>1, <1>2, <1>3, <1>4, <1>5
     DEF RecoveryMove, RecoveryStep, RecoveryWorld, Launch, NothingToExamine, CloseEnded, KillOverdue,
         LeaveAtWork, Dispatching, Fails, PullRequestEnds, RecoverAtPasses, DelayPasses, RecoveryAgentEnds, RecoveryTimesOut,
         Verdict, BeginRecovery, AbortRecovery, RetryFailed, CutRecovery, recoveryVars

\* An agent is started only when no open row names one, and its row is the next
\* thing written (RecoveryDispatchService.dispatch); a death in between leaves
\* a stray.
LEMMA AgentsKept ==
  ASSUME RecoveryInv, RecoveryMove
  PROVE  AgentsInv'
<1>0. /\ AgentsInv /\ process \in [RecoveryAgent -> {"none", "up", "late"}]
      /\ open \subseteq RecoveryAgent
      /\ recovery \in {"idle", "scan", "dispatch", "add", "done"}
      /\ 0 \notin RecoveryAgent
  BY DEF RecoveryInv, RecoveryTypeOK, RecoveryAgent
<1> USE <1>0 DEF AgentsInv, AtWork, nodeVars, agentVars, passVars
<1>1. CASE Scan \/ NothingToExamine
  BY <1>1 DEF Scan, NothingToExamine, Dispatching
<1>2. CASE Launch
  <2>1. PICK a \in RecoveryAgent \ AtWork : process' = [process EXCEPT ![a] = "up"] /\ launched' = a
    BY <1>2 DEF Launch
  <2> QED BY <1>2, <2>1 DEF Launch, MayLaunch
<1>3. CASE AddRow
  BY <1>3 DEF AddRow
<1>4. CASE \E a \in RecoveryAgent : CloseEnded(a) \/ KillOverdue(a) \/ LeaveAtWork(a)
  <2> PICK a \in RecoveryAgent : CloseEnded(a) \/ KillOverdue(a) \/ LeaveAtWork(a)
    BY <1>4
  <2>1. CASE CloseEnded(a)
    BY <2>1 DEF CloseEnded, Dispatching, Close
  <2>2. CASE KillOverdue(a)
    BY <2>2 DEF KillOverdue, Dispatching, Close
  <2>3. CASE LeaveAtWork(a)
    BY <2>3 DEF LeaveAtWork, Dispatching
  <2> QED BY <2>1, <2>2, <2>3
<1>5. CASE \E n \in Node : Fails(n) \/ PullRequestEnds(n) \/ RecoverAtPasses(n) \/ DelayPasses(n) \/ RetryFailed(n)
  BY <1>5 DEF Fails, PullRequestEnds, RecoverAtPasses, DelayPasses, RetryFailed
<1>6. CASE \E a \in RecoveryAgent : RecoveryAgentEnds(a) \/ RecoveryTimesOut(a)
  BY <1>6 DEF RecoveryAgentEnds, RecoveryTimesOut
<1>7. CASE \E a \in RecoveryAgent, n \in Node : Verdict(a, n)
  BY <1>7 DEF Verdict
<1>8. CASE recovery = "idle" /\ BeginRecovery
  BY <1>8 DEF BeginRecovery
<1>9. CASE CutRecovery
  BY <1>9 DEF CutRecovery
<1>10. CASE recovery = "idle" /\ AbortRecovery
  BY <1>10 DEF AbortRecovery
<1>11. CASE UNCHANGED recoveryVars
  BY <1>11 DEF recoveryVars
<1> QED
  BY <1>1, <1>2, <1>3, <1>4, <1>5, <1>6, <1>7, <1>8, <1>9, <1>10, <1>11
     DEF RecoveryMove, RecoveryStep, RecoveryWorld

-----------------------------------------------------------------------------
(* The learning half.                                                      *)

\* What a step of the whole is for the learning half.
LearningMove ==
  \/ LearningStep
  \/ LearningWorld
  \/ \E n \in Node : Settles(n)
  \/ learning = "idle" /\ (BeginLearning \/ AbortLearning \/ DeleteLock)
  \/ CancelLearning
  \/ KillLearning
  \/ UNCHANGED learningVars

\* The lock is one of its forms, whoever has it.
LockOK(l, nodes) ==
  l \in {Absent, Empty, Taken} \/ \E a \in Learner, b \in SUBSET nodes : l = HeldBy(a, b)

\* Whatever writes the extraction lock leaves it absent, empty, taken, or
\* naming an agent and its batch (ExtractionLock).
LEMMA LocksKept ==
  ASSUME LearningInv, LearningMove
  PROVE  LockOK(lock', settled')
<1>0. /\ LockOK(lock, settled) /\ settled \subseteq settled' /\ due \subseteq settled
      /\ learning = "name" => starting \in Learner
  <2>1. settled \subseteq settled'
    BY DEF LearningMove, LearningStep, LeaveUnreadable, LeaveLearning, KillOverdueLearning, FindDue, Checking,
           Touch, WriteOwnPid, LaunchLearning, Truncate, NameSession, MarkExtracted, Stepping,
           LearningWorld, Settles, LearnerEnds, LearningTimesOut, LearnerChanges, BeginLearning,
           AbortLearning, DeleteLock, CancelLearning, KillLearning, CutLearning, learningVars
  <2> QED
    BY <2>1, LearningDispatchAssumption DEF LearningInv, LearningTypeOK, NamedInv, LockOK, Learner, Unnamed
<1>1. CASE UNCHANGED lock
  BY <1>0, <1>1 DEF LockOK
<1>2. CASE lock' \in {Absent, Empty, Taken}
  BY <1>2 DEF LockOK
<1>3. CASE NameSession
  BY <1>0, <1>3 DEF NameSession, Stepping, LockOK
<1> QED
  BY <1>1, <1>2, <1>3
     DEF LearningMove, LearningStep, LeaveUnreadable, LeaveLearning, KillOverdueLearning, FindDue,
         Touch, WriteOwnPid, LaunchLearning, Truncate, MarkExtracted,
         LearningWorld, Settles, LearnerEnds, LearningTimesOut, LearnerChanges, BeginLearning,
         AbortLearning, DeleteLock, CancelLearning, KillLearning, learningVars

\* Every step of the learning half leaves its nodes, agents and lock well
\* typed.
LEMMA LearningTypesKept ==
  ASSUME LearningInv, LearningMove
  PROVE  LearningTypeOK'
<1>0. LearningTypeOK /\ MaxLearners \in Nat /\ LockOK(lock', settled')
  BY LearningDispatchAssumption, LocksKept DEF LearningInv
<1> SUFFICES /\ settled' \in SUBSET Node /\ extracted' \in SUBSET settled'
             /\ learner' \in [Learner -> {"none", "up", "late"}]
             /\ learning' \in {"idle", "check", "touch", "write", "launch", "truncate", "name", "mark", "done"}
             /\ due' \in SUBSET settled' /\ starting' \in 0 .. MaxLearners
             /\ handed' \in [Node -> {"never", "once", "again"}]
             /\ unmarked' \in SUBSET Node /\ unnamed' \in SUBSET Learner
  BY <1>0 DEF LearningTypeOK, LockOK
<1> USE <1>0 DEF LearningTypeOK, Learner, Learning
<1>1. CASE LeaveUnreadable \/ LeaveLearning \/ KillOverdueLearning
  <2>1. CASE LeaveUnreadable \/ LeaveLearning
    BY <2>1 DEF LeaveUnreadable, LeaveLearning, Checking
  <2>2. CASE KillOverdueLearning
    BY <2>2 DEF KillOverdueLearning, Checking
  <2> QED BY <1>1, <2>1, <2>2
<1>2. CASE FindDue
  BY <1>2 DEF FindDue, Checking, DueForExtraction
<1>3. CASE Touch \/ WriteOwnPid \/ Truncate \/ NameSession \/ MarkExtracted
  <2>1. CASE Touch \/ WriteOwnPid \/ Truncate
    BY <2>1 DEF Touch, WriteOwnPid, Truncate, Stepping
  <2>2. CASE NameSession
    BY <2>2 DEF NameSession, Stepping
  <2>3. CASE MarkExtracted
    BY <2>3 DEF MarkExtracted, Stepping
  <2> QED BY <1>3, <2>1, <2>2, <2>3
<1>4. CASE LaunchLearning
  <2>1. PICK a \in Learner \ Learning : learner' = [learner EXCEPT ![a] = "up"] /\ starting' = a
    BY <1>4 DEF LaunchLearning
  <2>2. handed' \in [Node -> {"never", "once", "again"}]
    BY <1>4 DEF LaunchLearning
  <2> QED BY <1>4, <2>1, <2>2 DEF LaunchLearning, Stepping
<1>5. CASE \E n \in Node : Settles(n)
  BY <1>5 DEF Settles
<1>6. CASE \E a \in Learner : LearnerEnds(a) \/ LearningTimesOut(a)
  <2> PICK a \in Learner : LearnerEnds(a) \/ LearningTimesOut(a)
    BY <1>6
  <2>1. CASE LearnerEnds(a)
    BY <2>1 DEF LearnerEnds, LearnerChanges
  <2>2. CASE LearningTimesOut(a)
    BY <2>2 DEF LearningTimesOut, LearnerChanges
  <2> QED BY <2>1, <2>2
<1>7. CASE BeginLearning \/ DeleteLock \/ UNCHANGED learningVars
  BY <1>7 DEF BeginLearning, DeleteLock, learningVars
<1>8. CASE AbortLearning
  BY <1>8 DEF AbortLearning
<1>9. CASE CancelLearning \/ KillLearning
  <2>1. CutLearning
    BY <1>9 DEF CancelLearning, KillLearning
  <2>2. unmarked' \in SUBSET Node /\ unnamed' \in SUBSET Learner
    BY <2>1 DEF CutLearning
  <2> QED BY <2>1, <2>2 DEF CutLearning
<1> QED
  BY <1>1, <1>2, <1>3, <1>4, <1>5, <1>6, <1>7, <1>8, <1>9 DEF LearningMove, LearningStep, LearningWorld

\* A lock that names no agent is told from one that does.
LEMMA LockKinds ==
  /\ \A l \in {Absent, Empty, Taken} : l.holds # "session"
  /\ \A a, b : HeldBy(a, b).holds = "session" /\ HeldBy(a, b).agent = a
BY DEF Absent, Empty, Taken, HeldBy

\* A lock that is free was found so with no agent behind it, and the agent a
\* pass starts is named by the lock or counted as unnamed when the pass is cut
\* (LearningDispatchService).
LEMMA NamesKept ==
  ASSUME LearningInv, LearningMove
  PROVE  NamedInv'
<1>0. /\ NamedInv /\ learner \in [Learner -> {"none", "up", "late"}] /\ 0 \notin Learner
      /\ learning \in {"idle", "check", "touch", "write", "launch", "truncate", "name", "mark", "done"}
      /\ lock \in {Absent, Empty, Taken} \/ \E a \in Learner, b \in SUBSET settled : lock = HeldBy(a, b)
      /\ unnamed \subseteq Learner
  BY DEF LearningInv, LearningTypeOK, Learner
<1> USE <1>0, LockKinds DEF NamedInv, Learning, Unnamed
<1>1. CASE LeaveUnreadable \/ LeaveLearning
  BY <1>1 DEF LeaveUnreadable, LeaveLearning, Checking
<1>2. CASE KillOverdueLearning
  <2>1. learner' = [learner EXCEPT ![lock.agent] = "none"] /\ UNCHANGED <<unnamed, starting>>
        /\ learning = "check" /\ learning' = "done"
    BY <1>2 DEF KillOverdueLearning, Checking
  <2>2. \A a \in Learner \ unnamed : learner'[a] = "none"
    BY <2>1
  <2> QED BY <2>1, <2>2
<1>3. CASE FindDue
  <2>1. UNCHANGED <<learner, unnamed, starting>> /\ learning = "check" /\ learning' \in {"touch", "done"}
    BY <1>3 DEF FindDue, Checking
  <2>2. Learning \subseteq unnamed
    BY <1>3, <2>1 DEF FindDue, IsHeld
  <2> QED BY <2>1, <2>2
<1>4. CASE Touch \/ WriteOwnPid \/ Truncate
  BY <1>4 DEF Touch, WriteOwnPid, Truncate, Stepping
<1>5. CASE NameSession \/ MarkExtracted
  <2>1. CASE NameSession
    BY <2>1 DEF NameSession, Stepping
  <2>2. CASE MarkExtracted
    BY <2>2 DEF MarkExtracted, Stepping
  <2> QED BY <1>5, <2>1, <2>2
<1>6. CASE LaunchLearning
  <2>1. PICK a \in Learner \ Learning : learner' = [learner EXCEPT ![a] = "up"] /\ starting' = a
    BY <1>6 DEF LaunchLearning
  <2> QED BY <1>6, <2>1 DEF LaunchLearning, Stepping
<1>7. CASE \E n \in Node : Settles(n)
  BY <1>7 DEF Settles
<1>8. CASE \E a \in Learner : LearnerEnds(a) \/ LearningTimesOut(a)
  <2> PICK a \in Learner : LearnerEnds(a) \/ LearningTimesOut(a)
    BY <1>8
  <2>1. UNCHANGED <<starting, lock, learning>>
    BY DEF LearnerEnds, LearningTimesOut, LearnerChanges
  <2>2. Learning' \ unnamed' \subseteq Learning \ unnamed
    BY DEF LearnerEnds, LearningTimesOut, LearnerChanges
  <2> QED BY <2>1, <2>2
<1>9. CASE learning = "idle" /\ (BeginLearning \/ DeleteLock)
  BY <1>9 DEF BeginLearning, DeleteLock
<1>10. CASE learning = "idle" /\ AbortLearning
  BY <1>10 DEF AbortLearning
<1>11. CASE CancelLearning \/ KillLearning
  <2>1. /\ learning' = "idle" /\ starting' = 0 /\ unnamed' = unnamed \cup ({starting} \cap Learning)
        /\ UNCHANGED learner
    BY <1>11 DEF CancelLearning, KillLearning, CutLearning
  <2>2. UNCHANGED lock \/ learning = "write"
    BY <1>11 DEF CancelLearning, KillLearning
  <2> QED BY <2>1, <2>2
<1>12. CASE UNCHANGED learningVars
  BY <1>12 DEF learningVars
<1> QED
  BY <1>1, <1>2, <1>3, <1>4, <1>5, <1>6, <1>7, <1>8, <1>9, <1>10, <1>11, <1>12
     DEF LearningMove, LearningStep, LearningWorld

\* What is handed to an agent is marked as extracted afterwards, or the pass
\* was cut and the node is counted as unmarked.
LEMMA HandingKept ==
  ASSUME LearningInv, LearningMove
  PROVE  HandedInv'
<1>0. /\ HandedInv /\ handed \in [Node -> {"never", "once", "again"}]
      /\ settled \subseteq Node /\ due \subseteq settled
      /\ learning \in {"idle", "check", "touch", "write", "launch", "truncate", "name", "mark", "done"}
  BY DEF LearningInv, LearningTypeOK
<1> USE <1>0 DEF HandedInv, HandedOnce, Unnamed
<1>1. CASE LeaveUnreadable \/ LeaveLearning \/ KillOverdueLearning
  BY <1>1 DEF LeaveUnreadable, LeaveLearning, KillOverdueLearning, Checking
<1>2. CASE FindDue
  BY <1>2 DEF FindDue, Checking, DueForExtraction
<1>3. CASE Touch \/ WriteOwnPid \/ Truncate \/ NameSession
  BY <1>3 DEF Touch, WriteOwnPid, Truncate, NameSession, Stepping
<1>4. CASE LaunchLearning
  BY <1>4 DEF LaunchLearning, Stepping
<1>5. CASE MarkExtracted
  BY <1>5 DEF MarkExtracted, Stepping
<1>6. CASE UNCHANGED <<extracted, due, handed, unmarked>> /\ learning \in {"idle"} \cup {learning'}
  BY <1>6
<1>7. CASE CancelLearning \/ KillLearning
  <2>1. CutLearning
    BY <1>7 DEF CancelLearning, KillLearning
  <2> QED BY <2>1 DEF CutLearning
<1> QED
  BY <1>1, <1>2, <1>3, <1>4, <1>5, <1>6, <1>7
     DEF LearningMove, LearningStep, LearningWorld, Settles, LearnerEnds, LearningTimesOut, LearnerChanges,
         BeginLearning, AbortLearning, DeleteLock, learningVars

-----------------------------------------------------------------------------
(* The whole.                                                              *)

\* The host job is registered by retry, recover and a pass that leaves the run
\* active, and is not afterwards, or is as before (StartCommandHandler, AbortCommandHandler).
LEMMA JobIsThereOrNot ==
  ASSUME others \in BOOLEAN, job \in BOOLEAN, [Next]_vars
  PROVE  others' \in BOOLEAN /\ job' \in BOOLEAN
<1>1. UNCHANGED others
  BY DEF Next, BeginEnd, PassStep, EndPass, RecoveryLaunchFails, LearningLaunchFails, PassDies, Abort, Retry,
         World, Accident, Command, rest, vars
<1>2. \/ job' = job \/ job' = TRUE \/ job' = FALSE \/ job' = ~RunEnded
      \/ job' = (job \/ \E n \in Node : HasFailed(n) /\ health'[n] = "well")
  BY DEF Next, BeginEnd, PassStep, EndPass, RecoveryLaunchFails, LearningLaunchFails, PassDies, Abort, Retry,
         World, vars
<1> QED BY <1>1, <1>2, Zenon DEF RunEnded

\* A step of the dispatch moves both halves, and both are idle together.
LEMMA StepsMoveBothHalves ==
  ASSUME TypeOK, [Next]_vars
  PROVE  /\ RecoveryMove /\ LearningMove
         /\ (recovery' = "idle") = (learning' = "idle")
         /\ commands' \in 0 .. MaxCommands /\ accidents' \in 0 .. MaxAccidents
<1>0. /\ (recovery = "idle") = (learning = "idle")
      /\ commands \in 0 .. MaxCommands /\ accidents \in 0 .. MaxAccidents
      /\ MaxCommands \in Nat /\ MaxAccidents \in Nat
  BY DispatchAssumption DEF TypeOK
<1> USE <1>0 DEF RecoveryMove, LearningMove, rest
<1>1. CASE BeginEnd
  BY <1>1 DEF BeginEnd, Idle, BeginRecovery, BeginLearning
<1>2. CASE EndPass \/ RecoveryLaunchFails \/ LearningLaunchFails \/ PassDies
  <2>1. CutRecovery /\ (CancelLearning \/ KillLearning)
    BY <1>2 DEF EndPass, RecoveryLaunchFails, LearningLaunchFails, PassDies
  <2>2. recovery' = "idle" /\ learning' = "idle"
    BY <2>1 DEF CutRecovery, CancelLearning, KillLearning, CutLearning
  <2>3. UNCHANGED <<others, commands>> /\ accidents' \in 0 .. MaxAccidents
    BY <1>2 DEF EndPass, RecoveryLaunchFails, LearningLaunchFails, PassDies, Accident
  <2> QED BY <2>1, <2>2, <2>3
<1>3. CASE RecoveryStep /\ UNCHANGED <<learningVars, job, rest>>
  <2>1. recovery # "idle" /\ recovery' # "idle"
    BY <1>3 DEF RecoveryStep, Scan, NothingToExamine, Launch, AddRow, CloseEnded, KillOverdue,
                LeaveAtWork, Dispatching
  <2> QED BY <1>3, <2>1 DEF learningVars
<1>4. CASE LearningStep /\ UNCHANGED <<recoveryVars, job, rest>>
  <2>1. learning # "idle" /\ learning' # "idle"
    BY <1>4 DEF LearningStep, LeaveUnreadable, LeaveLearning, KillOverdueLearning, FindDue, Checking,
                Touch, WriteOwnPid, LaunchLearning, Truncate, NameSession, MarkExtracted, Stepping
  <2> QED BY <1>4, <2>1 DEF recoveryVars, passVars
<1>5. CASE Abort
  BY <1>5 DEF Abort, Command, Idle, AbortRecovery, AbortLearning, passVars
<1>6. CASE \E n \in Node : Retry(n)
  <2> PICK n \in Node : Retry(n)
    BY <1>6
  <2>1. Command /\ RetryFailed(n) /\ UNCHANGED learningVars
    BY DEF Retry
  <2>2. RecoveryMove /\ LearningMove
    BY <2>1 DEF Command, Idle
  <2>3. UNCHANGED <<recovery, learning, accidents>> /\ commands' \in 0 .. MaxCommands
    BY DEF Retry, Command, RetryFailed, passVars, learningVars
  <2> QED BY <2>2, <2>3
<1>7. CASE World
  <2>1. CASE /\ RecoveryWorld
             /\ job' = (job \/ \E n \in Node : HasFailed(n) /\ health'[n] = "well")
             /\ UNCHANGED <<learningVars, rest>>
    <3>1. UNCHANGED recovery
      BY <2>1 DEF RecoveryWorld, Fails, RecoverAtPasses, DelayPasses, RecoveryAgentEnds,
                  RecoveryTimesOut, Verdict, passVars
    <3> QED BY <2>1, <3>1 DEF learningVars
  <2>2. CASE LearningWorld /\ UNCHANGED <<recoveryVars, job, rest>>
    <3>1. UNCHANGED learning
      BY <2>2 DEF LearningWorld, Settles, LearnerEnds, LearningTimesOut, LearnerChanges
    <3> QED BY <2>2, <3>1 DEF recoveryVars, passVars
  <2>3. CASE DeleteLock /\ UNCHANGED <<recoveryVars, job, rest>>
    BY <2>3 DEF DeleteLock, recoveryVars, passVars
  <2>4. CASE \E n \in Node : PullRequestEnds(n) /\ Settles(n) /\ UNCHANGED <<job, rest>>
    BY <2>4 DEF PullRequestEnds, Settles, passVars
  <2> QED BY <1>7, <2>1, <2>2, <2>3, <2>4 DEF World
<1>8. CASE UNCHANGED vars
  BY <1>8 DEF vars, recoveryVars, passVars, learningVars
<1> QED BY <1>1, <1>2, <1>3, <1>4, <1>5, <1>6, <1>7, <1>8 DEF Next, PassStep

\* The invariant holds of a run that begins.
LEMMA DispatchStarts == Init => DispatchInv
<1> SUFFICES ASSUME Init PROVE DispatchInv
  OBVIOUS
<1> USE RecoveryDispatchAssumption, LearningDispatchAssumption, DispatchAssumption
        DEF Init, RecoveryInit, LearningInit
<1>1. RecoveryTypeOK
  BY DEF RecoveryTypeOK, RecoveryAgent, Failed
<1>2. LearningTypeOK
  BY DEF LearningTypeOK, Learner
<1>3. AgentsInv /\ PickedInv
  BY DEF AgentsInv, PickedInv, AtWork
<1>4. NamedInv /\ HandedInv
  BY DEF NamedInv, HandedInv, HandedOnce, Unnamed, Learning
<1>5. others \in BOOLEAN /\ job \in BOOLEAN
  BY Zenon
<1>6. commands \in 0 .. MaxCommands /\ accidents \in 0 .. MaxAccidents /\ recovery = "idle" /\ learning = "idle"
  OBVIOUS
<1>7. TypeOK
  BY <1>1, <1>2, <1>5, <1>6, Zenon DEF TypeOK
<1> QED BY <1>1, <1>2, <1>3, <1>4, <1>7 DEF DispatchInv, RecoveryInv, LearningInv

\* The inductive invariant: whatever the other half does meanwhile, each half of a
\* pass knows the agents at work, by a row, by the lock or by what it just started.
THEOREM DispatchInductive == Spec => []DispatchInv
<1>1. DispatchInv /\ [Next]_vars => DispatchInv'
  <2> SUFFICES ASSUME DispatchInv, [Next]_vars PROVE DispatchInv'
    OBVIOUS
  <2>1. RecoveryInv'
    BY StepsMoveBothHalves, RecoveryTypesKept, AgentsKept, PickedKept DEF DispatchInv, RecoveryInv
  <2>2. LearningInv'
    BY StepsMoveBothHalves, LearningTypesKept, NamesKept, HandingKept DEF DispatchInv, LearningInv
  <2>3. TypeOK'
    BY <2>1, <2>2, StepsMoveBothHalves, JobIsThereOrNot DEF DispatchInv, TypeOK, RecoveryInv, LearningInv
  <2> QED BY <2>1, <2>2, <2>3 DEF DispatchInv
<1> QED BY DispatchStarts, <1>1, PTL DEF Spec

-----------------------------------------------------------------------------
(* The theorems.                                                           *)

\* A set with no two members has one at most.
LEMMA AtMostOne ==
  ASSUME NEW S, \A a, b \in S : a = b
  PROVE  Cardinality(S) <= 1
<1>1. CASE S = {}
  BY <1>1, FS_EmptySet
<1>2. CASE S # {}
  <2> PICK a \in S : S = {a}
    BY <1>2
  <2> QED BY FS_Singleton
<1> QED BY <1>1, <1>2

\* A failed node and a settled pull request have one agent at a time, the one that
\* the row or the lock names, and learnings are taken once, however passes, their
\* deaths, agents and commands overlap (RecoveryDispatchService.dispatch,
\* ExtractionLock, NodeRepo.record_learnings_extracted).
THEOREM DispatchedOnceTheorem == Spec => []NothingIsDispatchedTwice
<1>1. DispatchInv => NothingIsDispatchedTwice
  <2> SUFFICES ASSUME DispatchInv PROVE NothingIsDispatchedTwice
    OBVIOUS
  <2>1. OneRecoveryAgent
    <3>1. AtWork \ strays \subseteq open \cup {launched} /\ 0 \notin AtWork
      BY DEF DispatchInv, RecoveryInv, AgentsInv, AtWork, RecoveryAgent
    <3>2. \A a, b \in AtWork \ strays : a = b
      BY <3>1 DEF DispatchInv, RecoveryInv, AgentsInv
    <3> QED BY <3>1, <3>2, AtMostOne DEF OneRecoveryAgent
  <2>2. OneLearningAgent
    <3>1. \A a \in Learning \ unnamed : starting = a \/ (lock.holds = "session" /\ lock.agent = a)
      BY DEF DispatchInv, LearningInv, NamedInv
    <3>2. \A a, b \in Learning \ unnamed : a = b
      <4>1. CASE starting = 0
        BY <3>1, <4>1 DEF Learning, Learner
      <4>2. CASE starting # 0
        BY <4>2 DEF DispatchInv, LearningInv, NamedInv
      <4> QED BY <4>1, <4>2
    <3> QED BY <3>1, <3>2, AtMostOne DEF OneLearningAgent
  <2> QED BY <2>1, <2>2 DEF DispatchInv, LearningInv, HandedInv, NothingIsDispatchedTwice
<1> QED BY DispatchInductive, <1>1, PTL

\* A recovery agent gets only nodes that have failed, have attempts left, and are
\* not put off, and never one that an open row gave to another agent: nothing can
\* change them between the scan and the start of the process
\* (RecoveryScanService.get_recoverable_nodes).
THEOREM BatchesTheorem == Spec => BatchesAreDue
<1> DEFINE Due == \A a \in RecoveryAgent :
                    (process[a] = "none" /\ process'[a] = "up") =>
                      \A n \in batch'[a] :
                        /\ HasFailed(n) /\ attempts[n] > 0
                        /\ n \notin held /\ verdict[n] \notin {"later", "never"}
                        /\ \A b \in open : n \notin batch[b]
<1>1. DispatchInv /\ [Next]_vars => Due
  <2> SUFFICES ASSUME DispatchInv, [Next]_vars,
                      NEW a \in RecoveryAgent, process[a] = "none", process'[a] = "up",
                      NEW n \in batch'[a]
               PROVE  /\ HasFailed(n) /\ attempts[n] > 0
                      /\ n \notin held /\ verdict[n] \notin {"later", "never"}
                      /\ \A b \in open : n \notin batch[b]
    OBVIOUS
  <2>0. process \in [RecoveryAgent -> {"none", "up", "late"}] /\ batch \in [RecoveryAgent -> SUBSET Node]
    BY DEF DispatchInv, RecoveryInv, RecoveryTypeOK
  <2>1. RecoveryMove
    BY StepsMoveBothHalves DEF DispatchInv
  <2>2. Launch
    BY <2>0, <2>1
       DEF RecoveryMove, RecoveryStep, RecoveryWorld, Scan, NothingToExamine, AddRow, CloseEnded, KillOverdue,
           LeaveAtWork, Dispatching, Fails, PullRequestEnds, RecoverAtPasses, DelayPasses, RecoveryAgentEnds, RecoveryTimesOut,
           Verdict, BeginRecovery, AbortRecovery, RetryFailed, CutRecovery, recoveryVars, agentVars
  <2>3. n \in picked /\ open = {}
    BY <2>0, <2>2 DEF Launch, MayLaunch
  <2> QED
    BY <2>3 DEF DispatchInv, RecoveryInv, PickedInv, IsRecoverable, CanAttempt, IsDue
<1> QED BY DispatchInductive, <1>1, PTL DEF Spec, BatchesAreDue

\* When abort returns, no helper of the run is at work but one whose pass was cut
\* short before anything named it (AbortCommandHandler._kill_recovery_session,
\* _kill_learning_session).
THEOREM AbortTheorem == Spec => AbortEndsHelpers
<1> DEFINE Ends == Abort => /\ {a \in RecoveryAgent : process'[a] # "none"} \subseteq strays
                            /\ {a \in Learner : learner'[a] # "none"} \subseteq unnamed
<1>1. DispatchInv => Ends
  <2> SUFFICES ASSUME DispatchInv, Abort PROVE Ends
    OBVIOUS
  <2>1. launched = 0 /\ starting = 0 /\ 0 \notin RecoveryAgent /\ 0 \notin Learner
    BY DEF Abort, Command, Idle, DispatchInv, TypeOK, RecoveryInv, AgentsInv, LearningInv, NamedInv,
           Unnamed, RecoveryAgent, Learner
  <2>2. {a \in RecoveryAgent : process'[a] # "none"} \subseteq strays
    BY <2>1 DEF Abort, AbortRecovery, DispatchInv, RecoveryInv, AgentsInv, AtWork
  <2>3. {a \in Learner : learner'[a] # "none"} \subseteq unnamed
    <3>1. \A a \in Learner \ unnamed : learner[a] # "none" => lock = HeldBy(a, lock.nodes)
      <4> SUFFICES ASSUME NEW a \in Learner \ unnamed, learner[a] # "none"
                   PROVE  lock = HeldBy(a, lock.nodes)
        OBVIOUS
      <4>1. lock.holds = "session" /\ lock.agent = a
        BY <2>1 DEF DispatchInv, LearningInv, NamedInv, Learning
      <4>2. PICK b \in Learner, nodes \in SUBSET settled : lock = HeldBy(b, nodes)
        BY <4>1, LockKinds DEF DispatchInv, LearningInv, LearningTypeOK
      <4> QED BY <4>1, <4>2 DEF HeldBy
    <3> QED BY <3>1 DEF Abort, AbortLearning
  <2> QED BY <2>2, <2>3
<1> QED BY DispatchInductive, <1>1, PTL DEF Spec, AbortEndsHelpers
=============================================================================
