------------------------------ MODULE Dispatch ------------------------------
(***************************************************************************)
(* The end of a pass.  Recovery and learning are dispatched at once        *)
(* (asyncio.gather), so their steps interleave; an error of one ends the   *)
(* pass with the other half-way, and so does the death of the pass.        *)
(* Between passes, which the run lock keeps apart, come the operator's     *)
(* commands and the verdicts of the recovery agent.  A pass that ends the  *)
(* run retires the host job, and then only a person starts another one.    *)
(***************************************************************************)
EXTENDS RecoveryDispatch, LearningDispatch

CONSTANTS
  MaxCommands,   \* bound: the operator's commands
  MaxAccidents   \* bound: passes that die, executables that do not start

ASSUME DispatchAssumption == MaxCommands \in Nat /\ MaxAccidents \in Nat

VARIABLES
  others,    \* the run has nodes beside these, which keep it active
  job,       \* the host job is registered: passes come by themselves
  commands,
  accidents

rest == <<others, commands, accidents>>

vars == <<recoveryVars, learningVars, job, rest>>

TypeOK ==
  /\ RecoveryTypeOK
  /\ LearningTypeOK
  /\ (recovery = "idle") = (learning = "idle")
  /\ others \in BOOLEAN
  /\ job \in BOOLEAN
  /\ commands \in 0 .. MaxCommands
  /\ accidents \in 0 .. MaxAccidents

Init ==
  /\ RecoveryInit
  /\ LearningInit
  /\ others \in BOOLEAN
  /\ job = FALSE
  /\ commands = 0
  /\ accidents = 0

-----------------------------------------------------------------------------
Idle == recovery = "idle"

Accident == accidents < MaxAccidents /\ accidents' = accidents + 1 /\ UNCHANGED <<others, commands>>

\* GraphService.get_run_status is complete or errored.
RunEnded ==
  /\ ~others
  /\ \/ \A n \in Node : health[n] = "merged"
     \/ \A n \in Node : health[n] \in {"errored", "needs_human"}

Command == Idle /\ commands < MaxCommands /\ commands' = commands + 1 /\ UNCHANGED <<others, accidents>>

BeginEnd ==
  /\ Idle
  /\ BeginRecovery
  /\ BeginLearning
  /\ UNCHANGED <<job, rest>>

\* The pass that finds the run at its end retires the job, whatever recovery
\* and learning have left; any other registers it.
EndPass ==
  /\ recovery = "done"
  /\ learning = "done"
  /\ CutRecovery
  /\ KillLearning
  /\ job' = ~RunEnded
  /\ UNCHANGED rest

\* The recovery agent's executable does not start: the error leaves gather,
\* and the loop closes under the learning half.
RecoveryLaunchFails ==
  /\ recovery = "dispatch"
  /\ MayLaunch
  /\ Accident
  /\ CutRecovery
  /\ CancelLearning
  /\ UNCHANGED job

\* The learning agent's executable does not start.
LearningLaunchFails ==
  /\ learning = "launch"
  /\ Accident
  /\ CutRecovery
  /\ CancelLearning
  /\ UNCHANGED job

PassDies ==
  /\ ~Idle
  /\ Accident
  /\ CutRecovery
  /\ KillLearning
  /\ UNCHANGED job

PassStep ==
  \/ EndPass
  \/ (RecoveryStep /\ UNCHANGED <<learningVars, job, rest>>)
  \/ (LearningStep /\ UNCHANGED <<recoveryVars, job, rest>>)

Retry(n) == Command /\ RetryFailed(n) /\ job' = TRUE /\ UNCHANGED learningVars

Abort == Command /\ AbortRecovery /\ AbortLearning /\ job' = FALSE

\* recover registers the job of a node that it wakes or lets wait.
World ==
  \/ /\ RecoveryWorld
     /\ job' = (job \/ \E n \in Node : HasFailed(n) /\ health'[n] = "well")
     /\ UNCHANGED <<learningVars, rest>>
  \/ \E n \in Node : PullRequestEnds(n) /\ Settles(n) /\ UNCHANGED <<job, rest>>
  \/ (LearningWorld /\ UNCHANGED <<recoveryVars, job, rest>>)
  \/ (DeleteLock /\ UNCHANGED <<recoveryVars, job, rest>>)

Next ==
  \/ BeginEnd \/ PassStep \/ RecoveryLaunchFails \/ LearningLaunchFails \/ PassDies
  \/ Abort \/ World
  \/ \E n \in Node : Retry(n)

Spec == Init /\ [][Next]_vars

\* The host fires as long as the job is registered, a pass goes on, and the
\* clock reaches every deadline and every delay.  Nothing is assumed of a
\* person's start, nor of the agents: one that hangs is killed once it is overdue.
Fairness ==
  /\ WF_vars(job /\ BeginEnd)
  /\ WF_vars(PassStep)
  /\ \A a \in RecoveryAgent :
       WF_vars(RecoveryTimesOut(a) /\ UNCHANGED <<learningVars, job, rest>>)
  /\ \A a \in Learner :
       WF_vars(LearningTimesOut(a) /\ UNCHANGED <<recoveryVars, job, rest>>)
  /\ \A n \in Node :
       /\ SF_vars(DelayPasses(n) /\ UNCHANGED <<learningVars, job, rest>>)
       /\ SF_vars(RecoverAtPasses(n) /\ UNCHANGED <<learningVars, job, rest>>)

FairSpec == Spec /\ Fairness

-----------------------------------------------------------------------------
(* What the dispatch promises.                                             *)

\* One recovery agent works at a time, the one a row without an ended_at names;
\* beside it only an agent whose pass was cut short between the start of the
\* process and the row (RecoveryDispatchService.dispatch).
OneRecoveryAgent ==
  /\ Cardinality(AtWork \ strays) <= 1
  /\ AtWork \ strays \subseteq open \cup {launched}

\* One learning agent works at a time, the one the lock names, but for one
\* whose pass was cut short before the lock named it (ExtractionLock).
OneLearningAgent ==
  /\ Cardinality(Learning \ unnamed) <= 1
  /\ \A a \in Learning \ unnamed : starting = a \/ (lock.holds = "session" /\ lock.agent = a)

\* A pull request is handed to one learning agent only, however the passes
\* overlap with its session, retries and aborts.  Only a pass cut short after
\* the start of the agent and before its nodes were marked hands it on again
\* (NodeRepo.record_learnings_extracted).
HandedOnce ==
  \A n \in Node : handed[n] = "again" => n \in unmarked

\* No node is given to two recovery agents at once that the rows know of, and
\* no agent gets a node without attempts left or before its delay is over
\* (RecoveryScanService.get_recoverable_nodes).
BatchesAreDue ==
  [][\A a \in RecoveryAgent :
       (process[a] = "none" /\ process'[a] = "up") =>
         \A n \in batch'[a] :
           /\ HasFailed(n) /\ attempts[n] > 0
           /\ n \notin held /\ verdict[n] \notin {"later", "never"}
           /\ \A b \in open : n \notin batch[b]]_vars

\* Abort leaves no helper of the run at work but those nothing names
\* (AbortCommandHandler._kill_recovery_session, _kill_learning_session).
AbortEndsHelpers ==
  [][Abort => /\ {a \in RecoveryAgent : process'[a] # "none"} \subseteq strays
              /\ {a \in Learner : learner'[a] # "none"} \subseteq unnamed]_vars

\* A node that has failed and has attempts left is examined in the end: an
\* agent at work has it, or it got its last verdict or works again.  An agent
\* that hangs, one that never answers, and a pass cut short only delay it;
\* what ends it is the retirement of the job, by an abort or by a pass that
\* finds the run at its end while an agent's row is open (StartCommandHandler._conclude).
FailuresAreExamined ==
  \A n \in Node :
    (HasFailed(n) /\ attempts[n] > 0)
      ~> \/ ~HasFailed(n) \/ attempts[n] <= 0 \/ verdict[n] = "never"
         \/ \E a \in AtWork : n \in batch[a]
         \/ ~job

\* The learnings of a settled pull request are extracted in the end, unless the
\* lock has lost its process id: then nothing is until a person deletes it.
\* Nor is anything once the job is retired, be it that an earlier learner had
\* the lock in the run's last pass (StartCommandHandler._conclude).
SettledIsExtracted ==
  \A n \in Node : n \in settled ~> (n \in extracted \/ lock = Empty \/ ~job)

\* No work is given out twice: a failure or a settled pull request has one agent at a
\* time, which the rows or the lock name, and learnings are taken once.
NothingIsDispatchedTwice ==
  /\ TypeOK
  /\ OneRecoveryAgent
  /\ OneLearningAgent
  /\ HandedOnce

=============================================================================
