------------------------------- MODULE DagRun -------------------------------
(***************************************************************************)
(* A run of agentic-dag: the passes of the controller over the node rows,  *)
(* the agent sessions it starts, the pull requests it reads, and the       *)
(* operator's commands.                                                    *)
(*                                                                         *)
(* The run lock serialises passes and commands: a command is one step      *)
(* taken while no pass is under way, and a pass is a sequence of steps,    *)
(* one per node handled, between which only sessions, GitHub and the clock *)
(* move.  What a pass reads of a pull request's news, what a worktree      *)
(* holds and how long a cooldown lasts are left open here.                 *)
(***************************************************************************)
EXTENDS DagGraph, Integers, FiniteSets

CONSTANTS
  MaxWorkers,         \* max_workers: how many sessions may run at once
  NodeWakes,          \* caps.node_wakes
  RecoveryAllowance,  \* caps.node_recoveries
  Commands,           \* which operator commands this instance exercises
  MaxIncidents,       \* bound: commands, passes and threads lost, starts by hand
  StaleVerdicts       \* may a verdict reach a node that moved on meanwhile?

AllCommands == {"retry", "skip", "stop", "abort", "recover"}

ASSUME RunAssumption ==
  /\ MaxWorkers \in Nat \ {0}
  /\ NodeWakes \in Nat
  /\ RecoveryAllowance \in Nat
  /\ Commands \subseteq AllCommands
  /\ MaxIncidents \in Nat
  /\ StaleVerdicts \in BOOLEAN

VARIABLES
  state,         \* nodes.state
  resume,        \* nodes.resume_at: unset, still ahead, or reached
  attempts,      \* nodes.recovery_attempts_allowed
  upstreamNote,  \* nodes whose newest audit note says an upstream node stopped
  process,       \* the process of the agent's latest session, if it has one
  openRow,       \* nodes whose latest session row has no ended_at
  stray,         \* an earlier session whose row nobody closed
  conversation,  \* nodes whose agent has a resume_token
  wakes,         \* wakes since the latest launch or retry
  pr,            \* the newest pull request of the node's branch, on GitHub
  job,           \* the host job that keeps passing
  phase,         \* what the pass holding the run lock is doing
  todo,          \* the nodes this phase has read and not yet handled
  incidents      \* commands, losses and starts by hand so far

nodeVars    == <<state, resume, upstreamNote>>
sessionVars == <<process, openRow, stray, conversation, wakes>>
passVars    == <<phase, todo>>
vars == <<nodeVars, attempts, sessionVars, pr, job, passVars, incidents>>

Phase == {"idle", "in_progress", "resting", "pending", "recovery", "conclude"}

TypeOK ==
  /\ state \in [Node -> NodeState]
  /\ resume \in [Node -> {"none", "later", "due"}]
  /\ attempts \in [Node -> Int]
  /\ upstreamNote \in SUBSET Node
  /\ process \in [Node -> {"none", "alive", "late", "dead"}]
  /\ openRow \in SUBSET Node
  /\ stray \in [Node -> {"none", "alive", "dead"}]
  /\ conversation \in SUBSET Node
  /\ wakes \in [Node -> 0 .. NodeWakes]
  /\ pr \in [Node -> {"none", "open", "merged", "closed"}]
  /\ job \in {"absent", "registered", "retired", "aborted"}
  /\ phase \in Phase
  /\ todo \in SUBSET Node
  /\ incidents \in 0 .. MaxIncidents

\* The rows as ensure_rows creates them, before the first pass of the run.
Init ==
  /\ state = [n \in Node |-> Pending]
  /\ resume = [n \in Node |-> "none"]
  /\ attempts = [n \in Node |-> RecoveryAllowance]
  /\ upstreamNote = {}
  /\ process = [n \in Node |-> "none"]
  /\ openRow = {}
  /\ stray = [n \in Node |-> "none"]
  /\ conversation = {}
  /\ wakes = [n \in Node |-> 0]
  /\ pr = [n \in Node |-> "none"]
  /\ job = "absent"
  /\ phase = "idle"
  /\ todo = {}
  /\ incidents = 0

-----------------------------------------------------------------------------
InState(s) == {n \in Node : state[n] = s}

\* Dependencies forgetting what a skipped node waited for (a mutated form).
DependenciesDropSkipped(n) == DependsOn[n] \ InState(Skipped)

Dependencies(n) == EffectiveDependencies(n, InState(Skipped))

IsAlive(n) == process[n] \in {"alive", "late"}

Incident ==
  /\ incidents < MaxIncidents
  /\ incidents' = incidents + 1

\* Move n to state s: the row is written, which clears resume_at, and an audit
\* note of another kind than upstreamStopped follows.
Record(n, s) ==
  /\ state' = [state EXCEPT ![n] = s]
  /\ resume' = [resume EXCEPT ![n] = "none"]
  /\ upstreamNote' = upstreamNote \ {n}

\* Released reaching only the direct dependents (a mutated form).
ReleasedDirectly(n) ==
  {m \in upstreamNote :
     n \in DependsOn[m] /\ state[m] = NeedsHuman /\ process[m] = "none"}

\* The dependents that a restart or a skip of n returns to pending: stopped
\* before they ever had an agent, because an upstream node was.
Released(n) ==
  {m \in Descendants(n) \cap upstreamNote :
     state[m] = NeedsHuman /\ process[m] = "none"}

\* Move n to state s and release its dependents.
RecordAndRelease(n, s, resumption) ==
  /\ state' = [m \in Node |-> IF m = n THEN s
                              ELSE IF m \in Released(n) THEN Pending
                              ELSE state[m]]
  /\ resume' = [m \in Node |-> IF m = n THEN resumption
                               ELSE IF m \in Released(n) THEN "none"
                               ELSE resume[m]]
  /\ upstreamNote' = upstreamNote \ (Released(n) \cup {n})

\* The process of a new session starts in n's worktree and its row is added.
\* A row still open underneath it is nobody's latest session any more.
BeginSession(n) ==
  /\ process' = [process EXCEPT ![n] = "alive"]
  /\ openRow' = openRow \cup {n}
  /\ stray' = IF n \in openRow
              THEN [stray EXCEPT ![n] =
                      IF IsAlive(n) \/ @ = "alive" THEN "alive" ELSE "dead"]
              ELSE stray

\* CloseSession leaving the process to itself (a mutated form).
CloseSessionOnly(n) ==
  /\ openRow' = openRow \ {n}
  /\ UNCHANGED process

\* The latest session's row gets its ended_at; its process is gone by then.
CloseSession(n) ==
  /\ process' = [process EXCEPT ![n] = "dead"]
  /\ openRow' = openRow \ {n}

-----------------------------------------------------------------------------
(* Sessions, GitHub and the clock.                                         *)

SessionExits(n) ==
  /\ IsAlive(n)
  /\ process' = [process EXCEPT ![n] = "dead"]
  /\ UNCHANGED <<nodeVars, attempts, openRow, stray, conversation, wakes, pr, job,
                 passVars, incidents>>

DeadlinePasses(n) ==
  /\ process[n] = "alive"
  /\ process' = [process EXCEPT ![n] = "late"]
  /\ UNCHANGED <<nodeVars, attempts, openRow, stray, conversation, wakes, pr, job,
                 passVars, incidents>>

StrayExits(n) ==
  /\ stray[n] = "alive"
  /\ stray' = [stray EXCEPT ![n] = "dead"]
  /\ UNCHANGED <<nodeVars, attempts, process, openRow, conversation, wakes, pr, job,
                 passVars, incidents>>

AgentOpensPullRequest(n) ==
  /\ IsAlive(n) \/ stray[n] = "alive"
  /\ pr[n] \in {"none", "closed"}
  /\ pr' = [pr EXCEPT ![n] = "open"]
  /\ UNCHANGED <<nodeVars, attempts, sessionVars, job, passVars, incidents>>

HumanSettlesPullRequest(n) ==
  /\ pr[n] = "open"
  /\ \E outcome \in {"merged", "closed"} : pr' = [pr EXCEPT ![n] = outcome]
  /\ UNCHANGED <<nodeVars, attempts, sessionVars, job, passVars, incidents>>

ResumeTimeComes(n) ==
  /\ resume[n] = "later"
  /\ resume' = [resume EXCEPT ![n] = "due"]
  /\ UNCHANGED <<state, upstreamNote, attempts, sessionVars, pr, job, passVars, incidents>>

Environment ==
  \E n \in Node :
    \/ SessionExits(n)
    \/ DeadlinePasses(n)
    \/ StrayExits(n)
    \/ AgentOpensPullRequest(n)
    \/ HumanSettlesPullRequest(n)
    \/ ResumeTimeComes(n)

-----------------------------------------------------------------------------
(* A pass.                                                                 *)

\* The host job fires, or a person runs start where no job is registered.
BeginPass ==
  /\ phase = "idle"
  /\ phase' = "in_progress"
  /\ todo' = InState(InProgress)
  /\ \/ job \in {"absent", "registered"} /\ UNCHANGED incidents
     \/ job \in {"retired", "aborted"} /\ Incident
  /\ UNCHANGED <<nodeVars, attempts, sessionVars, pr, job>>

\* The pass ends between two nodes: its process dies and the kernel frees the
\* lock, an error escapes it, or it was a tick, which leaves the job alone.
PassDies ==
  /\ phase # "idle"
  /\ Incident
  /\ phase' = "idle"
  /\ todo' = {}
  /\ UNCHANGED <<nodeVars, attempts, sessionVars, pr, job>>

\* The facade sweeps one state after another, reading each afresh.
NextPhase ==
  /\ todo = {}
  /\ \/ phase = "in_progress" /\ phase' = "resting" /\ todo' = InState(Resting)
     \/ phase = "resting" /\ phase' = "pending" /\ todo' = InState(Pending)
     \/ phase = "pending" /\ phase' = "recovery" /\ todo' = {}
  /\ UNCHANGED <<nodeVars, attempts, sessionVars, pr, job, incidents>>

Visit(n, sweep) ==
  /\ phase = sweep
  /\ n \in todo
  /\ todo' = todo \ {n}
  /\ UNCHANGED <<phase, attempts, pr, job>>

Handle(n, sweep) == Visit(n, sweep) /\ UNCHANGED incidents

\* n's conversation resumes, with this many wakes on its account: unless the
\* executor has lost its thread and launches the node anew.
Resume(n, count) ==
  \/ wakes' = [wakes EXCEPT ![n] = count] /\ UNCHANGED incidents
  \/ wakes' = [wakes EXCEPT ![n] = 0] /\ Incident

-----------------------------------------------------------------------------
(* Sweeping the nodes in progress.                                         *)

LeaveWorking(n) ==
  /\ Handle(n, "in_progress")
  /\ process[n] = "alive"
  /\ UNCHANGED <<nodeVars, sessionVars>>

\* The session's log says the provider's allowance ran out: the node waits for
\* the reset.
WaitForUsageLimit(n) ==
  /\ Handle(n, "in_progress")
  /\ process[n] # "alive"
  /\ CloseSession(n)
  /\ state' = [state EXCEPT ![n] = Pending]
  /\ resume' = [resume EXCEPT ![n] = "later"]
  /\ upstreamNote' = upstreamNote \ {n}
  /\ UNCHANGED <<stray, conversation, wakes>>

\* Git or GitHub does not answer and the node settles on a later pass.  A late
\* session is killed and closed by then, and so is one whose pull request was
\* read before its commits could not be counted.
SettleFails(n) ==
  /\ Handle(n, "in_progress")
  /\ \/ /\ process[n] = "late" \/ (process[n] = "dead" /\ pr[n] # "none")
        /\ CloseSession(n)
     \/ process[n] = "dead" /\ UNCHANGED <<process, openRow>>
  /\ UNCHANGED <<nodeVars, stray, conversation, wakes>>

SettleWithoutPullRequest(n) ==
  /\ Handle(n, "in_progress")
  /\ process[n] # "alive"
  /\ pr[n] = "none"
  /\ CloseSession(n)
  /\ Record(n, IF process[n] = "late" THEN Errored ELSE NeedsHuman)
  /\ UNCHANGED <<stray, conversation, wakes>>

SettleOnPullRequest(n) ==
  /\ Handle(n, "in_progress")
  /\ process[n] # "alive"
  /\ pr[n] # "none"
  /\ CloseSession(n)
  /\ Record(n, Resting)
  /\ UNCHANGED <<stray, conversation, wakes>>

-----------------------------------------------------------------------------
(* Sweeping the resting nodes.                                             *)

\* Nothing to do, nothing readable, or no worker free for the news there is.
LeaveResting(n) ==
  /\ Handle(n, "resting")
  /\ UNCHANGED <<nodeVars, sessionVars>>

RecordMerged(n) ==
  /\ Handle(n, "resting")
  /\ pr[n] = "merged"
  /\ Record(n, Merged)
  /\ UNCHANGED sessionVars

RecordClosed(n) ==
  /\ Handle(n, "resting")
  /\ pr[n] = "closed"
  /\ Record(n, NeedsHuman)
  /\ UNCHANGED sessionVars

\* MayWake off by one (a mutated form).
MayWakeOnceMore(n) == wakes[n] <= NodeWakes

MayWake(n) == wakes[n] < NodeWakes

\* There is news and the node has been woken as often as the run allows.
RunOutOfWakes(n) ==
  /\ Handle(n, "resting")
  /\ pr[n] = "open"
  /\ ~MayWake(n)
  /\ Record(n, NeedsHuman)
  /\ UNCHANGED sessionVars

\* There is news: the node's conversation resumes with it.
Wake(n) ==
  /\ Visit(n, "resting")
  /\ pr[n] = "open"
  /\ MayWake(n)
  /\ Cardinality(InState(InProgress)) < MaxWorkers
  /\ BeginSession(n)
  /\ Resume(n, wakes[n] + 1)
  /\ Record(n, InProgress)
  /\ UNCHANGED conversation

-----------------------------------------------------------------------------
(* Sweeping the pending nodes.                                             *)

StopBehindUpstream(n) ==
  /\ Handle(n, "pending")
  /\ \E d \in Dependencies(n) : state[d] \in Stopped
  /\ state' = [state EXCEPT ![n] = NeedsHuman]
  /\ resume' = [resume EXCEPT ![n] = "none"]
  /\ upstreamNote' = upstreamNote \cup {n}
  /\ UNCHANGED sessionVars

\* MayStart counting one worker too many (a mutated form).
MayStartOverBudget(n) ==
  /\ \A d \in Dependencies(n) : state[d] = Merged
  /\ resume[n] # "later"
  /\ Cardinality(InState(InProgress)) <= MaxWorkers

\* MayStart never ending a wait (a mutated form).
MayStartUnlessWaiting(n) ==
  /\ \A d \in Dependencies(n) : state[d] = Merged
  /\ resume[n] = "none"
  /\ Cardinality(InState(InProgress)) < MaxWorkers

MayStart(n) ==
  /\ \A d \in Dependencies(n) : state[d] = Merged
  /\ resume[n] # "later"
  /\ Cardinality(InState(InProgress)) < MaxWorkers

\* Dependencies, a start time, the workers or the workspace hold the node back.
LeavePending(n) ==
  /\ Handle(n, "pending")
  /\ \A d \in Dependencies(n) : state[d] \notin Stopped
  /\ UNCHANGED <<nodeVars, sessionVars>>

\* The base branch is missing, or the worktree belongs to another branch.
FailToProvision(n) ==
  /\ Handle(n, "pending")
  /\ MayStart(n)
  /\ Record(n, Errored)
  /\ UNCHANGED sessionVars

\* A recorded conversation is resumed, as a retry or, after a wait, as a
\* recovery; only the latter keeps the count of wakes.
Start(n) ==
  /\ Visit(n, "pending")
  /\ MayStart(n)
  /\ BeginSession(n)
  /\ conversation' = conversation \cup {n}
  /\ IF n \in conversation /\ resume[n] = "due"
     THEN Resume(n, wakes[n])
     ELSE wakes' = [wakes EXCEPT ![n] = 0] /\ UNCHANGED incidents
  /\ Record(n, InProgress)

-----------------------------------------------------------------------------
(* The end of a pass.                                                      *)

\* The recovery scan gives an errored node without attempts to a human.
ScanForRecovery ==
  /\ phase = "recovery"
  /\ phase' = "conclude"
  /\ LET exhausted == {n \in InState(Errored) : attempts[n] <= 0 /\ ~IsAlive(n)}
     IN /\ state' = [n \in Node |-> IF n \in exhausted THEN NeedsHuman ELSE state[n]]
        /\ resume' = [n \in Node |-> IF n \in exhausted THEN "none" ELSE resume[n]]
        /\ upstreamNote' = upstreamNote \ exhausted
  /\ UNCHANGED <<attempts, sessionVars, pr, job, todo, incidents>>

\* start retires the job of a run that can end and registers one otherwise.
Conclude ==
  /\ phase = "conclude"
  /\ phase' = "idle"
  /\ job' = IF RunStatus({state[n] : n \in Node}) = "active"
            THEN "registered" ELSE "retired"
  /\ UNCHANGED <<nodeVars, attempts, sessionVars, pr, todo, incidents>>

\* A sweep handles one node.
Sweep(n) ==
  \/ LeaveWorking(n) \/ WaitForUsageLimit(n) \/ SettleFails(n)
  \/ SettleWithoutPullRequest(n) \/ SettleOnPullRequest(n)
  \/ LeaveResting(n) \/ RecordMerged(n) \/ RecordClosed(n)
  \/ RunOutOfWakes(n) \/ Wake(n)
  \/ StopBehindUpstream(n) \/ LeavePending(n) \/ FailToProvision(n) \/ Start(n)

PassStep ==
  \/ BeginPass \/ NextPhase \/ ScanForRecovery \/ Conclude \/ PassDies
  \/ \E n \in Node : Sweep(n)

-----------------------------------------------------------------------------
(* The operator's commands, each holding the run lock.                     *)

Command(name) ==
  /\ name \in Commands
  /\ phase = "idle"
  /\ Incident
  /\ UNCHANGED <<pr, passVars>>

\* EnsureRegistered leaving a missing job missing (a mutated form).
LeaveJob == UNCHANGED job

EnsureRegistered == job' = "registered"

Retry(n) ==
  /\ Command("retry")
  /\ state[n] \in Stopped
  /\ attempts' = [attempts EXCEPT ![n] = RecoveryAllowance]
  /\ \E reset \in BOOLEAN :
       conversation' = IF reset THEN conversation \ {n} ELSE conversation
  /\ RecordAndRelease(n, Pending, "none")
  /\ EnsureRegistered
  /\ UNCHANGED <<process, openRow, stray, wakes>>

Skip(n) ==
  /\ Command("skip")
  /\ state[n] \notin {InProgress, Merged}
  /\ RecordAndRelease(n, Skipped, "none")
  /\ IF state[n] = Skipped /\ Released(n) = {}
     THEN UNCHANGED job
     ELSE EnsureRegistered
  /\ UNCHANGED <<attempts, sessionVars>>

Stop(n) ==
  /\ Command("stop")
  /\ state[n] = InProgress
  /\ IsAlive(n)
  /\ CloseSession(n)
  /\ Record(n, NeedsHuman)
  /\ UNCHANGED <<attempts, job, stray, conversation, wakes>>

\* Nodes with an open row underneath their latest session's.
StrayRows == {n \in Node : stray[n] # "none"}

\* Every session whose row is open is killed and closed, and its node is left
\* to a human whatever its state.
Abort ==
  /\ Command("abort")
  /\ job' = "aborted"
  /\ LET killed == openRow \cup StrayRows
     IN /\ state' = [n \in Node |-> IF n \in killed THEN NeedsHuman ELSE state[n]]
        /\ resume' = [n \in Node |-> IF n \in killed THEN "none" ELSE resume[n]]
        /\ upstreamNote' = upstreamNote \ killed
  /\ process' = [n \in Node |-> IF n \in openRow THEN "dead" ELSE process[n]]
  /\ openRow' = {}
  /\ stray' = [n \in Node |-> IF n \in StrayRows THEN "none" ELSE stray[n]]
  /\ UNCHANGED <<attempts, conversation, wakes>>

-----------------------------------------------------------------------------
(* recover: a verdict on a node's latest session.  The recovery agent took *)
(* it from what examine printed, and examine does not hold the run lock.   *)

\* Examined taking a node in any state (a mutated form).
ExaminedAnyNode(n) == process[n] # "none"

\* As long as verdicts are not stale, the node has failed and nothing runs.
Examined(n) ==
  StaleVerdicts \/ (state[n] \in {Errored, NeedsHuman, Resting} /\ ~IsAlive(n))

Verdict(n) ==
  /\ Command("recover")
  /\ process[n] # "none"
  /\ attempts' = [attempts EXCEPT ![n] = @ - 1]

\* Recoverable, but not now, or retried by the recovery agent itself: the row
\* is written and the node, whatever became of it, stays as it is.
RecoverLater(n) ==
  /\ Verdict(n)
  /\ UNCHANGED <<nodeVars, sessionVars, job>>

\* A usage limit or a provider failure, with a recover_at still ahead.
RecoverByWaiting(n) ==
  /\ Verdict(n)
  /\ Examined(n)
  /\ RecordAndRelease(n, Pending, "later")
  /\ EnsureRegistered
  /\ UNCHANGED sessionVars

RecoverByWaking(n) ==
  /\ Verdict(n)
  /\ Examined(n)
  /\ state[n] \in {Errored, NeedsHuman, Resting}
  /\ ~IsAlive(n)
  /\ n \in conversation
  /\ BeginSession(n)
  /\ \E count \in {0, wakes[n]} : wakes' = [wakes EXCEPT ![n] = count]
  /\ RecordAndRelease(n, InProgress, "none")
  /\ EnsureRegistered
  /\ UNCHANGED conversation

Unrecoverable(n) ==
  /\ Verdict(n)
  /\ Examined(n)
  /\ state[n] # Merged
  /\ ~(state[n] = InProgress /\ IsAlive(n))
  /\ IF state[n] = NeedsHuman THEN UNCHANGED nodeVars ELSE Record(n, NeedsHuman)
  /\ UNCHANGED <<sessionVars, job>>

Operator ==
  \/ Abort
  \/ \E n \in Node :
       \/ Retry(n) \/ Skip(n) \/ Stop(n)
       \/ RecoverLater(n) \/ RecoverByWaiting(n) \/ RecoverByWaking(n)
       \/ Unrecoverable(n)

Next == Environment \/ PassStep \/ Operator

Spec == Init /\ [][Next]_vars

\* The host job fires again and again while it is registered and a pass that
\* is under way goes on; the clock reaches every deadline and resume time; a
\* reviewer settles an open pull request in the end.  Git and GitHub do not
\* fail, the allowance does not run out and the pull request is not unreadable
\* on every single visit a node gets.
Fairness ==
  /\ WF_vars(job = "registered" /\ BeginPass)
  /\ WF_vars(NextPhase \/ ScanForRecovery \/ Conclude)
  /\ WF_vars(\E n \in Node : Sweep(n))
  /\ \A n \in Node :
       /\ WF_vars(DeadlinePasses(n))
       /\ WF_vars(ResumeTimeComes(n))
       /\ WF_vars(HumanSettlesPullRequest(n))
       /\ SF_vars(SettleWithoutPullRequest(n) \/ SettleOnPullRequest(n))
       /\ SF_vars(RecordMerged(n) \/ RecordClosed(n))
       /\ SF_vars(FailToProvision(n) \/ Start(n))

FairSpec == Spec /\ Fairness

-----------------------------------------------------------------------------
(* What a run promises.                                                    *)

\* An agent only ever works on top of merged dependencies: those its node
\* declares, and in the place of a skipped one those it waited for itself
\* (PendingNodeHandler, GraphService.get_effective_dependencies).  It holds
\* for as long as the node keeps a session, whatever is skipped, retried or
\* recovered meanwhile.
WorkStandsOnMergedDependencies ==
  \A n \in Node :
    process[n] # "none"
      => \A d \in EffectiveDependencies(n, InState(Skipped)) : state[d] = Merged

\* A node that waits for a human only because an upstream node stopped has an
\* upstream node that is stopped still: a restart or a skip releases all that
\* had stopped behind it (DependentReleaseService).
ParkedBehindStopped ==
  \A n \in upstreamNote :
    /\ state[n] = NeedsHuman
    /\ process[n] = "none" => \E d \in Dependencies(n) : state[d] \in Stopped

\* No two agents share a worktree, and an agent that works is the agent of a
\* node in progress, which the next pass supervises.
OneSessionPerWorktree ==
  \A n \in Node : stray[n] # "alive" /\ (IsAlive(n) => state[n] = InProgress)

\* A session's row stays open only while its node is in progress: abort moves
\* the node of every open row to needs_human, whatever became of it since
\* (AgentSessionKiller).
OnlyWorkingNodesHaveOpenSessions ==
  \A n \in Node : (n \in openRow => state[n] = InProgress) /\ stray[n] = "none"

\* The sessions of a run are those of its nodes in progress: each running
\* agent has the open row of such a node, there is one for each at most, and a
\* node that works or rests has had one (launch, supervision, stop and abort).
SessionInv ==
  /\ OneSessionPerWorktree
  /\ OnlyWorkingNodesHaveOpenSessions
  /\ \A n \in Node : IsAlive(n) => n \in openRow
  /\ \A n \in Node : state[n] \in {InProgress, Resting} => process[n] # "none"

\* No more agents work at once than max_workers allows, but for those of nodes the
\* recovery agent had its hand in since their last retry: recover wakes a node without
\* counting (PendingNodeHandler and RestingNodeHandler count, NodeRecoveryService does not).
SpentNoVerdict == {n \in InState(InProgress) : attempts[n] = RecoveryAllowance}
SessionsWithinBudget ==
  Cardinality({n \in SpentNoVerdict : IsAlive(n)}) <= MaxWorkers

\* A run whose host job was retired has settled: whoever puts a node back to
\* work registers the job again (RunScheduleService.ensure_registered), or
\* nothing would ever pass over it.
RetiredRunHasNothingToDo ==
  job = "retired" => RunStatus({state[n] : n \in Node}) # "active"

\* What a pass read at the start of a sweep still holds when it comes to a
\* node: nothing but the pass moves nodes while it has the run lock
\* (NodeStateHandlingFacade reads the nodes of a state once per sweep).
PassReadsAreCurrent ==
  \A n \in todo :
    /\ phase = "in_progress" => state[n] = InProgress
    /\ phase = "resting" => state[n] = Resting
    /\ phase = "pending" => state[n] = Pending

\* A merged node is finished and a skip is an ending: no pass and no command
\* ever moves such a node again (NodeState.is_terminal).
EndingsAreFinal ==
  [][\A n \in Node : state[n] \in {Merged, Skipped} => state'[n] = state[n]]_vars

\* The agents at work, those of earlier sessions included.
Working == {n \in Node : IsAlive(n) \/ stray[n] = "alive"}

\* The nodes that stopped behind an upstream node and never had an agent.
Parked == {n \in upstreamNote : process[n] = "none"}

\* The nodes a verdict was spent on since their last retry.
Judged == {n \in Node : attempts[n] # RecoveryAllowance}

Lifecycle == INSTANCE NodeLifecycle
             WITH working <- Working, parked <- Parked, judged <- Judged

\* What a person sees of a run is the life of a node that the manual tells
\* (README.md, "How a node goes"): whoever starts, wakes or resumes an agent,
\* in whatever order passes, commands and verdicts come, it builds on merged
\* work, alone and, unless a verdict resumes it, within the workers; merged and
\* skipped are ends; who is parked is so behind a stopped node.
FollowsTheLifecycle == Lifecycle!Spec

\* Abort stops the run for good: it leaves no agent running, those of earlier
\* sessions whose row nobody closed included (AbortCommandHandler._kill_agents).
AbortKillsEveryAgent ==
  [][Abort => \A n \in Node : process'[n] \notin {"alive", "late"} /\ stray'[n] # "alive"]_vars

\* A run that keeps its host job comes to an end on every node again and again:
\* merged, skipped or handed to a human.  Only an agent that a late verdict has left
\* in the worktree, which nobody supervises, may keep its node from it.
RunSettles ==
  []<>(\/ job # "registered"
       \/ \A n \in Node : state[n] \in Terminal \/ stray[n] = "alive")

=============================================================================
