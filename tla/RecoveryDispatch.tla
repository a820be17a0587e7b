-------------------------- MODULE RecoveryDispatch --------------------------
(***************************************************************************)
(* The recovery half of a pass's end: the scan for failed nodes, and the   *)
(* recovery agent started with a batch of them unless one is at work.  A   *)
(* row remembers the agent.  The agent answers with verdicts (recover),    *)
(* which take the run lock and so come between passes.                     *)
(***************************************************************************)
EXTENDS PassNodes, Integers, FiniteSets

CONSTANTS
  Allowance,    \* caps.node_recoveries
  MaxAgents     \* bound: recovery agents at once

ASSUME RecoveryDispatchAssumption ==
  /\ Allowance \in Nat
  /\ MaxAgents \in Nat

VARIABLES
  health,    \* well, merged, or what the node failed as; "resting" is a failed rest
  attempts,  \* nodes.recovery_attempts_allowed
  verdict,   \* what the newest verdict on the latest session says; none is as good as due
  held,      \* nodes whose retry_at is ahead: an agent had them and gave no verdict
  dealt,     \* nodes with a verdict, or a session, newer than the open recovery session
  open,      \* recovery agents with a row without an ended_at
  process,   \* per recovery agent: its process
  batch,     \* per recovery agent: the nodes it was started with
  recovery,  \* what the recovery half of the pass does; "idle" between passes
  picked,    \* nodes the scan has found
  launched,  \* the agent just started, 0 if there is none
  strays     \* history: recovery agents at work whose row was never added

nodeVars == <<health, attempts, verdict, held, dealt>>
agentVars == <<open, process, batch, strays>>
passVars == <<recovery, picked, launched>>
recoveryVars == <<nodeVars, agentVars, passVars>>

RecoveryAgent == 1 .. MaxAgents
Failed == {"errored", "needs_human", "resting"}

RecoveryTypeOK ==
  /\ health \in [Node -> Failed \cup {"well", "merged"}]
  /\ attempts \in [Node -> 0 .. Allowance]
  /\ verdict \in [Node -> {"due", "later", "never"}]
  /\ held \in SUBSET Node
  /\ dealt \in SUBSET Node
  /\ open \in SUBSET RecoveryAgent
  /\ process \in [RecoveryAgent -> {"none", "up", "late"}]
  /\ batch \in [RecoveryAgent -> SUBSET Node]
  /\ recovery \in {"idle", "scan", "dispatch", "add", "done"}
  /\ picked \in SUBSET Node
  /\ launched \in 0 .. MaxAgents
  /\ strays \in SUBSET RecoveryAgent

RecoveryInit ==
  /\ health = [n \in Node |-> "well"]
  /\ attempts = [n \in Node |-> Allowance]
  /\ verdict = [n \in Node |-> "due"]
  /\ held = {}
  /\ dealt = {}
  /\ open = {}
  /\ process = [a \in RecoveryAgent |-> "none"]
  /\ batch = [a \in RecoveryAgent |-> {}]
  /\ recovery = "idle"
  /\ picked = {}
  /\ launched = 0
  /\ strays = {}

-----------------------------------------------------------------------------
AtWork == {a \in RecoveryAgent : process[a] # "none"}

HasFailed(n) == health[n] \in Failed

\* IsDue forgetting the delay after an agent that gave no verdict (a mutated form).
IsDueAtOnce(n) == verdict[n] = "due"

\* The newest verdict is recoverable and its time has come, or there is none,
\* and the delay after the last agent without a verdict is over.
IsDue(n) == verdict[n] = "due" /\ n \notin held

CanAttempt(n) == attempts[n] > 0

\* IsRecoverable only once the node has stopped (a mutated form).
IsRecoverableStopped(n) ==
  health[n] \in {"errored", "needs_human"} /\ CanAttempt(n) /\ IsDue(n)

IsRecoverable(n) == HasFailed(n) /\ CanAttempt(n) /\ IsDue(n)

\* The scan picks the failed nodes that are due and gives an errored one that
\* is out of attempts to a human; a resting one rests on.
Scan ==
  /\ recovery = "scan"
  /\ picked' = {n \in Node : IsRecoverable(n)}
  /\ health' = [n \in Node |-> IF health[n] = "errored" /\ ~CanAttempt(n)
                               THEN "needs_human" ELSE health[n]]
  /\ recovery' = "dispatch"
  /\ UNCHANGED <<attempts, verdict, held, dealt, agentVars, launched>>

\* Leave the nodes of a batch alone for a while that got neither verdict nor session.
Close(a) ==
  /\ open' = open \ {a}
  /\ held' = held \cup (batch[a] \ dealt)
  /\ batch' = [batch EXCEPT ![a] = {}]
  /\ dealt' = {}

Dispatching ==
  /\ recovery = "dispatch"
  /\ picked' = {}
  /\ UNCHANGED <<health, attempts, verdict, launched, strays>>

\* No agent is started in the pass that closes the row of the one before.
CloseEnded(a) ==
  /\ Dispatching
  /\ a \in open \ AtWork
  /\ Close(a)
  /\ recovery' = "done"
  /\ UNCHANGED process

KillOverdue(a) ==
  /\ Dispatching
  /\ a \in open
  /\ process[a] = "late"
  /\ process' = [process EXCEPT ![a] = "none"]
  /\ Close(a)
  /\ recovery' = "done"

LeaveAtWork(a) ==
  /\ Dispatching
  /\ a \in open
  /\ process[a] = "up"
  /\ recovery' = "done"
  /\ UNCHANGED <<held, dealt, open, batch, process>>

NothingToExamine ==
  /\ Dispatching
  /\ open = {}
  /\ picked = {}
  /\ recovery' = "done"
  /\ UNCHANGED <<held, dealt, open, batch, process>>

\* MayLaunch beside an agent at work (a mutated form).
MayLaunchAnyway == picked # {}

MayLaunch == open = {} /\ picked # {}

Launch ==
  /\ recovery = "dispatch"
  /\ MayLaunch
  /\ \E a \in RecoveryAgent \ AtWork :
       /\ process' = [process EXCEPT ![a] = "up"]
       /\ batch' = [batch EXCEPT ![a] = picked]
       /\ launched' = a
  /\ \A b \in RecoveryAgent \ AtWork : launched' <= b
  /\ picked' = {}
  /\ recovery' = "add"
  /\ UNCHANGED <<health, attempts, verdict, held, dealt, open, strays>>

AddRow ==
  /\ recovery = "add"
  /\ open' = open \cup {launched}
  /\ launched' = 0
  /\ recovery' = "done"
  /\ UNCHANGED <<nodeVars, process, batch, picked, strays>>

BeginRecovery == recovery' = "scan" /\ UNCHANGED <<nodeVars, agentVars, picked, launched>>

\* The pass is over, wherever this half of it is.
CutRecovery ==
  /\ recovery' = "idle"
  /\ picked' = {}
  /\ launched' = 0
  /\ strays' = strays \cup ({launched} \cap AtWork)
  /\ batch' = IF launched \in RecoveryAgent \ AtWork THEN [batch EXCEPT ![launched] = {}] ELSE batch
  /\ UNCHANGED <<nodeVars, open, process>>

RecoveryStep ==
  \/ Scan \/ NothingToExamine \/ Launch \/ AddRow
  \/ \E a \in RecoveryAgent : CloseEnded(a) \/ KillOverdue(a) \/ LeaveAtWork(a)

-----------------------------------------------------------------------------
(* Nodes, recovery agents and the clock.                                   *)

Fails(n) ==
  /\ recovery = "idle"
  /\ health[n] = "well"
  /\ \E failure \in Failed : health' = [health EXCEPT ![n] = failure]
  /\ UNCHANGED <<attempts, verdict, held, dealt, agentVars, passVars>>

\* A sweep has seen the pull request merged, or closed and so left to a human.
PullRequestEnds(n) ==
  /\ recovery = "idle"
  /\ health[n] \in {"well", "resting"}
  /\ \/ health' = [health EXCEPT ![n] = "merged"]
     \/ health' = [health EXCEPT ![n] = "needs_human"]
  /\ UNCHANGED <<attempts, verdict, held, dealt, agentVars, passVars>>

\* From here on n is no concern of the recovery session that is open.
Deal(n) == dealt' = IF \E a \in open : n \in batch[a] THEN dealt \cup {n} ELSE dealt

\* A new session of the node: earlier verdicts and recovery sessions count no more.
Renew(n) ==
  /\ health' = [health EXCEPT ![n] = "well"]
  /\ verdict' = [verdict EXCEPT ![n] = "due"]
  /\ held' = held \ {n}
  /\ Deal(n)

\* recover from an agent at work on n: the node works on, or it is put off, or
\* it is left to a human.  Bound: no verdict without an attempt left to spend.
Verdict(a, n) ==
  /\ recovery = "idle"
  /\ a \in AtWork
  /\ n \in batch[a]
  /\ HasFailed(n)
  /\ attempts[n] > 0
  /\ attempts' = [attempts EXCEPT ![n] = @ - 1]
  /\ \/ Renew(n)
     \/ /\ \E v \in {"due", "later", "never"} :
             /\ verdict' = [verdict EXCEPT ![n] = v]
             /\ health' = [health EXCEPT ![n] = IF v = "never" THEN "needs_human" ELSE @]
        /\ held' = held \ {n}
        /\ Deal(n)
  /\ UNCHANGED <<agentVars, passVars>>

RecoverAtPasses(n) ==
  /\ recovery = "idle"
  /\ verdict[n] = "later"
  /\ verdict' = [verdict EXCEPT ![n] = "due"]
  /\ UNCHANGED <<health, attempts, held, dealt, agentVars, passVars>>

DelayPasses(n) ==
  /\ recovery = "idle"
  /\ n \in held
  /\ held' = held \ {n}
  /\ UNCHANGED <<health, attempts, verdict, dealt, agentVars, passVars>>

RecoveryAgentEnds(a) ==
  /\ a \in AtWork
  /\ process' = [process EXCEPT ![a] = "none"]
  /\ strays' = strays \ {a}
  /\ batch' = IF a \in strays THEN [batch EXCEPT ![a] = {}] ELSE batch
  /\ UNCHANGED <<nodeVars, open, passVars>>

\* The row's deadline passes.
RecoveryTimesOut(a) ==
  /\ a \in open
  /\ process[a] = "up"
  /\ process' = [process EXCEPT ![a] = "late"]
  /\ UNCHANGED <<nodeVars, open, batch, strays, passVars>>

RetryFailed(n) ==
  /\ health[n] \in {"errored", "needs_human"}
  /\ attempts' = [attempts EXCEPT ![n] = Allowance]
  /\ Renew(n)
  /\ UNCHANGED <<agentVars, passVars>>

\* Abort ends the newest open recovery session.
AbortRecovery ==
  /\ process' = [a \in RecoveryAgent |-> IF a \in open THEN "none" ELSE process[a]]
  /\ open' = {}
  /\ held' = held \cup ((UNION {batch[a] : a \in open}) \ dealt)
  /\ batch' = [a \in RecoveryAgent |-> IF a \in open THEN {} ELSE batch[a]]
  /\ dealt' = {}
  /\ UNCHANGED <<health, attempts, verdict, strays, passVars>>

RecoveryWorld ==
  \/ \E n \in Node : Fails(n) \/ RecoverAtPasses(n) \/ DelayPasses(n)
  \/ \E a \in RecoveryAgent : RecoveryAgentEnds(a) \/ RecoveryTimesOut(a)
  \/ \E a \in RecoveryAgent, n \in Node : Verdict(a, n)

=============================================================================
