---------------------------- MODULE WorksiteProofs ----------------------------
(***************************************************************************)
(* Proofs that the rows tell what is at work outside them, whenever the    *)
(* controller dies: which agents live, which worktrees are in place, and   *)
(* what an adopted node's agent finds in its own.                          *)
(***************************************************************************)
EXTENDS Worksite, TLAPS

TaskForm ==
  task \in [job : Job \cup {"none"}, step : Step \cup {"none"}, node : Node \cup {"none"},
            agent : 0 .. MaxAgents]

\* How far a task of each kind can be, and in which state its node is then: only
\* the task itself moves it, for it holds the run lock.
TaskInv ==
  LET n == task.node IN
  /\ task.job \in {"start", "import"} =>
       /\ task.step \in {"provision", "spawn", "save", "record"}
       /\ state[n] \in {"pending", "waiting"}
       /\ task.job = "start" /\ n \in Adopted => state[n] = "waiting"
  /\ task.job \in {"adopt", "handover"} =>
       \/ task.step \in {"provision", "rows"} /\ state[n] = "none"
       \/ task.job = "adopt" /\ task.step = "spawn" /\ state[n] = "none"
       \/ task.step \in {"save", "record"} /\ state[n] = "pending"
       \/ task.step = "append" /\ state[n] = Recorded(task.job)
  /\ task.job \in {"wake", "recover"} =>
       /\ task.step \in {"spawn", "save", "record"}
       /\ state[n] \in {"stopped", "resting"}
  /\ task.job = "settle" =>
       /\ task.step \in {"close", "record"}
       /\ state[n] = "in_progress" /\ latest[n] \notin alive
       /\ task.step = "record" /\ latest[n] # 0 => row[latest[n]] = "closed"
  /\ task.job = "reclaim" =>
       /\ task.step \in {"remove", "mark"}
       /\ state[n] = "merged"
       /\ task.step = "mark" => tree[n] \notin InPlace

\* The agent that a task has started, and how far its rows are.
StartedInv ==
  task.agent # 0 =>
    /\ home[task.agent] = task.node
    /\ task.job \in {"start", "import", "adopt", "wake", "recover"}
    /\ \/ task.step \in {"rows", "save"} /\ row[task.agent] = "none"
       \/ task.step \in {"record", "append"} /\ row[task.agent] = "open"
          /\ latest[task.node] = task.agent

\* An agent that works has a row that is not closed, unless its start was cut
\* short or is under way; an open row is that of its node's latest session.
SessionInv ==
  /\ alive \cup orphans \subseteq Started
  /\ \A a \in Agent : row[a] # "none" => a \in Started
  /\ \A a \in alive : row[a] # "closed"
  /\ \A a \in alive \ orphans : row[a] = "none" => task.agent = a
  /\ \A a \in Agent \ orphans : row[a] = "open" =>
       latest[home[a]] = a /\ (state[home[a]] = "in_progress" \/ task.agent = a)

\* What is reclaimed stays merged, and nothing is provisioned for it.
ReclaimInv ==
  \A n \in reclaimed \ Haunted : state[n] = "merged" /\ tree[n] \notin InPlace

\* Without an accident an adopted node that had a session, or rests, or is about
\* to have an agent, has its tree from the pull request.
HasHead(n) ==
  \/ latest[n] # 0 /\ state[n] # "merged"
  \/ state[n] \in {"waiting", "in_progress", "resting"}
  \/ task.node = n /\ task.step \in {"spawn", "rows", "save", "record"}

HeadInv ==
  accidents = 0 =>
    /\ orphans = {}
    /\ \A n \in Adopted : tree[n] \in {"absent", "head"} /\ (HasHead(n) => tree[n] = "head")

WorksiteInv ==
  TypeOK /\ TaskForm /\ TaskInv /\ StartedInv /\ SessionInv /\ ReclaimInv /\ HeadInv

-----------------------------------------------------------------------------
(* Tasks and types.                                                        *)

\* Going on to a step changes a task's step alone.
LEMMA GotoFields ==
  ASSUME TaskForm, NEW s \in Step, Goto(s)
  PROVE  /\ task'.step = s /\ task'.job = task.job /\ task'.node = task.node
         /\ task'.agent = task.agent /\ TaskForm'
BY DEF TaskForm, Goto

\* A task begins without an agent.
LEMMA BeginFields ==
  ASSUME NEW job \in Job, NEW s \in Step, NEW n \in Node, Begin(job, s, n)
  PROVE  task'.job = job /\ task'.step = s /\ task'.node = n /\ task'.agent = 0 /\ TaskForm'
BY WorksiteAssumption DEF TaskForm, Begin

\* Nobody at work has no node and no agent.
LEMMA IdleFields ==
  /\ Idle.job = "none" /\ Idle.step = "none" /\ Idle.node = "none" /\ Idle.agent = 0
  /\ Done => TaskForm'
BY WorksiteAssumption DEF TaskForm, Idle, Done

\* Whoever is at a step has a node.
LEMMA TaskHasNode ==
  ASSUME TypeOK, NEW s \in Step, At(s)
  PROVE  task.job \in Job /\ task.node \in Node /\ task.agent \in 0 .. MaxAgents
<1>1. task # Idle
  BY IdleFields DEF At, Step
<1> QED BY <1>1 DEF TypeOK

\* What begins a task changes nothing but the task, and counts the command.
Begins(n) ==
  \/ TakeUpPending(n) \/ TakeUpFinished(n) \/ TakeUpNews(n) \/ TakeUpMerged(n)
  \/ Adopt(n) \/ Recover(n)

\* What the world does to an agent, a pull request or a worktree.
Stirs(n) ==
  AgentExits(n) \/ AgentOpensPullRequest(n) \/ PersonEndsPullRequest(n) \/ DisturbTree(n) \/ ClearPath(n)

\* What the end of a pass, which is about the host job alone, does not touch.
otherVars == <<rowVars, worldVars, task, orphans, commands, accidents>>

\* A step is one of a task, of one who takes up a task, of the world, or a
\* command, or changes at most the host job.
LEMMA StepKinds ==
  [Next]_vars =>
    \/ TaskStep \/ Crash \/ RepairGraph \/ Abort \/ UNCHANGED otherVars
    \/ \E n \in Node : Begins(n) \/ KillOverdue(n) \/ RecordEnded(n) \/ Retry(n) \/ Stirs(n)
BY DEF Next, TakeUp, Begins, Stirs, Register, Conclude, EndsPass, otherVars, vars

\* What each task that is taken up finds its node in.
LEMMA BeginsTask ==
  ASSUME NEW n \in Node, Begins(n)
  PROVE  /\ task = Idle /\ task'.node = n /\ task'.agent = 0 /\ TaskForm'
         /\ \/ /\ task'.job \in {"start", "import"} /\ task'.step = "provision"
               /\ state[n] \in {"pending", "waiting"}
               /\ task'.job = "start" /\ n \in Adopted => state[n] = "waiting"
            \/ task'.job = "settle" /\ task'.step = "close" /\ state[n] = "in_progress"
               /\ latest[n] \notin alive
            \/ task'.job = "wake" /\ task'.step = "spawn" /\ state[n] = "resting"
            \/ task'.job = "reclaim" /\ task'.step = "remove" /\ state[n] = "merged"
            \/ task'.job \in {"adopt", "handover"} /\ task'.step = "provision" /\ state[n] = "none"
            \/ task'.job = "recover" /\ task'.step = "spawn" /\ state[n] \in {"stopped", "resting"}
               /\ latest[n] # 0
         /\ UNCHANGED <<rowVars, worldVars, orphans, accidents>>
         /\ commands' = commands \/ Command
<1> USE BeginFields DEF Job, Step, rowVars, worldVars, TakesUp
<1>1. CASE TakeUpPending(n)
  <2>1. PICK job \in {"start", "import"} :
          Begin(job, "provision", n) /\ (job = "start" /\ n \in Adopted => state[n] = "waiting")
    BY <1>1 DEF TakeUpPending
  <2> QED BY <1>1, <2>1 DEF TakeUpPending
<1>2. CASE TakeUpFinished(n)
  BY <1>2 DEF TakeUpFinished, HasEnded
<1>3. CASE TakeUpNews(n)
  BY <1>3 DEF TakeUpNews
<1>4. CASE TakeUpMerged(n)
  BY <1>4 DEF TakeUpMerged, ReclaimDue
<1>5. CASE Adopt(n)
  <2>1. PICK job \in {"adopt", "handover"} : Begin(job, "provision", n)
    BY <1>5 DEF Adopt
  <2> QED BY <1>5, <2>1 DEF Adopt, MayAdopt
<1>6. CASE Recover(n)
  BY <1>6 DEF Recover
<1> QED BY <1>1, <1>2, <1>3, <1>4, <1>5, <1>6 DEF Begins

\* A task that has its form, and is not idle, has a job and a node.
LEMMA FormIsType ==
  ASSUME TaskForm, task # Idle => task.job \in Job /\ task.step \in Step /\ task.node \in Node
  PROVE  \/ task = Idle
         \/ /\ task.job \in Job
            /\ task.step \in Step
            /\ task.node \in Node
            /\ task.agent \in 0 .. MaxAgents
BY DEF TaskForm

\* The task goes on with what it is about, or is over.
LEMMA TaskStepsOn ==
  ASSUME TypeOK, TaskForm, TaskStep
  PROVE  /\ task.job \in Job /\ task.step \in Step /\ task.node \in Node
         /\ TaskForm'
         /\ \/ task' = Idle
            \/ task'.job = task.job /\ task'.node = task.node /\ task'.step \in Step
<1>1. \E s \in Step : At(s)
  BY DEF TaskStep, Provision, ProvisionRefused, ProvisionFails, Provisioning, Spawn, SpawnFails, EnsureRow, Save,
         RecordWork, SettleFails, Close, RecordSettled, CloseToWait, Remove, RemoveFails, MarkReclaimed, Append, Step
<1>2. task.job \in Job /\ task.step \in Step /\ task.node \in Node
  BY <1>1, TaskHasNode DEF At
<1>3. CASE Spawn
  <2>1. PICK a \in Agent : task' = [task EXCEPT !.agent = a, !.step = IF task.job = "adopt" THEN "rows" ELSE "save"]
    BY <1>3 DEF Spawn
  <2>2. a \in 0 .. MaxAgents /\ (IF task.job = "adopt" THEN "rows" ELSE "save") \in Step
    BY WorksiteAssumption DEF Agent, Step
  <2> QED BY <1>2, <2>1, <2>2 DEF TaskForm
<1>4. CASE \E s \in Step : Goto(s)
  BY <1>2, <1>4, GotoFields
<1>5. CASE Done
  BY <1>2, <1>5, IdleFields DEF Done
<1> QED
  BY <1>2, <1>3, <1>4, <1>5
     DEF TaskStep, Provision, ProvisionRefused, ProvisionFails, AfterProvision, SpawnFails, EnsureRow, Save,
         RecordWork, SettleFails, Close, RecordSettled, CloseToWait, Remove, RemoveFails, MarkReclaimed, Append, Step

\* Every step leaves the task well typed.
LEMMA TaskTypesKept ==
  ASSUME TypeOK, TaskForm, [Next]_vars
  PROVE  /\ TaskForm'
         /\ task' = Idle \/ (task'.job \in Job /\ task'.step \in Step /\ task'.node \in Node)
<1>1. CASE TaskStep
  BY <1>1, TaskStepsOn
<1>2. CASE Crash
  BY <1>2, IdleFields DEF Crash, Done
<1>3. CASE UNCHANGED task
  BY <1>3 DEF TypeOK, TaskForm
<1>4. CASE \E n \in Node : Begins(n)
  BY <1>4, BeginsTask DEF Job, Step
<1>5. CASE \E n \in Node : KillOverdue(n)
  BY <1>5, BeginFields DEF KillOverdue, Job, Step
<1> QED
  BY <1>1, <1>2, <1>3, <1>4, <1>5, StepKinds
     DEF RepairGraph, Abort, otherVars, RecordEnded, Retry, Stirs, AgentExits, AgentOpensPullRequest,
         PersonEndsPullRequest, DisturbTree, ClearPath, World

\* What every step leaves well typed, but for the task and the latest sessions.
RowTypes ==
  /\ state \in [Node -> {"none", "pending", "waiting", "in_progress", "resting",
                         "stopped", "merged"}]
  /\ reclaimed \in SUBSET Node
  /\ row \in [Agent -> {"none", "open", "closed"}]
  /\ latest \in [Node -> 0 .. MaxAgents]

WorldTypes ==
  /\ named \in SUBSET Node
  /\ fileOk \in BOOLEAN
  /\ tree \in [Node -> Tree]
  /\ alive \in SUBSET Agent
  /\ DOMAIN home = Agent
  /\ \A a \in Agent : home[a] = "none" \/ home[a] \in Node
  /\ pr \in [Node -> {"none", "open", "merged", "closed"}]
  /\ orphans \in SUBSET Agent
  /\ commands \in 0 .. MaxCommands
  /\ accidents \in 0 .. MaxAccidents

\* And the rows of nodes and sessions.
LEMMA RowTypesKept ==
  ASSUME TypeOK, TaskForm, [Next]_vars
  PROVE  RowTypes'
<1>0. RowTypes
  BY DEF TypeOK, RowTypes
<1> USE <1>0 DEF RowTypes, rowVars, SetState
<1>1. CASE TaskStep
  <2>0. task.node \in Node /\ task.agent \in 0 .. MaxAgents
    BY <1>1, TaskStepsOn DEF TaskForm
  <2>1. CASE Provision \/ ProvisionFails \/ Spawn \/ SpawnFails \/ SettleFails \/ Remove \/ RemoveFails
             \/ Append
    BY <2>1 DEF Provision, ProvisionFails, Provisioning, Spawn, SpawnFails, SettleFails, Remove, RemoveFails, Append
  <2>2. CASE ProvisionRefused \/ EnsureRow \/ MarkReclaimed
    BY <2>0, <2>2 DEF ProvisionRefused, Provisioning, EnsureRow, MarkReclaimed
  <2>3. CASE Save
    BY <2>0, <2>3 DEF Save, Agent
  <2>4. CASE RecordWork \/ RecordSettled
    BY <2>0, <2>4 DEF RecordWork, RecordSettled, Recorded
  <2>5. CASE Close \/ CloseToWait
    BY <2>0, <2>5 DEF Close, CloseToWait, CloseSession
  <2> QED BY <1>1, <2>1, <2>2, <2>3, <2>4, <2>5 DEF TaskStep
<1>2. CASE Crash \/ RepairGraph \/ UNCHANGED otherVars
  BY <1>2 DEF Crash, RepairGraph, otherVars
<1>3. CASE Abort
  BY <1>3 DEF Abort
<1>4. CASE \E n \in Node : Begins(n)
  BY <1>4, BeginsTask
<1>5. CASE \E n \in Node : KillOverdue(n) \/ RecordEnded(n) \/ Retry(n)
  BY <1>5 DEF KillOverdue, RecordEnded, TakesUp, Retry
<1>6. CASE \E n \in Node : Stirs(n)
  BY <1>6 DEF Stirs, AgentExits, AgentOpensPullRequest, PersonEndsPullRequest, DisturbTree, ClearPath, World
<1> QED BY <1>1, <1>2, <1>3, <1>4, <1>5, <1>6, StepKinds

\* And what is outside the store: agents, trees, pull requests.
LEMMA WorldTypesKept ==
  ASSUME TypeOK, TaskForm, [Next]_vars
  PROVE  WorldTypes'
<1>0. /\ WorldTypes /\ MaxAgents \in Nat /\ MaxCommands \in Nat /\ MaxAccidents \in Nat
  BY WorksiteAssumption DEF TypeOK, WorldTypes
<1> USE <1>0 DEF WorldTypes, worldVars, Tree
<1>1. CASE TaskStep
  <2>0. task.node \in Node /\ task.agent \in 0 .. MaxAgents
    BY <1>1, TaskStepsOn DEF TaskForm
  <2>1. CASE SpawnFails \/ EnsureRow \/ Save \/ RecordWork \/ SettleFails \/ Close \/ RecordSettled
             \/ CloseToWait \/ MarkReclaimed
    BY <2>1 DEF SpawnFails, EnsureRow, Save, RecordWork, SettleFails, Close, RecordSettled, CloseToWait, MarkReclaimed
  <2>2. CASE Provision \/ ProvisionRefused \/ ProvisionFails
    BY <2>0, <2>2 DEF Provision, ProvisionRefused, ProvisionFails, Provisioning, OriginOf, Accident
  <2>3. CASE Spawn
    <3>1. PICK a \in Agent : home' = [home EXCEPT ![a] = task.node] /\ alive' = alive \cup {a}
      BY <2>3 DEF Spawn
    <3> QED BY <2>0, <2>3, <3>1 DEF Spawn
  <2>4. CASE Remove \/ RemoveFails
    BY <2>0, <2>4 DEF Remove, RemoveFails, Accident
  <2>5. CASE Append
    <3>1. UNCHANGED <<tree, alive, home, pr, orphans, commands>>
      BY <2>5 DEF Append
    <3>2. named' \in SUBSET Node /\ fileOk' \in BOOLEAN
      BY <2>0, <2>5 DEF Append
    <3>3. accidents' \in 0 .. MaxAccidents
      BY <2>5 DEF Append, Accident
    <3> QED BY <3>1, <3>2, <3>3
  <2> QED BY <1>1, <2>1, <2>2, <2>3, <2>4, <2>5 DEF TaskStep
<1>2. CASE Crash
  <2>1. task.agent = 0 \/ task.agent \in Agent
    <3>1. task.agent \in 0 .. MaxAgents
      BY DEF TaskForm
    <3> QED BY <3>1 DEF Agent
  <2>2. orphans' \in SUBSET Agent
    BY <1>2, <2>1 DEF Crash
  <2> QED BY <1>2, <2>2 DEF Crash, Accident
<1>3. CASE RepairGraph \/ Abort \/ UNCHANGED otherVars
  <2>1. CASE RepairGraph
    BY <2>1 DEF RepairGraph
  <2>2. CASE Abort
    BY <2>2 DEF Abort
  <2>3. CASE UNCHANGED otherVars
    BY <2>3 DEF otherVars
  <2> QED BY <1>3, <2>1, <2>2, <2>3
<1>4. CASE \E n \in Node : Begins(n)
  BY <1>4, BeginsTask DEF Command
<1>5. CASE \E n \in Node : KillOverdue(n) \/ RecordEnded(n) \/ Retry(n)
  BY <1>5 DEF KillOverdue, RecordEnded, TakesUp, Retry, Command
<1>6. CASE \E n \in Node : Stirs(n)
  <2> PICK n \in Node : Stirs(n)
    BY <1>6
  <2>1. CASE AgentExits(n) \/ AgentOpensPullRequest(n) \/ PersonEndsPullRequest(n)
    BY <2>1 DEF AgentExits, AgentOpensPullRequest, PersonEndsPullRequest, World
  <2>2. CASE DisturbTree(n) \/ ClearPath(n)
    BY <2>2 DEF DisturbTree, ClearPath, World, Accident
  <2> QED BY <2>1, <2>2 DEF Stirs
<1> QED BY <1>1, <1>2, <1>3, <1>4, <1>5, <1>6, StepKinds

\* The host job is there or it is not.
LEMMA HostJobTyped ==
  ASSUME TypeOK, [Next]_vars
  PROVE  hostJob' \in BOOLEAN
<1>1. hostJob \in BOOLEAN
  BY DEF TypeOK
<1>2. CASE TaskStep
  <2>1. CASE RecordWork
    BY <2>1 DEF RecordWork
  <2>2. CASE RemoveFails
    BY <1>1, <2>2 DEF RemoveFails
  <2>3. CASE UNCHANGED hostJob
    BY <1>1, <2>3
  <2> QED
    BY <1>2, <2>1, <2>2, <2>3
       DEF TaskStep, Provision, ProvisionRefused, ProvisionFails, Provisioning, Spawn, SpawnFails, EnsureRow, Save,
           SettleFails, Close, RecordSettled, CloseToWait, Remove, MarkReclaimed, Append
<1>3. CASE Abort \/ Register \/ Conclude \/ \E n \in Node : Retry(n)
  BY <1>3 DEF Abort, Register, Conclude, Retry
<1>4. CASE UNCHANGED hostJob
  BY <1>1, <1>4
<1>5. CASE \E n \in Node : TakeUp(n) \/ Adopt(n) \/ Recover(n)
  BY <1>4, <1>5
     DEF TakeUp, TakeUpPending, TakeUpFinished, KillOverdue, RecordEnded, TakeUpNews, TakeUpMerged, TakesUp, Adopt,
         Recover
<1>6. CASE \E n \in Node : Stirs(n)
  BY <1>4, <1>6 DEF Stirs, AgentExits, AgentOpensPullRequest, PersonEndsPullRequest, DisturbTree, ClearPath, World
<1>7. CASE Crash \/ RepairGraph \/ UNCHANGED vars
  BY <1>4, <1>7 DEF Crash, RepairGraph, vars
<1> QED BY <1>2, <1>3, <1>5, <1>6, <1>7 DEF Next, Stirs

-----------------------------------------------------------------------------
(* The task and its node.                                                  *)

\* An idle lock asks for nothing.
LEMMA IdleAsksNothing ==
  ASSUME task' = Idle
  PROVE  TaskInv' /\ StartedInv'
BY IdleFields DEF TaskInv, StartedInv

\* What the world does takes no row away and puts no tree in place.
LEMMA StirsLeaveRows ==
  ASSUME NEW n \in Node, Stirs(n), TypeOK
  PROVE  /\ UNCHANGED <<rowVars, named, fileOk, home, task, orphans, commands>>
         /\ alive' \subseteq alive
         /\ \A m \in Node : tree'[m] # tree[m] =>
              tree'[m] \notin InPlace /\ (accidents' # 0 \/ tree[m] = "foreign")
         /\ accidents' \in {accidents, accidents + 1}
<1>0. tree \in [Node -> Tree] /\ accidents \in Nat
  BY WorksiteAssumption DEF TypeOK
<1> USE <1>0 DEF World, Accident, InPlace
<1>1. CASE AgentExits(n)
  BY <1>1 DEF AgentExits
<1>2. CASE AgentOpensPullRequest(n) \/ PersonEndsPullRequest(n)
  BY <1>2 DEF AgentOpensPullRequest, PersonEndsPullRequest
<1>3. CASE DisturbTree(n)
  BY <1>3 DEF DisturbTree
<1>4. CASE ClearPath(n)
  BY <1>4 DEF ClearPath
<1> QED BY <1>1, <1>2, <1>3, <1>4 DEF Stirs

\* A task finds its node as it left it, step after step, for nobody else holds
\* the run lock.
LEMMA TasksKept ==
  ASSUME WorksiteInv, [Next]_vars
  PROVE  TaskInv'
<1>0. TypeOK /\ TaskForm /\ TaskInv /\ StartedInv /\ RowTypes /\ WorldTypes
  BY DEF WorksiteInv, TypeOK, RowTypes, WorldTypes
<1>1. CASE task' = Idle
  BY <1>1, IdleAsksNothing
<1>2. CASE TaskStep
  <2> DEFINE n == task.node
  <2>0. /\ n \in Node /\ task.job \in Job
        /\ task' = Idle \/ (task'.job = task.job /\ task'.node = n)
    BY <1>0, <1>2, TaskStepsOn
  <2>1. CASE Provision
    <3>1. task'.step = AfterProvision /\ UNCHANGED state
      BY <1>0, <2>1, GotoFields DEF Provision, AfterProvision, Step
    <3>2. task.step = "provision"
      BY <2>1 DEF Provision, Provisioning, At
    <3> QED BY <1>0, <1>1, <2>0, <3>1, <3>2 DEF TaskInv, AfterProvision
  <2>2. CASE Spawn
    <3>1. task'.step = IF task.job = "adopt" THEN "rows" ELSE "save"
      BY <1>0, <2>2 DEF Spawn, TaskForm
    <3>2. task.step = "spawn" /\ UNCHANGED state
      BY <2>2 DEF Spawn, At, rowVars
    <3> QED BY <1>0, <1>1, <2>0, <3>1, <3>2 DEF TaskInv
  <2>3. CASE EnsureRow
    <3>1. task'.step = "save" /\ task.step = "rows"
      BY <1>0, <2>3, GotoFields DEF EnsureRow, At, Step
    <3>2. state[n] = "none" => state'[n] = "pending"
      BY <1>0, <2>0, <2>3 DEF EnsureRow, SetState, RowTypes
    <3> QED BY <1>0, <1>1, <2>0, <3>1, <3>2 DEF TaskInv
  <2>4. CASE Save
    <3>1. task'.step = "record" /\ task.step = "save" /\ UNCHANGED state
      BY <1>0, <2>4, GotoFields DEF Save, At, Step
    <3> QED BY <1>0, <1>1, <2>0, <3>1 DEF TaskInv
  <2>5. CASE RecordWork /\ task' # Idle
    <3>1. task'.step = "append" /\ task.step = "record" /\ task.job \in {"adopt", "handover"}
      BY <1>0, <2>5, GotoFields DEF RecordWork, At, Step, Done
    <3>2. state'[n] = Recorded(task.job)
      BY <1>0, <2>0, <2>5 DEF RecordWork, SetState, RowTypes
    <3> QED BY <1>0, <2>0, <2>5, <3>1, <3>2 DEF TaskInv
  <2>6. CASE Close
    <3>1. /\ task'.step = "record" /\ task.step = "close" /\ UNCHANGED <<state, latest, alive>>
      BY <1>0, <2>6, GotoFields DEF Close, At, Step, worldVars
    <3>2. latest[n] # 0 => row'[latest[n]] = "closed"
      BY <1>0, <2>0, <2>6 DEF Close, CloseSession, RowTypes, Agent
    <3> QED BY <1>0, <1>1, <2>0, <3>1, <3>2 DEF TaskInv
  <2>7. CASE Remove /\ task' # Idle
    <3>1. task'.step = "mark" /\ task.step = "remove" /\ UNCHANGED state
      BY <1>0, <2>7, GotoFields DEF Remove, At, Step, Done, rowVars
    <3>2. tree'[n] \notin InPlace
      BY <1>0, <2>0, <2>7 DEF Remove, Done, WorldTypes, InPlace
    <3> QED BY <1>0, <2>0, <2>7, <3>1, <3>2 DEF TaskInv
  <2> QED
    BY <1>1, <1>2, <2>1, <2>2, <2>3, <2>4, <2>5, <2>6, <2>7
       DEF TaskStep, Done, ProvisionRefused, ProvisionFails, SpawnFails, SettleFails, RecordSettled,
           CloseToWait, RemoveFails, MarkReclaimed, Append
<1>3. CASE \E n \in Node : Begins(n)
  <2> PICK n \in Node : Begins(n)
    BY <1>3
  <2> QED BY BeginsTask DEF TaskInv, rowVars, worldVars
<1>4. CASE \E n \in Node : KillOverdue(n)
  <2> PICK n \in Node : KillOverdue(n)
    BY <1>4
  <2>1. task'.job = "settle" /\ task'.step = "close" /\ task'.node = n
    BY BeginFields DEF KillOverdue, Job, Step
  <2> QED BY <2>1 DEF KillOverdue, TaskInv
<1>5. CASE \E n \in Node : Stirs(n)
  <2>1. /\ UNCHANGED <<task, state, latest, row>> /\ alive' \subseteq alive
        /\ \A m \in Node : tree'[m] # tree[m] => tree'[m] \notin InPlace
    BY <1>0, <1>5, StirsLeaveRows DEF rowVars
  <2>2. task # Idle => task.node \in Node
    BY <1>0 DEF TypeOK
  <2> QED BY <1>0, <1>1, <2>1, <2>2 DEF TaskInv
<1>6. CASE Crash \/ RepairGraph \/ Abort \/ \E n \in Node : RecordEnded(n) \/ Retry(n)
  BY <1>1, <1>6 DEF Crash, Done, RepairGraph, Abort, RecordEnded, TakesUp, Retry
<1>7. CASE UNCHANGED otherVars
  BY <1>0, <1>7 DEF otherVars, rowVars, worldVars, TaskInv
<1> QED BY <1>2, <1>3, <1>4, <1>5, <1>6, <1>7, StepKinds

\* The agent a task started is recorded by that task next, or is an orphan when
\* it dies.
LEMMA StartsKept ==
  ASSUME WorksiteInv, [Next]_vars
  PROVE  StartedInv'
<1>0. /\ TypeOK /\ TaskForm /\ TaskInv /\ StartedInv /\ RowTypes /\ WorldTypes
      /\ \A a \in Agent : row[a] # "none" => a \in Started
      /\ task.agent = 0 \/ task.agent \in Agent
  <2>1. task.agent \in 0 .. MaxAgents
    BY DEF WorksiteInv, TaskForm
  <2> QED BY <2>1 DEF WorksiteInv, TypeOK, RowTypes, WorldTypes, SessionInv, Agent
<1>1. CASE task'.agent = 0
  BY <1>1 DEF StartedInv
<1>2. CASE TaskStep /\ task' # Idle
  <2>0. task.job \in Job /\ task.node \in Node
    BY <1>0, <1>2, TaskStepsOn
  <2>1. CASE Provision \/ EnsureRow
    <3>1. /\ task.step \in {"provision", "rows"} /\ task'.job = task.job /\ task'.agent = task.agent
          /\ task'.node = task.node
          /\ task.step = "rows" => task'.step = "save"
      BY <1>0, <2>1, GotoFields DEF Provision, Provisioning, EnsureRow, AfterProvision, At, Step
    <3>2. UNCHANGED <<home, row>>
      BY <2>1 DEF Provision, Provisioning, EnsureRow, worldVars
    <3> QED BY <1>0, <3>1, <3>2 DEF StartedInv
  <2>2. CASE Spawn
    <3>1. PICK a \in Agent \ Started :
            /\ home' = [home EXCEPT ![a] = task.node]
            /\ task' = [task EXCEPT !.agent = a, !.step = IF task.job = "adopt" THEN "rows" ELSE "save"]
      BY <2>2 DEF Spawn
    <3>2. /\ task'.agent = a /\ task'.node = task.node /\ task'.job = task.job
          /\ task'.step \in {"rows", "save"} /\ home'[a] = task.node
      BY <1>0, <3>1 DEF TaskForm, WorldTypes
    <3>3. row'[a] = "none" /\ task.step = "spawn"
      BY <1>0, <2>2 DEF Spawn, rowVars, At
    <3> QED BY <1>0, <2>0, <3>2, <3>3 DEF StartedInv, TaskInv, Job
  <2>3. CASE Save
    <3>1. /\ task.step = "save" /\ task'.step = "record" /\ task'.job = task.job
          /\ task'.agent = task.agent /\ task'.node = task.node /\ UNCHANGED home
      BY <1>0, <2>3, GotoFields DEF Save, At, Step, worldVars
    <3>2. task.agent # 0 => row'[task.agent] = "open" /\ latest'[task.node] = task.agent
      BY <1>0, <2>0, <2>3 DEF Save, RowTypes
    <3> QED BY <1>0, <3>1, <3>2 DEF StartedInv
  <2>4. CASE RecordWork
    <3>1. /\ task.step = "record" /\ task'.step = "append" /\ task'.job = task.job
          /\ task'.agent = task.agent /\ task'.node = task.node /\ UNCHANGED <<home, row, latest>>
      BY <1>0, <1>2, <2>4, GotoFields DEF RecordWork, At, Step, Done, worldVars
    <3> QED BY <1>0, <3>1 DEF StartedInv
  <2>5. CASE Close \/ Remove
    <3>1. task.step \in {"close", "remove"} /\ task'.agent = task.agent
      BY <1>0, <1>2, <2>5, GotoFields DEF Close, Remove, At, Step, Done
    <3> QED BY <1>0, <1>1, <3>1 DEF StartedInv
  <2> QED
    BY <1>2, <2>1, <2>2, <2>3, <2>4, <2>5
       DEF TaskStep, Done, ProvisionRefused, ProvisionFails, SpawnFails, SettleFails, RecordSettled,
           CloseToWait, RemoveFails, MarkReclaimed, Append
<1>3. CASE \E n \in Node : Begins(n) \/ KillOverdue(n)
  BY <1>1, <1>3, BeginsTask, BeginFields DEF KillOverdue, Job, Step
<1>4. CASE \E n \in Node : Stirs(n)
  BY <1>0, <1>4, StirsLeaveRows DEF StartedInv, rowVars
<1>5. CASE task' = Idle
  BY <1>5, IdleAsksNothing
<1>6. CASE UNCHANGED otherVars
  BY <1>0, <1>6 DEF otherVars, rowVars, worldVars, StartedInv
<1> QED
  BY <1>2, <1>3, <1>4, <1>5, <1>6, StepKinds
     DEF Crash, Done, RepairGraph, Abort, RecordEnded, TakesUp, Retry

\* Agents once started keep their home, and orphans are never forgotten.
LEMMA HomesKept ==
  ASSUME WorksiteInv, [Next]_vars
  PROVE  /\ Started \subseteq Started' /\ \A a \in Started : home'[a] = home[a]
         /\ orphans \subseteq orphans'
         /\ Haunted \subseteq Haunted'
<1>0. WorldTypes
  BY DEF WorksiteInv, TypeOK, WorldTypes
<1>1. orphans \subseteq orphans'
  <2>1. CASE \E n \in Node : Begins(n)
    BY <2>1, BeginsTask
  <2> QED
    BY <2>1, StepKinds
       DEF TaskStep, Provision, ProvisionRefused, ProvisionFails, Provisioning, Spawn, SpawnFails, EnsureRow, Save,
           RecordWork, SettleFails, Close, RecordSettled, CloseToWait, Remove, RemoveFails, MarkReclaimed, Append,
           Crash, RepairGraph, Abort, otherVars, KillOverdue, RecordEnded, TakesUp, Retry,
           Stirs, AgentExits, AgentOpensPullRequest, PersonEndsPullRequest, DisturbTree, ClearPath, World
<1>2. UNCHANGED home \/ Spawn
  <2>1. CASE \E n \in Node : Begins(n)
    BY <2>1, BeginsTask DEF worldVars
  <2> QED
    BY <2>1, StepKinds
       DEF TaskStep, Provision, ProvisionRefused, ProvisionFails, Provisioning, SpawnFails, EnsureRow, Save,
           RecordWork, SettleFails, Close, RecordSettled, CloseToWait, Remove, RemoveFails, MarkReclaimed, Append,
           Crash, RepairGraph, Abort, otherVars, KillOverdue, RecordEnded, TakeUpNews, TakesUp, Retry,
           Stirs, AgentExits, AgentOpensPullRequest, PersonEndsPullRequest, DisturbTree, ClearPath, World,
           worldVars
<1>3. Started \subseteq Started' /\ \A a \in Started : home'[a] = home[a]
  <2>1. CASE Spawn
    <3>1. PICK a \in Agent \ Started : home' = [home EXCEPT ![a] = task.node]
      BY <2>1 DEF Spawn
    <3> QED BY <1>0, <3>1 DEF WorldTypes, Started
  <2> QED BY <1>2, <2>1 DEF Started
<1>4. orphans \subseteq Started
  BY DEF WorksiteInv, SessionInv
<1> QED BY <1>1, <1>3, <1>4 DEF Haunted

-----------------------------------------------------------------------------
(* Agents and their sessions.                                              *)

\* A step that changes no agent, no session and not the state of a node at work
\* leaves the sessions in order.
LEMMA SessionsUntouched ==
  ASSUME WorksiteInv, [Next]_vars, UNCHANGED <<row, latest, alive, home, orphans>>,
         \A n \in Node : state[n] = "in_progress" => state'[n] = "in_progress",
         \A a \in Agent : task.agent = a =>
           task'.agent = a \/ (row[a] = "open" /\ state'[home[a]] = "in_progress")
  PROVE  SessionInv'
<1>1. SessionInv /\ \A a \in Started : home[a] \in Node
  BY DEF WorksiteInv, TypeOK, Started
<1> QED BY <1>1 DEF SessionInv, Started

\* A session that is closed is that of an agent which has ended, its node's latest;
\* the node may leave the state of work then.
LEMMA SessionsClosed ==
  ASSUME WorksiteInv, [Next]_vars, NEW n \in Node,
         \A a \in Agent : a # latest[n] => row'[a] = row[a],
         \A a \in Agent : a = latest[n] => row'[a] # "open" /\ (row'[a] # "none" => row[a] # "none"),
         alive' = alive \ {latest[n]}, UNCHANGED <<latest, home, orphans>>,
         \A m \in Node \ {n} : state'[m] = state[m],
         task.agent = 0
  PROVE  SessionInv'
<1>0. SessionInv /\ 0 \notin Agent /\ alive \subseteq Agent
  BY WorksiteAssumption DEF WorksiteInv, TypeOK, Agent
<1>1. UNCHANGED Started
  BY DEF Started
<1>2. \A a \in Started : a \in Agent /\ home[a] \in Node
  BY DEF WorksiteInv, TypeOK, Started
<1>3. \A a \in Agent : row'[a] # "none" => a \in Started'
  BY <1>0, <1>1 DEF SessionInv
<1>4. \A a \in alive' : row'[a] # "closed" /\ (a \notin orphans => row'[a] # "none")
  BY <1>0 DEF SessionInv
<1>5. \A a \in Agent \ orphans : row'[a] = "open" => latest[home[a]] = a /\ state'[home[a]] = "in_progress"
  <2> SUFFICES ASSUME NEW a \in Agent \ orphans, row'[a] = "open"
               PROVE  latest[home[a]] = a /\ state'[home[a]] = "in_progress"
    OBVIOUS
  <2>1. a # latest[n] /\ row[a] = "open" /\ a # 0
    BY <1>0
  <2>2. latest[home[a]] = a /\ state[home[a]] = "in_progress" /\ home[a] \in Node
    BY <1>0, <1>2, <2>1 DEF SessionInv
  <2> QED BY <2>1, <2>2
<1>6. alive' \cup orphans' \subseteq Started'
  BY <1>0, <1>1 DEF SessionInv
<1> QED BY <1>3, <1>4, <1>5, <1>6 DEF SessionInv

\* A session's row is open as long as its agent works, and the open row is the
\* latest of its node (AgentSessionKiller, _close_session).
LEMMA SessionsKept ==
  ASSUME WorksiteInv, [Next]_vars
  PROVE  SessionInv'
<1>0. /\ TypeOK /\ TaskForm /\ TaskInv /\ StartedInv /\ SessionInv /\ RowTypes /\ WorldTypes
      /\ 0 \notin Agent /\ "none" \notin Node
      /\ task.agent = 0 \/ task.agent \in Agent
      /\ Started \subseteq Started' /\ \A a \in Started : home'[a] = home[a] /\ home[a] \in Node
  <2>1. task.agent \in 0 .. MaxAgents
    BY DEF WorksiteInv, TaskForm
  <2>2. \A a \in Started : home[a] \in Node
    BY DEF WorksiteInv, TypeOK, Started
  <2> QED
    BY <2>1, <2>2, HomesKept, WorksiteAssumption DEF WorksiteInv, TypeOK, RowTypes, WorldTypes, Agent, Node
<1>1. CASE TaskStep
  <2> DEFINE n == task.node
  <2>0. task.job \in Job /\ n \in Node
    BY <1>0, <1>1, TaskStepsOn
  <2>1. CASE Provision \/ ProvisionFails \/ SpawnFails \/ SettleFails \/ Remove \/ RemoveFails
             \/ MarkReclaimed
    <3>1. UNCHANGED <<state, row, latest, alive, home, orphans>>
      BY <2>1 DEF Provision, ProvisionFails, Provisioning, SpawnFails, SettleFails, Remove,
                  RemoveFails, MarkReclaimed, rowVars, worldVars
    <3>2. task.agent = 0
      BY <1>0, <2>1 DEF StartedInv, At, Provision, ProvisionFails, Provisioning, SpawnFails, SettleFails, Remove,
                        RemoveFails, MarkReclaimed
    <3> QED BY <1>0, <3>1, <3>2, SessionsUntouched
  <2>2. CASE ProvisionRefused
    <3>1. /\ UNCHANGED <<row, latest, alive, home, orphans>> /\ task.agent = 0
          /\ task.job \in {"start", "import"} \/ UNCHANGED state
          /\ \A m \in Node \ {n} : state'[m] = state[m]
      BY <1>0, <2>0, <2>2 DEF ProvisionRefused, Provisioning, SetState, StartedInv, At, RowTypes
    <3> QED BY <1>0, <2>0, <3>1, SessionsUntouched DEF TaskInv
  <2>3. CASE Spawn
    <3>1. PICK b \in Agent \ Started :
            /\ home' = [home EXCEPT ![b] = n] /\ alive' = alive \cup {b}
            /\ task' = [task EXCEPT !.agent = b, !.step = IF task.job = "adopt" THEN "rows" ELSE "save"]
      BY <2>3 DEF Spawn
    <3>2. task'.agent = b /\ task.agent = 0 /\ b \in Started' /\ row[b] = "none"
      BY <1>0, <2>0, <2>3, <3>1 DEF TaskForm, WorldTypes, Started, StartedInv, Spawn, At, SessionInv
    <3>3. UNCHANGED <<state, row, latest, orphans>>
      BY <2>3 DEF Spawn, rowVars
    <3>4. \A a \in Agent \ {b} : home'[a] = home[a]
      BY <1>0, <3>1 DEF WorldTypes
    <3>5. \A a \in Agent \ orphans : row[a] = "open" =>
            latest[home'[a]] = a /\ state[home'[a]] = "in_progress"
      BY <1>0, <3>2, <3>4 DEF SessionInv
    <3>6. \A a \in alive' : row[a] # "closed" /\ (a \notin orphans /\ row[a] = "none" => a = b)
      <4> SUFFICES ASSUME NEW a \in alive', a # b
                   PROVE  row[a] # "closed" /\ (a \notin orphans => row[a] # "none")
        BY <3>2
      <4>1. a \in alive /\ a # task.agent
        BY <1>0, <3>1, <3>2 DEF WorldTypes
      <4> QED BY <1>0, <4>1 DEF SessionInv
    <3>7. alive' \cup orphans' \subseteq Started' /\ \A a \in Agent : row'[a] # "none" => a \in Started'
      BY <1>0, <3>1, <3>2, <3>3 DEF SessionInv
    <3> QED BY <3>2, <3>3, <3>5, <3>6, <3>7 DEF SessionInv
  <2>4. CASE EnsureRow
    <3>1. /\ UNCHANGED <<row, latest, alive, home, orphans>> /\ task'.agent = task.agent
          /\ \A m \in Node : state[m] = "in_progress" => state'[m] = "in_progress"
      BY <1>0, <2>0, <2>4, GotoFields DEF EnsureRow, worldVars, SetState, RowTypes, Step
    <3> QED BY <3>1, SessionsUntouched
  <2>5. CASE Save
    <3>1. UNCHANGED <<state, alive, home, orphans>> /\ task'.agent = task.agent /\ task.step = "save"
      BY <1>0, <2>5, GotoFields DEF Save, worldVars, Step, At
    <3>2. CASE task.agent = 0
      BY <2>5, <3>1, <3>2, SessionsUntouched DEF Save
    <3>3. CASE task.agent # 0
      <4>1. /\ row' = [row EXCEPT ![task.agent] = "open"] /\ latest' = [latest EXCEPT ![n] = task.agent]
            /\ home[task.agent] = n /\ task.agent \in Started /\ state[n] # "in_progress"
            /\ task.agent \in Agent
        BY <1>0, <2>0, <2>5, <3>1, <3>3 DEF Save, StartedInv, Started, TaskInv, Job
      <4> QED BY <1>0, <2>0, <3>1, <4>1 DEF SessionInv, RowTypes
    <3> QED BY <3>2, <3>3
  <2>6. CASE RecordWork
    <3>1. /\ UNCHANGED <<row, latest, alive, home, orphans>> /\ task.step = "record" /\ task.job # "settle"
          /\ state' = [state EXCEPT ![n] = Recorded(task.job)] /\ state[n] # "in_progress"
      BY <1>0, <2>0, <2>6 DEF RecordWork, worldVars, SetState, At, TaskInv, Job
    <3>2. task.agent # 0 => row[task.agent] = "open" /\ home[task.agent] = n /\ state'[n] = "in_progress"
      BY <1>0, <2>0, <3>1 DEF StartedInv, Recorded, RowTypes
    <3> QED BY <1>0, <2>0, <3>1, <3>2, SessionsUntouched DEF RowTypes
  <2>7. CASE Close \/ CloseToWait
    <3>1. /\ row' = [row EXCEPT ![latest[n]] = "closed"] /\ UNCHANGED <<latest, alive, home, orphans>>
          /\ task.step = "close" /\ \A m \in Node \ {n} : state'[m] = state[m]
      BY <1>0, <2>0, <2>7 DEF Close, CloseToWait, CloseSession, worldVars, At, SetState, RowTypes
    <3>2. task.agent = 0 /\ latest[n] \notin alive
      BY <1>0, <2>0, <3>1 DEF StartedInv, TaskInv, Job
    <3>3. alive' = alive \ {latest[n]}
      BY <3>1, <3>2
    <3>4. latest[n] = 0 \/ row[latest[n]] # "none"
      BY <1>0, <2>0 DEF TypeOK
    <3>5. /\ \A a \in Agent : a # latest[n] => row'[a] = row[a]
          /\ \A a \in Agent : a = latest[n] => row'[a] = "closed" /\ row[a] # "none"
      BY <1>0, <3>1, <3>4 DEF RowTypes
    <3> QED BY <2>0, <3>1, <3>2, <3>3, <3>5, SessionsClosed
  <2>8. CASE RecordSettled
    <3>1. /\ UNCHANGED <<row, latest, alive, home, orphans>> /\ task.agent = 0
          /\ latest[n] # 0 => row[latest[n]] = "closed"
          /\ latest[n] \notin alive
          /\ \A m \in Node \ {n} : state'[m] = state[m]
      BY <1>0, <2>0, <2>8 DEF RecordSettled, worldVars, At, SetState, RowTypes, StartedInv, TaskInv
    <3>2. alive' = alive \ {latest[n]} /\ \A a \in Agent : a = latest[n] => row[a] = "closed"
      BY <1>0, <3>1
    <3> QED BY <2>0, <3>1, <3>2, SessionsClosed
  <2>9. CASE Append
    <3>1. UNCHANGED <<state, row, latest, alive, home, orphans>> /\ task.step = "append"
      BY <2>9 DEF Append, rowVars, At
    <3>2. task.agent # 0 => row[task.agent] = "open" /\ state[home[task.agent]] = "in_progress"
      BY <1>0, <2>0, <3>1 DEF StartedInv, TaskInv, Recorded
    <3> QED BY <1>0, <3>1, <3>2, SessionsUntouched
  <2> QED BY <1>1, <2>1, <2>2, <2>3, <2>4, <2>5, <2>6, <2>7, <2>8, <2>9 DEF TaskStep
<1>2. CASE Crash
  <2>1. UNCHANGED <<state, row, latest, alive, home>> /\ task # Idle /\ task'.agent = 0
    BY <1>2, IdleFields DEF Crash, Done, rowVars, worldVars
  <2>2. CASE task.agent # 0 /\ task.step # "append"
    <3>1. orphans' = orphans \cup {task.agent} /\ task.agent \in Started
      BY <1>0, <1>2, <2>1, <2>2 DEF Crash, StartedInv, Started, TypeOK
    <3> QED BY <1>0, <2>1, <2>2, <3>1 DEF SessionInv, Started
  <2>3. CASE task.agent = 0 \/ task.step = "append"
    <3>1. UNCHANGED orphans
      BY <1>2, <2>3 DEF Crash
    <3>2. task.agent # 0 => row[task.agent] = "open" /\ state[home[task.agent]] = "in_progress"
      BY <1>0, <2>1, <2>3 DEF StartedInv, TaskInv, Recorded, TypeOK
    <3> QED BY <1>0, <2>1, <3>1, <3>2, SessionsUntouched
  <2> QED BY <2>2, <2>3
<1>3. CASE Abort
  <2>1. /\ alive' = alive \ OpenSessions /\ UNCHANGED <<latest, home, task, orphans>>
        /\ row' = [a \in Agent |-> IF a \in OpenSessions THEN "closed" ELSE row[a]]
    BY <1>3 DEF Abort
  <2> QED BY <1>0, <2>1 DEF SessionInv, OpenSessions, RowTypes, Started
<1>4. CASE \E n \in Node : Begins(n)
  <2>1. UNCHANGED <<state, row, latest, alive, home, orphans>> /\ task.agent = 0
    BY <1>4, BeginsTask, IdleFields DEF rowVars, worldVars
  <2> QED BY <1>0, <2>1, SessionsUntouched
<1>5. CASE \E n \in Node : KillOverdue(n)
  <2> PICK n \in Node : KillOverdue(n)
    BY <1>5
  <2>1. /\ alive' = alive \ {latest[n]} /\ row' = [row EXCEPT ![latest[n]] = "closed"]
        /\ UNCHANGED <<state, latest, home, orphans>> /\ task.agent = 0 /\ latest[n] \in alive
    BY IdleFields DEF KillOverdue
  <2>2. latest[n] \in Agent /\ row[latest[n]] # "none"
    BY <1>0, <2>1 DEF TypeOK
  <2>3. /\ \A a \in Agent : a # latest[n] => row'[a] = row[a]
        /\ \A a \in Agent : a = latest[n] => row'[a] = "closed" /\ row[a] # "none"
    BY <1>0, <2>1, <2>2 DEF RowTypes
  <2> QED BY <2>1, <2>3, SessionsClosed
<1>6. CASE \E n \in Node : RecordEnded(n) \/ Retry(n)
  <2> PICK n \in Node : RecordEnded(n) \/ Retry(n)
    BY <1>6
  <2>1. /\ UNCHANGED <<row, latest, alive, home, orphans, task>>
        /\ state[n] # "in_progress" /\ \A m \in Node \ {n} : state'[m] = state[m]
    BY <1>0 DEF RecordEnded, TakesUp, Retry, MayRetry, SetState, RowTypes, worldVars
  <2> QED BY <2>1, SessionsUntouched
<1>7. CASE \E n \in Node : Stirs(n)
  <2>1. UNCHANGED <<row, latest, home, orphans, task, state>> /\ alive' \subseteq alive
    BY <1>0, <1>7, StirsLeaveRows DEF rowVars
  <2> QED BY <1>0, <2>1 DEF SessionInv, Started
<1>8. CASE RepairGraph \/ UNCHANGED otherVars
  BY <1>8, SessionsUntouched DEF RepairGraph, otherVars, rowVars, worldVars
<1> QED BY <1>1, <1>2, <1>3, <1>4, <1>5, <1>6, <1>7, <1>8, StepKinds

-----------------------------------------------------------------------------
(* Merged nodes and their worktrees.                                       *)

\* The types the next lemmas rest on.
LEMMA TypesOfInv ==
  ASSUME WorksiteInv
  PROVE  /\ TypeOK /\ TaskForm /\ TaskInv /\ StartedInv /\ SessionInv /\ ReclaimInv /\ HeadInv
         /\ RowTypes /\ WorldTypes
         /\ \A s \in Step : At(s) => task.job \in Job /\ task.node \in Node
         /\ 0 \notin Agent /\ accidents \in Nat
BY TaskHasNode, WorksiteAssumption DEF WorksiteInv, TypeOK, RowTypes, WorldTypes, Agent

\* Only abort takes a merged node back, where it finds the row of a lost agent.
LEMMA MergedKept ==
  ASSUME WorksiteInv, [Next]_vars, NEW n \in Node \ Haunted, state[n] = "merged"
  PROVE  state'[n] = "merged"
<1>0. USE TypesOfInv DEF RowTypes, SetState
<1>1. CASE TaskStep
  <2>1. CASE Provision \/ ProvisionFails \/ Spawn \/ SpawnFails \/ Save \/ SettleFails \/ Close \/ Remove
             \/ RemoveFails \/ MarkReclaimed \/ Append
    BY <2>1 DEF Provision, ProvisionFails, Spawn, SpawnFails, Save, SettleFails, Close, Remove,
                RemoveFails, MarkReclaimed, Append, rowVars
  <2>2. CASE ProvisionRefused
    <3>1. task.node \in Node /\ task.step = "provision" /\ task.job \in Job
      BY <2>2 DEF ProvisionRefused, Provisioning, At, Step
    <3>2. state[task.node] # "merged"
      BY <3>1 DEF TaskInv, Job
    <3> QED BY <2>2, <3>1, <3>2 DEF ProvisionRefused
  <2>3. CASE EnsureRow
    BY <2>3 DEF EnsureRow, Step
  <2>4. CASE RecordWork \/ RecordSettled
    <3>1. task.node \in Node /\ task.step = "record" /\ task.job \in Job
      BY <2>4 DEF RecordWork, RecordSettled, At, Step
    <3>2. state[task.node] # "merged"
      BY <3>1 DEF TaskInv, Job
    <3> QED BY <2>4, <3>1, <3>2 DEF RecordWork, RecordSettled
  <2>5. CASE CloseToWait
    <3>1. task.node \in Node /\ task.step = "close" /\ task.job \in Job
      BY <2>5 DEF CloseToWait, At, Step
    <3>2. state[task.node] # "merged"
      BY <3>1 DEF TaskInv, Job
    <3> QED BY <2>5, <3>1, <3>2 DEF CloseToWait
  <2> QED BY <1>1, <2>1, <2>2, <2>3, <2>4, <2>5 DEF TaskStep
<1>2. CASE Abort
  <2>1. \A a \in OpenSessions : home[a] # n
    <3> SUFFICES ASSUME NEW a \in OpenSessions, home[a] = n
                 PROVE  FALSE
      OBVIOUS
    <3>1. a \in Agent /\ row[a] = "open" /\ a # 0
      BY DEF OpenSessions
    <3>2. a \notin orphans
      BY DEF Haunted
    <3>3. task.agent = 0
      BY <1>2, IdleFields DEF Abort
    <3> QED BY <3>1, <3>2, <3>3 DEF SessionInv
  <2> QED BY <1>2, <2>1 DEF Abort
<1>3. CASE \E m \in Node : Begins(m)
  BY <1>3, BeginsTask DEF rowVars
<1>4. CASE \E m \in Node : KillOverdue(m) \/ RecordEnded(m) \/ Retry(m)
  BY <1>4 DEF KillOverdue, RecordEnded, Retry, MayRetry
<1>5. CASE \E m \in Node : Stirs(m)
  BY <1>5, StirsLeaveRows DEF rowVars
<1> QED BY <1>1, <1>2, <1>3, <1>4, <1>5, StepKinds DEF Crash, RepairGraph, otherVars, rowVars

\* A worktree comes to a node that waits for its start, or that adopt has not
\* named yet; it goes from a merged one, with no agent of its own about.
LEMMA TreesMove ==
  ASSUME WorksiteInv, [Next]_vars, NEW n \in Node, tree'[n] # tree[n]
  PROVE  \/ /\ Provision \/ ProvisionFails
            /\ n = task.node /\ state[n] \in {"none", "pending", "waiting"}
            /\ UNCHANGED <<state, latest, reclaimed>>
         \/ Remove /\ n = task.node /\ state[n] = "merged" /\ task.job = "reclaim" /\ tree'[n] = "absent"
         \/ (\E m \in Node : Stirs(m)) /\ tree'[n] \notin InPlace
<1>0. USE TypesOfInv DEF WorldTypes
<1>1. CASE Provision \/ ProvisionFails
  <2>1. task.node \in Node /\ task.step = "provision" /\ task.job \in Job
    BY <1>1 DEF Provision, ProvisionFails, Provisioning, At, Step
  <2>2. n = task.node /\ UNCHANGED <<state, latest, reclaimed>>
    BY <1>1, <2>1 DEF Provision, ProvisionFails, Provisioning
  <2> QED BY <1>1, <2>1, <2>2 DEF TaskInv, Job
<1>2. CASE Remove
  <2>1. task.node \in Node /\ task.step = "remove" /\ task.job \in Job
    BY <1>2 DEF Remove, At, Step
  <2>2. n = task.node /\ tree'[n] = "absent"
    BY <1>2, <2>1 DEF Remove
  <2> QED BY <1>2, <2>1, <2>2 DEF TaskInv, Job
<1>3. CASE \E m \in Node : Stirs(m)
  BY <1>3, StirsLeaveRows
<1>4. CASE \E m \in Node : Begins(m)
  BY <1>4, BeginsTask DEF worldVars
<1> QED
  BY <1>1, <1>2, <1>3, <1>4, StepKinds
     DEF TaskStep, ProvisionRefused, Spawn, SpawnFails, EnsureRow, Save, RecordWork, SettleFails, Close,
         RecordSettled, CloseToWait, RemoveFails, MarkReclaimed, Append, Crash, RepairGraph, Abort, otherVars,
         worldVars,
         KillOverdue, RecordEnded, TakesUp, Retry

\* A tree that was reclaimed is not put in place again
\* (MergedNodeHandler).
LEMMA ReclaimsKept ==
  ASSUME WorksiteInv, [Next]_vars
  PROVE  ReclaimInv'
<1> SUFFICES ASSUME NEW n \in Node, n \in reclaimed', n \notin Haunted'
             PROVE  state'[n] = "merged" /\ tree'[n] \notin InPlace
  BY RowTypesKept, TypesOfInv DEF ReclaimInv, RowTypes
<1>2. n \notin Haunted
  BY HomesKept
<1>3. state[n] = "merged" /\ tree[n] \notin InPlace
  <2>1. CASE n \in reclaimed
    BY <1>2, <2>1, TypesOfInv DEF ReclaimInv
  <2>2. CASE n \notin reclaimed
    <3>1. MarkReclaimed
      <4>1. CASE \E m \in Node : Begins(m)
        BY <2>2, <4>1, BeginsTask DEF rowVars
      <4> QED
        BY <2>2, <4>1, StepKinds
           DEF TaskStep, Provision, ProvisionRefused, ProvisionFails, Provisioning, Spawn, SpawnFails, EnsureRow,
               Save, RecordWork, SettleFails, Close, RecordSettled, CloseToWait, Remove, RemoveFails, Append, Crash,
               RepairGraph, Abort, otherVars, rowVars, KillOverdue, RecordEnded, TakesUp, Retry, Stirs, AgentExits,
               AgentOpensPullRequest, PersonEndsPullRequest, DisturbTree, ClearPath, World
    <3>2. n = task.node /\ task.step = "mark" /\ task.job \in Job
      BY <2>2, <3>1, TypesOfInv DEF MarkReclaimed, At, Step
    <3> QED BY <3>2, TypesOfInv DEF TaskInv, Job
  <2> QED BY <2>1, <2>2
<1>4. state'[n] = "merged"
  BY <1>2, <1>3, MergedKept
<1>5. tree'[n] \notin InPlace
  BY <1>3, TreesMove DEF InPlace
<1> QED BY <1>4, <1>5

-----------------------------------------------------------------------------
(* What an adopted node's agent finds.                                     *)

\* Accidents are counted, and nothing that is not one leaves an orphan behind.
LEMMA AccidentsCounted ==
  ASSUME WorksiteInv, [Next]_vars, accidents' = 0
  PROVE  /\ accidents = 0 /\ orphans = {} /\ orphans' = {} /\ Haunted = {}
         /\ ~Crash /\ ~ProvisionFails
<1>0. accidents \in Nat
  BY TypesOfInv
<1>1. ~Accident
  BY <1>0 DEF Accident
<1>2. ~Crash /\ ~ProvisionFails
  BY <1>1 DEF Crash, ProvisionFails
<1>3. UNCHANGED <<accidents, orphans>>
  <2>1. CASE \E n \in Node : Begins(n)
    BY <2>1, BeginsTask
  <2> QED
    BY <1>1, <1>2, <2>1, StepKinds
       DEF TaskStep, Provision, ProvisionRefused, Provisioning, Spawn, SpawnFails, EnsureRow, Save, RecordWork,
           SettleFails, Close, RecordSettled, CloseToWait, Remove, RemoveFails, MarkReclaimed, Append,
           RepairGraph, Abort, otherVars,
           KillOverdue, RecordEnded, TakesUp, Retry, Stirs, AgentExits, AgentOpensPullRequest,
           PersonEndsPullRequest, DisturbTree, ClearPath, World
<1>4. accidents = 0 /\ orphans = {}
  BY <1>3, TypesOfInv DEF HeadInv
<1> QED BY <1>2, <1>3, <1>4 DEF Haunted

\* Where no accident has happened, a worktree of an adopted node is put in place
\* from its pull request, and is gone only once the node is merged.
LEMMA HeadsInPlace ==
  ASSUME WorksiteInv, [Next]_vars, accidents' = 0, NEW n \in Adopted
  PROVE  /\ tree'[n] \in {"absent", "head"}
         /\ tree'[n] = tree[n] \/ tree'[n] = "head"
            \/ (Remove /\ n = task.node /\ state[n] = "merged")
         /\ Provision /\ n = task.node => tree'[n] = "head"
<1>0. /\ n \in Node /\ tree[n] \in {"absent", "head"} /\ (HasHead(n) => tree[n] = "head")
      /\ tree \in [Node -> Tree]
  BY AccidentsCounted, TypesOfInv DEF HeadInv, Node, WorldTypes
<1>1. Provision /\ n = task.node => tree'[n] = "head"
  <2> SUFFICES ASSUME Provision, n = task.node
               PROVE  tree'[n] = "head"
    OBVIOUS
  <2>1. task.step = "provision" /\ task.job \in Job
    BY TypesOfInv DEF Provision, Provisioning, At, Step
  <2>2. task.job \in {"start", "import", "adopt", "handover"}
    BY <2>1, TypesOfInv DEF TaskInv, Job
  <2>3. task.job = "start" => tree[n] = "head"
    BY <1>0, TypesOfInv DEF TaskInv, HasHead
  <2> QED BY <1>0, <2>2, <2>3 DEF Provision, OriginOf, InPlace
<1>2. tree'[n] # tree[n] =>
        tree'[n] = "head" \/ (Remove /\ n = task.node /\ state[n] = "merged" /\ tree'[n] = "absent")
  <2> SUFFICES ASSUME tree'[n] # tree[n]
               PROVE  tree'[n] = "head" \/ (Remove /\ n = task.node /\ state[n] = "merged" /\ tree'[n] = "absent")
    OBVIOUS
  <2>1. ~\E m \in Node : Stirs(m)
    BY <1>0, StirsLeaveRows, TypesOfInv
  <2> QED BY <1>0, <1>1, <2>1, AccidentsCounted, TreesMove
<1> QED BY <1>0, <1>1, <1>2

\* A node gets a session, or goes to work, only from where its worktree is due.
LEMMA HeadsWereDue ==
  ASSUME WorksiteInv, [Next]_vars, accidents' = 0, NEW n \in Node, HasHead(n)'
  PROVE  HasHead(n) \/ (Provision /\ n = task.node)
<1> USE TypesOfInv DEF RowTypes, SetState
<1>0. \A m \in Node : state[m] = "merged" => state'[m] = "merged"
  BY AccidentsCounted, MergedKept
<1>1. CASE TaskStep
  <2>0. task.node \in Node /\ (task' = Idle \/ task'.node = task.node)
    BY <1>1, TaskStepsOn
  <2>1. CASE UNCHANGED <<state, latest>> /\ task' = Idle
    BY <2>1, IdleFields DEF HasHead
  <2>2. CASE Provision
    BY <2>0, <2>2, IdleFields DEF Provision, Provisioning, HasHead
  <2>3. CASE ProvisionRefused
    <3>1. task' = Idle /\ UNCHANGED latest /\ (UNCHANGED state \/ state' = [state EXCEPT ![task.node] = "stopped"])
      BY <2>3 DEF ProvisionRefused, Provisioning, Done
    <3> QED BY <1>0, <2>0, <3>1, IdleFields DEF HasHead
  <2>4. CASE Spawn \/ EnsureRow
    <3>1. At("spawn") \/ At("rows")
      BY <2>4 DEF Spawn, EnsureRow
    <3>2. UNCHANGED latest /\ \A m \in Node : m # task.node => state'[m] = state[m]
      BY <2>0, <2>4 DEF Spawn, EnsureRow, rowVars
    <3> QED BY <2>0, <3>1, <3>2, IdleFields DEF HasHead, At
  <2>5. CASE Save \/ RecordWork \/ RecordSettled
    <3>1. task.step \in {"save", "record"}
      BY <2>5 DEF Save, RecordWork, RecordSettled, At
    <3>2. \A m \in Node : m # task.node => state'[m] = state[m] /\ latest'[m] = latest[m]
      BY <2>0, <2>5 DEF Save, RecordWork, RecordSettled
    <3> QED BY <2>0, <3>1, <3>2, IdleFields DEF HasHead
  <2>6. CASE Close \/ CloseToWait
    <3>1. task.step = "close" /\ task.job \in Job
      BY <2>6 DEF Close, CloseToWait, At, Step
    <3>2. state[task.node] = "in_progress"
      BY <3>1 DEF TaskInv, Job
    <3>3. UNCHANGED latest /\ \A m \in Node : m # task.node => state'[m] = state[m]
      BY <2>0, <2>6 DEF Close, CloseToWait
    <3> QED BY <2>0, <3>2, <3>3, IdleFields DEF HasHead
  <2>7. CASE Remove
    <3>1. UNCHANGED <<state, latest>> /\ (task' = Idle \/ task'.step = "mark")
      BY <2>7, GotoFields DEF Remove, rowVars, Done, Step
    <3> QED BY <3>1, IdleFields DEF HasHead
  <2>8. CASE SpawnFails \/ SettleFails \/ RemoveFails \/ MarkReclaimed \/ Append
    BY <2>1, <2>8 DEF SpawnFails, SettleFails, RemoveFails, MarkReclaimed, Append, rowVars, Done
  <2> QED BY <1>1, <2>2, <2>3, <2>4, <2>5, <2>6, <2>7, <2>8, AccidentsCounted DEF TaskStep
<1>2. CASE \E m \in Node : Begins(m)
  <2> PICK m \in Node : Begins(m)
    BY <1>2
  <2> QED BY BeginsTask DEF HasHead, rowVars
<1>3. CASE \E m \in Node : KillOverdue(m)
  <2> PICK m \in Node : KillOverdue(m)
    BY <1>3
  <2>1. UNCHANGED <<state, latest>> /\ task'.step = "close"
    BY BeginFields DEF KillOverdue, Job, Step
  <2> QED BY <2>1 DEF HasHead
<1>4. CASE \E m \in Node : RecordEnded(m) \/ Retry(m)
  <2>1. /\ UNCHANGED <<latest, task>>
        /\ state'[n] = state[n] \/ (state'[n] \in {"merged", "stopped", "pending"} /\ state[n] # "merged")
    BY <1>4 DEF RecordEnded, TakesUp, Retry, MayRetry, worldVars
  <2> QED BY <2>1 DEF HasHead
<1>5. CASE \E m \in Node : Stirs(m)
  BY <1>5, StirsLeaveRows DEF HasHead, rowVars
<1>6. CASE Abort
  <2>1. UNCHANGED <<latest, task>> /\ (state'[n] = state[n] \/ state'[n] = "stopped")
    BY <1>6 DEF Abort
  <2> QED BY <1>0, <2>1 DEF HasHead
<1>7. CASE RepairGraph \/ UNCHANGED otherVars
  BY <1>7 DEF RepairGraph, otherVars, rowVars, HasHead
<1> QED BY <1>1, <1>2, <1>3, <1>4, <1>5, <1>6, <1>7, StepKinds, AccidentsCounted

\* As long as nothing goes wrong, the tree of an adopted node comes from its
\* pull request's head.
LEMMA HeadsKept ==
  ASSUME WorksiteInv, [Next]_vars
  PROVE  HeadInv'
<1> SUFFICES ASSUME accidents' = 0
             PROVE  orphans' = {} /\ \A n \in Adopted : tree'[n] \in {"absent", "head"}
                                                        /\ (HasHead(n)' => tree'[n] = "head")
  BY DEF HeadInv
<1>1. orphans' = {}
  BY AccidentsCounted
<1>2. ASSUME NEW n \in Adopted, HasHead(n)'
      PROVE  tree'[n] = "head"
  <2>1. n \in Node
    BY DEF Node
  <2>2. CASE HasHead(n)
    <3>1. tree[n] = "head"
      BY <2>2, AccidentsCounted, TypesOfInv DEF HeadInv
    <3>2. CASE Remove /\ n = task.node /\ state[n] = "merged"
      <4>1. UNCHANGED state /\ (task' = Idle \/ task'.step = "mark")
        BY <3>2, GotoFields, TypesOfInv DEF Remove, rowVars, Done, Step
      <4> QED BY <1>2, <3>2, <4>1, IdleFields DEF HasHead
    <3> QED BY <3>1, <3>2, HeadsInPlace
  <2> QED BY <1>2, <2>1, <2>2, HeadsWereDue, HeadsInPlace
<1> QED BY <1>1, <1>2, HeadsInPlace

-----------------------------------------------------------------------------
(* The invariant.                                                          *)

\* A node's latest session is of an agent that was started for it, in a row.
LatestInv ==
  \A n \in Node : latest[n] # 0 => home[latest[n]] = n /\ row[latest[n]] # "none"

\* The latest session of a node is its own and has a row.
LEMMA LatestKept ==
  ASSUME WorksiteInv, [Next]_vars
  PROVE  LatestInv'
<1>0. /\ TypeOK /\ RowTypes /\ LatestInv
      /\ \A a \in Started : a \in Agent /\ home'[a] = home[a]
      /\ \A n \in Node : latest[n] # 0 => latest[n] \in Started /\ latest[n] \in Agent
  <2>1. \A n \in Node : latest[n] # 0 => latest[n] \in Agent /\ home[latest[n]] = n
    BY WorksiteAssumption DEF WorksiteInv, TypeOK, Agent
  <2>2. \A n \in Node : n # "none"
    BY WorksiteAssumption DEF Node
  <2> QED BY <2>1, <2>2, HomesKept, TypesOfInv DEF LatestInv, TypeOK, Started
<1>1. ASSUME UNCHANGED latest, \A a \in Agent : row[a] # "none" => row'[a] # "none"
      PROVE  LatestInv'
  BY <1>0, <1>1 DEF LatestInv
<1>2. CASE Save
  <2>1. task.node \in Node /\ (task.agent # 0 => task.agent \in Agent)
    <3>1. task.agent \in 0 .. MaxAgents
      BY TypesOfInv DEF TaskForm
    <3>2. task.agent # 0 => task.agent \in Agent
      BY <3>1 DEF Agent
    <3> QED BY <1>2, <3>2, TypesOfInv DEF Save, Step
  <2>2. CASE task.agent = 0
    BY <1>1, <1>2, <2>2 DEF Save
  <2>3. CASE task.agent # 0
    <3>1. /\ row' = [row EXCEPT ![task.agent] = "open"] /\ latest' = [latest EXCEPT ![task.node] = task.agent]
          /\ UNCHANGED home
      BY <1>2, <2>3 DEF Save, worldVars
    <3>2. home[task.agent] = task.node
      BY <2>3, TypesOfInv DEF StartedInv
    <3> QED BY <1>0, <2>1, <2>3, <3>1, <3>2 DEF LatestInv, RowTypes
  <2> QED BY <2>2, <2>3
<1>3. CASE Close \/ CloseToWait
  <2>1. task.node \in Node
    BY <1>3, TypesOfInv DEF Close, CloseToWait, Step
  <2> QED BY <1>0, <1>1, <1>3, <2>1 DEF Close, CloseToWait, CloseSession, RowTypes
<1>4. CASE Abort
  BY <1>0, <1>1, <1>4 DEF Abort, OpenSessions
<1>5. CASE \E n \in Node : KillOverdue(n)
  <2> PICK n \in Node : KillOverdue(n)
    BY <1>5
  <2>1. UNCHANGED latest /\ row' = [row EXCEPT ![latest[n]] = "closed"]
    BY DEF KillOverdue
  <2> QED BY <1>0, <1>1, <2>1 DEF RowTypes
<1>6. CASE \E n \in Node : Begins(n)
  BY <1>1, <1>6, BeginsTask DEF rowVars
<1>7. CASE \E n \in Node : Stirs(n)
  BY <1>1, <1>7, StirsLeaveRows, TypesOfInv DEF rowVars
<1> QED
  BY <1>1, <1>2, <1>3, <1>4, <1>5, <1>6, <1>7, StepKinds
     DEF TaskStep, Provision, ProvisionRefused, ProvisionFails, Provisioning, Spawn, SpawnFails, EnsureRow,
         RecordWork, SettleFails, RecordSettled, Remove, RemoveFails, MarkReclaimed, Append, Crash,
         RepairGraph, otherVars, rowVars,
         RecordEnded, TakesUp, Retry

\* The invariant holds before the first pass.
LEMMA WorksiteStart == Init => WorksiteInv
<1> SUFFICES ASSUME Init
             PROVE  WorksiteInv
  OBVIOUS
<1>1. \A n \in Node : n \notin Adopted => n \in Fresh
  BY DEF Node
<1>2. TypeOK
  <2>1. RowTypes /\ WorldTypes
    BY WorksiteAssumption DEF Init, RowTypes, WorldTypes, Node, Tree
  <2>2. hostJob \in BOOLEAN
    BY DEF Init
  <2>3. task = Idle /\ \A n \in Node : latest[n] = 0
    BY DEF Init
  <2> QED BY <2>1, <2>2, <2>3 DEF TypeOK, RowTypes, WorldTypes
<1>3. TaskForm /\ TaskInv /\ StartedInv
  BY WorksiteAssumption, IdleFields DEF Init, TaskForm, TaskInv, StartedInv, Idle
<1>4. SessionInv /\ ReclaimInv
  BY DEF Init, SessionInv, ReclaimInv, Agent
<1>5. HeadInv
  <2>1. ASSUME NEW n \in Adopted
        PROVE  n \in Node /\ tree[n] = "absent" /\ ~HasHead(n)
    BY <2>1, IdleFields DEF Init, HasHead, Node
  <2> QED BY <2>1 DEF Init, HeadInv
<1> QED BY <1>2, <1>3, <1>4, <1>5 DEF WorksiteInv

\* And every step keeps it.
LEMMA WorksiteStepsOn == WorksiteInv /\ [Next]_vars => WorksiteInv'
<1> SUFFICES ASSUME WorksiteInv, [Next]_vars
             PROVE  WorksiteInv'
  OBVIOUS
<1>1. TypeOK /\ TaskForm
  BY DEF WorksiteInv
<1>2. TaskForm' /\ RowTypes' /\ WorldTypes' /\ LatestInv'
  BY <1>1, TaskTypesKept, RowTypesKept, WorldTypesKept, LatestKept
<1>3. \/ task' = Idle
      \/ task'.job \in Job /\ task'.step \in Step /\ task'.node \in Node /\ task'.agent \in 0 .. MaxAgents
  BY <1>1, <1>2, TaskTypesKept DEF TaskForm
<1>4. TypeOK'
  BY <1>1, <1>2, <1>3, HostJobTyped DEF TypeOK, RowTypes, WorldTypes, LatestInv
<1> QED BY <1>2, <1>4, TasksKept, StartsKept, SessionsKept, ReclaimsKept, HeadsKept DEF WorksiteInv

\* The inductive invariant.
THEOREM WorksiteInductive == Spec => []WorksiteInv
BY WorksiteStart, WorksiteStepsOn, PTL DEF Spec

-----------------------------------------------------------------------------
(* What the rows tell of the world.                                        *)

\* Whatever dies on the way, the agents that work are supervised, a reclaimed
\* worktree is gone and an adopted node's agent finds its pull request checked
\* out, whatever the numbers of nodes, agents, commands and accidents
\* (PendingNodeHandler, RestingNodeHandler, MergedNodeHandler,
\* AdoptedNodeImporter and the command handlers, taken step by step).
THEOREM WorldTheorem == Spec => []WorldMatchesTheRows
<1>1. WorksiteInv => WorldMatchesTheRows
  <2> SUFFICES ASSUME WorksiteInv
               PROVE  WorldMatchesTheRows
    OBVIOUS
  <2>1. AgentsAreSupervised
    <3> SUFFICES ASSUME NEW a \in alive \ orphans, task.agent # a
                 PROVE  row[a] = "open" /\ latest[home[a]] = a /\ state[home[a]] = "in_progress"
      BY DEF AgentsAreSupervised
    <3>1. a \in Agent /\ row[a] = "open"
      BY TypesOfInv DEF SessionInv, TypeOK
    <3> QED BY <3>1, TypesOfInv DEF SessionInv
  <2>2. ReclaimedTreeIsGone
    BY TypesOfInv DEF ReclaimInv, ReclaimedTreeIsGone
  <2>3. AdoptedWorksOnItsPullRequest
    BY TypesOfInv DEF HeadInv, HasHead, AdoptedWorksOnItsPullRequest, At
  <2> QED BY <2>1, <2>2, <2>3, TypesOfInv DEF WorldMatchesTheRows
<1> QED BY <1>1, WorksiteInductive, PTL

\* No agent whose row was written outlives an abort, be it an orphan or not
\* (AbortCommandHandler._kill_agents).
THEOREM AbortTheorem == Spec => AbortReachesEveryRow
<1>1. WorksiteInv /\ [Next]_vars => [Abort => \A a \in alive' : row[a] = "none"]_vars
  <2> SUFFICES ASSUME WorksiteInv, Abort, NEW a \in alive'
               PROVE  row[a] = "none"
    OBVIOUS
  <2>1. a \in alive /\ a \notin OpenSessions
    BY DEF Abort
  <2> QED BY <2>1, TypesOfInv DEF SessionInv, OpenSessions, TypeOK
<1> QED BY <1>1, WorksiteInductive, PTL DEF Spec, AbortReachesEveryRow

\* A merged node that no lost agent haunts stays merged, and the controller
\* takes a worktree only from a merged node no agent it knows of works in
\* (AgentSessionKiller, MergedNodeHandler, GitWorkspace.remove).
THEOREM TakenBackTheorem == Spec => NothingIsTakenBack
<1>1. WorksiteInv /\ [Next]_vars =>
        [\A n \in Node \ Haunted : state[n] = "merged" => state'[n] = "merged"]_vars
  BY MergedKept
<1>2. WorksiteInv /\ [Next]_vars =>
        [\A n \in Node : (tree[n] \in InPlace /\ tree'[n] = "absent")
                           => state[n] = "merged" /\ AgentsOf(n) \subseteq orphans]_vars
  <2> SUFFICES ASSUME WorksiteInv, [Next]_vars, NEW n \in Node, tree[n] \in InPlace, tree'[n] = "absent"
               PROVE  state[n] = "merged" /\ AgentsOf(n) \subseteq orphans
    OBVIOUS
  <2>1. Remove /\ n = task.node /\ state[n] = "merged" /\ task.job = "reclaim"
    <3>1. tree'[n] # tree[n]
      BY DEF InPlace
    <3>2. ~(Provision \/ ProvisionFails)
      BY TypesOfInv DEF Provision, ProvisionFails, Provisioning, InPlace, OriginOf, WorldTypes, Step
    <3>3. ~\E m \in Node : Stirs(m)
      BY TypesOfInv DEF WorldTypes, Stirs, AgentExits, AgentOpensPullRequest, PersonEndsPullRequest, DisturbTree,
                        ClearPath, InPlace
    <3> QED BY <3>1, <3>2, <3>3, TreesMove
  <2>2. task.agent = 0
    BY <2>1, TypesOfInv DEF StartedInv
  <2>3. ASSUME NEW a \in AgentsOf(n), a \notin orphans
        PROVE  FALSE
    <3>1. a \in alive /\ a \in Agent /\ home[a] = n /\ row[a] = "open" /\ a # 0
      BY <2>2, <2>3, TypesOfInv DEF AgentsOf, SessionInv, TypeOK
    <3> QED BY <2>1, <2>2, <2>3, <3>1, TypesOfInv DEF SessionInv
  <2> QED BY <2>1, <2>3
<1> QED BY <1>1, <1>2, WorksiteInductive, PTL DEF Spec, NothingIsTakenBack, MergedStaysMerged, NoTreeIsTakenFromWork
=============================================================================
