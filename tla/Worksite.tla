------------------------------ MODULE Worksite ------------------------------
(***************************************************************************)
(* What agentic-dag leaves outside its own rows when it works on a node:   *)
(* the git worktree, the agent's process, the graph file that names the    *)
(* node.  Rows and world are changed one after the other, so a controller  *)
(* that dies leaves one without the other.                                 *)
(*                                                                         *)
(* Whoever holds the run lock (a pass at one of its nodes, adopt, recover) *)
(* has a task that is taken step by step and may die before any of them;   *)
(* agents, people and git move in between.  Passes come by themselves only *)
(* as long as the host job is registered.  Dependencies, news and attempts *)
(* are the business of DagRun and PullRequestWatch.                        *)
(***************************************************************************)
EXTENDS Integers, FiniteSets

CONSTANTS
  Fresh,         \* nodes the run starts from nothing
  Adopted,       \* nodes that take a pull request over, which the graph names or adopt does
  MaxWorkers,    \* max_workers
  MaxAgents,     \* bound: processes started in all
  MaxCommands,   \* bound: operator commands, abort not counted
  MaxAccidents   \* bound: crashes, lost directories, timeouts, unwritten graphs

ASSUME WorksiteAssumption ==
  /\ Fresh \cap Adopted = {}
  /\ "none" \notin Fresh \cup Adopted
  /\ MaxWorkers \in Nat \ {0}
  /\ MaxAgents \in Nat
  /\ MaxCommands \in Nat
  /\ MaxAccidents \in Nat

Node == Fresh \cup Adopted
Agent == 1 .. MaxAgents

VARIABLES
  state,      \* nodes.state, "none" without a row; "waiting" is pending with a resume_at
  reclaimed,  \* nodes whose worktree row has its reclaimed_at
  row,        \* per agent started: the row of its session
  latest,     \* per node: the agent of agent.sessions[-1], 0 if there is none
  named,      \* nodes the graph file names
  fileOk,     \* the graph file loads
  tree,       \* per node: what is at its worktree's path
  alive,      \* agents whose process runs
  home,       \* per agent: the node it was started for
  pr,         \* per node: its pull request
  task,       \* what the holder of the run lock is about to do
  orphans,    \* agents whose start was cut short before its rows were complete
  hostJob,    \* the host job is registered: passes come by themselves
  commands,   \* operator commands so far, but for aborts
  accidents   \* accidents so far

rowVars == <<state, reclaimed, row, latest>>
worldVars == <<named, fileOk, tree, alive, home, pr>>
vars == <<rowVars, worldVars, task, orphans, hostJob, commands, accidents>>

\* lost: registered with git but gone.  foreign: there but not registered.
\* half: registered, its checkout cut short.  base, head: what it was made from.
Tree == {"absent", "lost", "foreign", "half", "base", "head"}
InPlace == {"half", "base", "head"}

Job == {"start", "import", "adopt", "handover", "wake", "recover", "settle", "reclaim"}
Step == {"provision", "spawn", "rows", "save", "record", "append", "close", "remove", "mark"}

Idle == [job |-> "none", step |-> "none", node |-> "none", agent |-> 0]

TypeOK ==
  /\ state \in [Node -> {"none", "pending", "waiting", "in_progress", "resting",
                         "stopped", "merged"}]
  /\ reclaimed \in SUBSET Node
  /\ row \in [Agent -> {"none", "open", "closed"}]
  /\ latest \in [Node -> 0 .. MaxAgents]
  /\ named \in SUBSET Node
  /\ fileOk \in BOOLEAN
  /\ tree \in [Node -> Tree]
  /\ alive \in SUBSET Agent
  /\ DOMAIN home = Agent
  /\ \A a \in Agent : home[a] = "none" \/ home[a] \in Node
  /\ pr \in [Node -> {"none", "open", "merged", "closed"}]
  /\ \/ task = Idle
     \/ /\ task.job \in Job
        /\ task.step \in Step
        /\ task.node \in Node
        /\ task.agent \in 0 .. MaxAgents
  /\ orphans \in SUBSET Agent
  /\ hostJob \in BOOLEAN
  /\ commands \in 0 .. MaxCommands
  /\ accidents \in 0 .. MaxAccidents
  \* A session's row and the node's latest session belong to one node.
  /\ \A n \in Node : latest[n] # 0 => home[latest[n]] = n /\ row[latest[n]] # "none"

Init ==
  /\ named \in {Fresh, Node}
  /\ state = [n \in Node |-> IF n \in named THEN "pending" ELSE "none"]
  /\ reclaimed = {}
  /\ row = [a \in Agent |-> "none"]
  /\ latest = [n \in Node |-> 0]
  /\ fileOk = TRUE
  /\ tree = [n \in Node |-> "absent"]
  /\ alive = {}
  /\ home = [a \in Agent |-> "none"]
  /\ pr = [n \in Node |-> IF n \in Adopted THEN "open" ELSE "none"]
  /\ task = Idle
  /\ orphans = {}
  /\ hostJob = FALSE
  /\ commands = 0
  /\ accidents = 0

-----------------------------------------------------------------------------
AgentsOf(n) == {a \in alive : home[a] = n}

Started == {a \in Agent : home[a] # "none"}

InProgress == {n \in Node : state[n] = "in_progress"}

Accident == accidents < MaxAccidents /\ accidents' = accidents + 1

Command == commands < MaxCommands /\ commands' = commands + 1

Begin(job, step, n) ==
  task' = [job |-> job, step |-> step, node |-> n, agent |-> 0]

At(step) == task.step = step

Goto(step) == task' = [task EXCEPT !.step = step]

Done == task' = Idle

SetState(n, s) == state' = [state EXCEPT ![n] = s]

-----------------------------------------------------------------------------
(* A pass takes a node up: the graph loads, names it, and its rows say so. *)

TakesUp(n) ==
  /\ task = Idle
  /\ fileOk
  /\ n \in named
  /\ UNCHANGED <<reclaimed, row, latest, named, fileOk, tree, pr, orphans, hostJob, commands, accidents>>

\* A wait of the node has its end, at a time the rest of the model does not see.
\* An adopted node is imported unless it waited with a conversation to resume.
TakeUpPending(n) ==
  /\ TakesUp(n)
  /\ state[n] \in {"pending", "waiting"}
  /\ Cardinality(InProgress) < MaxWorkers
  /\ Begin(IF n \in Adopted /\ state[n] = "pending" THEN "import" ELSE "start",
           "provision", n)
  /\ UNCHANGED <<state, alive, home>>

\* HasEnded only while the row is open (a mutated form).
HasEndedUnclosed(n) == latest[n] \notin alive /\ row[latest[n]] = "open"

HasEnded(n) == latest[n] \notin alive

\* The agent has finished.  No node gets to be in progress without a session.
TakeUpFinished(n) ==
  /\ TakesUp(n)
  /\ state[n] = "in_progress"
  /\ HasEnded(n)
  /\ Begin("settle", "close", n)
  /\ UNCHANGED <<state, alive, home>>

\* The agent is overdue: its process group is killed and its row closed.
KillOverdue(n) ==
  /\ task = Idle
  /\ fileOk
  /\ n \in named
  /\ state[n] = "in_progress"
  /\ latest[n] \in alive
  /\ alive' = alive \ {latest[n]}
  /\ row' = [row EXCEPT ![latest[n]] = "closed"]
  /\ Begin("settle", "close", n)
  /\ UNCHANGED <<state, reclaimed, latest, named, fileOk, tree, home, pr, orphans, hostJob, commands,
                 accidents>>

\* A resting node's pull request has ended.
RecordEnded(n) ==
  /\ TakesUp(n)
  /\ state[n] = "resting"
  /\ pr[n] \in {"merged", "closed"}
  /\ SetState(n, IF pr[n] = "merged" THEN "merged" ELSE "stopped")
  /\ UNCHANGED <<alive, home, task>>

\* A resting node's pull request has news for its agent.
TakeUpNews(n) ==
  /\ TakesUp(n)
  /\ state[n] = "resting"
  /\ pr[n] = "open"
  /\ Cardinality(InProgress) < MaxWorkers
  /\ Begin("wake", "spawn", n)
  /\ UNCHANGED <<state, alive, home>>

\* ReclaimDue once the node rests (a mutated form).
ReclaimDueAtRest(n) == state[n] \in {"resting", "merged"} /\ n \notin reclaimed

ReclaimDue(n) == state[n] = "merged" /\ n \notin reclaimed

TakeUpMerged(n) ==
  /\ TakesUp(n)
  /\ ReclaimDue(n)
  /\ Begin("reclaim", "remove", n)
  /\ UNCHANGED <<state, alive, home>>

-----------------------------------------------------------------------------
(* The end of a pass, be it the host's or that of a person's start.        *)

RunEnded ==
  \/ \A n \in named : state[n] = "merged"
  \/ \A n \in named : state[n] = "stopped"

EndsPass ==
  /\ task = Idle
  /\ fileOk
  /\ UNCHANGED <<rowVars, worldVars, task, orphans, commands, accidents>>

Register == EndsPass /\ ~RunEnded /\ hostJob' = TRUE

\* The run is over: the job is retired in the very pass that found it so, which
\* has tried to reclaim every node.
Conclude ==
  /\ EndsPass
  /\ RunEnded
  /\ \A n \in named : ~ReclaimDue(n)
  /\ hostJob' = FALSE

-----------------------------------------------------------------------------
(* The worktree.                                                           *)

Provisioning == At("provision") /\ UNCHANGED <<reclaimed, row, latest, named, fileOk, alive,
                                               home, pr, orphans, hostJob, commands>>

\* An import checks out the head branch of the pull request.
OriginOf(job) == IF job \in {"import", "adopt", "handover"} THEN "head" ELSE "base"

AfterProvision == IF task.job = "handover" THEN "rows" ELSE "spawn"

\* A worktree in its place is taken as it is; what is lost is pruned first.
Provision ==
  /\ Provisioning
  /\ tree[task.node] # "foreign"
  /\ tree' = IF tree[task.node] \in InPlace THEN tree
             ELSE [tree EXCEPT ![task.node] = OriginOf(task.job)]
  /\ Goto(AfterProvision)
  /\ UNCHANGED <<state, accidents>>

\* The path holds something else, or the base branch is missing: a pass records
\* the node errored, adopt ends in the error.
ProvisionRefused ==
  /\ Provisioning
  /\ tree[task.node] \notin InPlace
  /\ IF task.job \in {"start", "import"} THEN SetState(task.node, "stopped") ELSE UNCHANGED state
  /\ Done
  /\ UNCHANGED <<tree, accidents>>

\* Git fails or is killed at its timeout, half-way through the checkout.
ProvisionFails ==
  /\ Provisioning
  /\ Accident
  /\ \/ UNCHANGED tree
     \/ /\ tree[task.node] \in {"absent", "lost"}
        /\ tree' = [tree EXCEPT ![task.node] = "half"]
  /\ Done
  /\ UNCHANGED state

\* Remove refusing a directory that is gone already (a mutated form).
RemovableInPlace(n) == tree[n] \in {"base", "head"}

\* Git forgets a lost directory; it keeps a tree whose checkout was cut short
\* locked, and knows nothing of a foreign one.
Removable(n) == tree[n] \in {"absent", "lost", "base", "head"}

Remove ==
  /\ At("remove")
  /\ Removable(task.node)
  /\ tree' = [tree EXCEPT ![task.node] = "absent"]
  /\ Goto("mark")
  /\ UNCHANGED <<rowVars, named, fileOk, alive, home, pr, orphans, hostJob, commands, accidents>>

\* Git refuses or is killed at its timeout: the error is logged, the pass goes
\* on.  In a run that is over it retires the job all the same.
RemoveFails ==
  /\ At("remove")
  /\ (~Removable(task.node) /\ UNCHANGED accidents) \/ Accident
  /\ \/ UNCHANGED hostJob
     \/ /\ RunEnded
        /\ \A n \in named \ {task.node} : ReclaimDue(n) => ~Removable(n)
        /\ hostJob' = FALSE
  /\ Done
  /\ UNCHANGED <<rowVars, worldVars, orphans, commands>>

MarkReclaimed ==
  /\ At("mark")
  /\ reclaimed' = reclaimed \cup {task.node}
  /\ Done
  /\ UNCHANGED <<state, row, latest, worldVars, orphans, hostJob, commands, accidents>>

-----------------------------------------------------------------------------
(* The agent.                                                              *)

\* The executable starts in the worktree's directory, which has to be there.
Spawn ==
  /\ At("spawn")
  /\ tree[task.node] \in InPlace
  /\ \E a \in Agent \ Started :
       /\ \A b \in Agent \ Started : a <= b
       /\ home' = [home EXCEPT ![a] = task.node]
       /\ alive' = alive \cup {a}
       /\ task' = [task EXCEPT !.agent = a,
                               !.step = IF task.job = "adopt" THEN "rows" ELSE "save"]
  /\ UNCHANGED <<rowVars, named, fileOk, tree, pr, orphans, hostJob, commands, accidents>>

\* The node stays as it is for a later pass; adopt and recover end here.
SpawnFails ==
  /\ At("spawn")
  /\ Done
  /\ UNCHANGED <<rowVars, worldVars, orphans, hostJob, commands, accidents>>

EnsureRow ==
  /\ At("rows")
  /\ IF state[task.node] = "none" THEN SetState(task.node, "pending") ELSE UNCHANGED state
  /\ Goto("save")
  /\ UNCHANGED <<reclaimed, row, latest, worldVars, orphans, hostJob, commands, accidents>>

\* The agent with its sessions, or the one new session, in one transaction.
Save ==
  /\ At("save")
  /\ IF task.agent = 0 THEN UNCHANGED <<row, latest>>
     ELSE /\ row' = [row EXCEPT ![task.agent] = "open"]
          /\ latest' = [latest EXCEPT ![task.node] = task.agent]
  /\ Goto("record")
  /\ UNCHANGED <<state, reclaimed, worldVars, orphans, hostJob, commands, accidents>>

\* Recorded leaving a woken node at rest (a mutated form).
RecordedUnlessWoken(job) == IF job \in {"handover", "wake"} THEN "resting" ELSE "in_progress"

Recorded(job) == IF job = "handover" THEN "resting" ELSE "in_progress"

RecordWork ==
  /\ At("record")
  /\ task.job # "settle"
  /\ SetState(task.node, Recorded(task.job))
  /\ IF task.job \in {"adopt", "handover"} THEN Goto("append") ELSE Done
  /\ hostJob' = (hostJob \/ task.job = "recover")
  /\ UNCHANGED <<reclaimed, row, latest, worldVars, orphans, commands, accidents>>

-----------------------------------------------------------------------------
(* Settling an agent that has finished.                                    *)

\* Reading the branch fails where the directory is gone, GitHub may fail; the
\* node settles on a later pass.
SettleFails ==
  /\ At("close")
  /\ Done
  /\ UNCHANGED <<rowVars, worldVars, orphans, hostJob, commands, accidents>>

CloseSession(n) == row' = [row EXCEPT ![latest[n]] = "closed"]

Close ==
  /\ At("close")
  /\ tree[task.node] \in InPlace
  /\ CloseSession(task.node)
  /\ Goto("record")
  /\ UNCHANGED <<state, reclaimed, latest, worldVars, orphans, hostJob, commands, accidents>>

RecordSettled ==
  /\ At("record")
  /\ task.job = "settle"
  /\ SetState(task.node, IF pr[task.node] = "none" THEN "stopped" ELSE "resting")
  /\ Done
  /\ UNCHANGED <<reclaimed, row, latest, worldVars, orphans, hostJob, commands, accidents>>

\* The log says the provider's allowance ran out, which takes no worktree.
CloseToWait ==
  /\ At("close")
  /\ CloseSession(task.node)
  /\ SetState(task.node, "waiting")
  /\ Done
  /\ UNCHANGED <<reclaimed, latest, worldVars, orphans, hostJob, commands, accidents>>

-----------------------------------------------------------------------------
(* The graph file.                                                         *)

\* Adopt's last step; it registers no job.  Where it fails, the file is as it
\* was or does not load any more; the rows remain.
Append ==
  /\ At("append")
  /\ \/ named' = named \cup {task.node} /\ UNCHANGED <<fileOk, accidents>>
     \/ Accident /\ UNCHANGED <<named, fileOk>>
     \/ Accident /\ fileOk' = FALSE /\ UNCHANGED named
  /\ Done
  /\ UNCHANGED <<rowVars, tree, alive, home, pr, orphans, hostJob, commands>>

\* A person names the node in the graph, or makes it load again without it.
RepairGraph ==
  /\ task = Idle
  /\ \E n \in Node :
       /\ ~fileOk \/ (n \notin named /\ state[n] # "none")
       /\ named' \in {named, named \cup {n}}
  /\ fileOk' = TRUE
  /\ UNCHANGED <<rowVars, tree, alive, home, pr, task, orphans, hostJob, commands, accidents>>

-----------------------------------------------------------------------------
(* The operator's commands.                                                *)

\* The graph does not load, or the id has its row: adopt refuses.
MayAdopt(n) == n \in Adopted /\ fileOk /\ state[n] = "none"

Adopt(n) ==
  /\ task = Idle
  /\ Command
  /\ MayAdopt(n)
  /\ \E job \in {"adopt", "handover"} : Begin(job, "provision", n)
  /\ UNCHANGED <<rowVars, worldVars, orphans, hostJob, accidents>>

MayRetry(n) == state[n] = "stopped"

Retry(n) ==
  /\ task = Idle
  /\ Command
  /\ MayRetry(n)
  /\ SetState(n, "pending")
  /\ hostJob' = TRUE
  /\ UNCHANGED <<reclaimed, row, latest, worldVars, task, orphans, accidents>>

\* recover with a message: the node's latest agent must be gone.
Recover(n) ==
  /\ task = Idle
  /\ Command
  /\ fileOk
  /\ n \in named
  /\ state[n] \in {"stopped", "resting"}
  /\ latest[n] # 0
  /\ latest[n] \notin alive
  /\ Begin("recover", "spawn", n)
  /\ UNCHANGED <<rowVars, worldVars, orphans, hostJob, accidents>>

\* OpenSessions looking at latest sessions only (a mutated form).
LatestOpenSessions == {a \in Agent : row[a] = "open" /\ latest[home[a]] = a}

OpenSessions == {a \in Agent : row[a] = "open"}

\* Every open session is killed and closed, its node left to a human.
Abort ==
  /\ task = Idle
  /\ alive' = alive \ OpenSessions
  /\ row' = [a \in Agent |-> IF a \in OpenSessions THEN "closed" ELSE row[a]]
  /\ state' = [n \in Node |-> IF \E a \in OpenSessions : home[a] = n
                              THEN "stopped" ELSE state[n]]
  /\ hostJob' = FALSE
  /\ UNCHANGED <<reclaimed, latest, named, fileOk, tree, home, pr, task, orphans, commands,
                 accidents>>

-----------------------------------------------------------------------------
(* The world.                                                              *)

\* The holder of the lock dies and the kernel frees it.  An agent it had
\* started runs on, whatever rows it has.
Crash ==
  /\ task # Idle
  /\ Accident
  /\ Done
  /\ orphans' = IF task.agent # 0 /\ task.step # "append" THEN orphans \cup {task.agent} ELSE orphans
  /\ UNCHANGED <<rowVars, worldVars, hostJob, commands>>

World(n) == UNCHANGED <<rowVars, named, fileOk, home, task, orphans, hostJob, commands>>

AgentExits(n) ==
  /\ \E a \in AgentsOf(n) : alive' = alive \ {a}
  /\ World(n)
  /\ UNCHANGED <<tree, pr, accidents>>

AgentOpensPullRequest(n) ==
  /\ AgentsOf(n) # {}
  /\ pr[n] \in {"none", "closed"}
  /\ pr' = [pr EXCEPT ![n] = "open"]
  /\ World(n)
  /\ UNCHANGED <<tree, alive, accidents>>

PersonEndsPullRequest(n) ==
  /\ pr[n] = "open"
  /\ pr' \in {[pr EXCEPT ![n] = "merged"], [pr EXCEPT ![n] = "closed"]}
  /\ World(n)
  /\ UNCHANGED <<tree, alive, accidents>>

\* A person removes the directory, or puts something else in its place.
DisturbTree(n) ==
  /\ Accident
  /\ \/ tree[n] \in {"base", "head"} /\ tree' = [tree EXCEPT ![n] = "lost"]
     \/ tree[n] = "absent" /\ tree' = [tree EXCEPT ![n] = "foreign"]
  /\ World(n)
  /\ UNCHANGED <<alive, pr>>

ClearPath(n) ==
  /\ tree[n] = "foreign"
  /\ tree' = [tree EXCEPT ![n] = "absent"]
  /\ World(n)
  /\ UNCHANGED <<alive, pr, accidents>>

-----------------------------------------------------------------------------
TaskStep ==
  \/ Provision \/ ProvisionRefused \/ ProvisionFails
  \/ Spawn \/ SpawnFails \/ EnsureRow \/ Save \/ RecordWork
  \/ SettleFails \/ Close \/ RecordSettled \/ CloseToWait
  \/ Remove \/ RemoveFails \/ MarkReclaimed \/ Append

TakeUp(n) ==
  \/ TakeUpPending(n) \/ TakeUpFinished(n) \/ KillOverdue(n)
  \/ RecordEnded(n) \/ TakeUpNews(n) \/ TakeUpMerged(n)

Next ==
  \/ TaskStep \/ Crash \/ RepairGraph \/ Abort \/ Register \/ Conclude
  \/ \E n \in Node :
       \/ TakeUp(n)
       \/ Adopt(n) \/ Retry(n) \/ Recover(n)
       \/ AgentExits(n) \/ AgentOpensPullRequest(n) \/ PersonEndsPullRequest(n)
       \/ DisturbTree(n) \/ ClearPath(n)

Spec == Init /\ [][Next]_vars

\* A task under way goes on, passes come again and reach every node as long as
\* the job is registered, and git and GitHub do not fail on every single one of
\* them.  Nothing is assumed of a person's start.
Fairness ==
  /\ WF_vars(TaskStep)
  /\ SF_vars(Close)
  /\ \A n \in Node : SF_vars(hostJob /\ (TakeUpFinished(n) \/ TakeUpMerged(n)))

FairSpec == Spec /\ Fairness

-----------------------------------------------------------------------------
(* What the controller promises of the world.                              *)

\* Nodes an agent was once started for without its rows being completed.
Haunted == {home[a] : a \in orphans}

\* An agent at work is the one its node's latest session names, in a row still
\* open, and the node is in progress: the next pass supervises it and abort
\* finds it.  Only a controller that died between the start of the process and
\* the last of its rows leaves another one behind (PendingNodeHandler._start,
\* AdoptedNodeImporter.import_node, RestingNodeHandler._wake).
AgentsAreSupervised ==
  \A a \in alive \ orphans :
    \/ task.agent = a
    \/ /\ row[a] = "open"
       /\ latest[home[a]] = a
       /\ state[home[a]] = "in_progress"

\* Abort leaves no agent behind whose session it can know of: an agent whose
\* row was written lives no longer than abort, be it an orphan or not
\* (AbortCommandHandler._kill_agents reads every row without an ended_at).
AbortReachesEveryRow ==
  [][Abort => \A a \in alive' : row[a] = "none"]_vars

\* A merged node stays merged, unless abort finds the open row of an agent an
\* earlier pass had lost: AgentSessionKiller parks the node of every session it
\* closes without a look at its state.
MergedStaysMerged ==
  [][\A n \in Node \ Haunted : state[n] = "merged" => state'[n] = "merged"]_vars

\* The controller takes a worktree away only from a merged node and never from
\* under an agent it knows of (MergedNodeHandler, GitWorkspace.remove).
NoTreeIsTakenFromWork ==
  [][\A n \in Node :
       (tree[n] \in InPlace /\ tree'[n] = "absent")
         => state[n] = "merged" /\ AgentsOf(n) \subseteq orphans]_vars

\* The worktree of a node marked as reclaimed is gone, whenever the controller
\* died on the way (MergedNodeHandler removes before it marks).  Only a merged
\* node that abort put back to work may have another one since.
ReclaimedTreeIsGone ==
  \A n \in reclaimed \ Haunted : tree[n] \notin InPlace

\* The tree an adopted node's agent is started in was checked out at its pull
\* request, unless the directory was lost while the node waited for a usage
\* limit: then _start provisions it from the base branch.
AdoptedWorksOnItsPullRequest ==
  (At("spawn") /\ task.node \in Adopted /\ accidents = 0) => tree[task.node] = "head"

\* The next pass comes by itself and takes node n up.
PassesReach(n) == hostJob /\ fileOk /\ n \in named

\* No merged node's worktree is left to be reclaimed for ever, whatever died and
\* however often git failed as long as passes come, unless git cannot remove
\* what is there: a checkout cut short, something foreign.  The pass that ends
\* the run still tries and retires the job where it fails, and then no pass
\* tries again (MergedNodeHandler.handle, StartCommandHandler._conclude); nor
\* does one after an abort, or after an adoption into a run that was over.
MergedIsReclaimed ==
  \A n \in Node :
    []<>~(/\ state[n] = "merged" /\ n \notin reclaimed
          /\ tree[n] \notin {"half", "foreign"} /\ n \notin Haunted
          /\ PassesReach(n))

\* No node whose agent has ended stays in progress for ever, unless the graph
\* does not load or name it, or its directory is gone: then reading its branch
\* fails on every pass and the node keeps its worker for good.  No pass comes
\* where no job is registered: abort retires it, and adopt registers none.
EndedWorkIsSettled ==
  \A n \in Node :
    []<>~(/\ state[n] = "in_progress" /\ AgentsOf(n) = {}
          /\ tree[n] \in InPlace
          /\ PassesReach(n))

\* Whatever dies on the way, the rows tell the agents that work and the trees that
\* are there, and an adopted node's agent finds its pull request checked out.
WorldMatchesTheRows ==
  /\ TypeOK
  /\ AgentsAreSupervised
  /\ ReclaimedTreeIsGone
  /\ AdoptedWorksOnItsPullRequest

\* What is merged is not begun again, and what is worked on is not taken away.
NothingIsTakenBack == MergedStaysMerged /\ NoTreeIsTakenFromWork

=============================================================================
