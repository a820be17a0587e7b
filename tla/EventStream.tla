---------------------------- MODULE EventStream ----------------------------
(***************************************************************************)
(* A run's watcher between the event stream and the passes: it subscribes  *)
(* to the pull requests of the run's worktrees, waits for a burst of       *)
(* events to settle, fires a pass, and subscribes anew after each pass and *)
(* after each quiet interval.  The host job's passes run beside it, start  *)
(* it when it is dead, and end it with the run.  Adopting writes a node's  *)
(* rows before its name is in the graph file, and people edit that file.   *)
(*                                                                         *)
(* Time is left out: a wait for a payload ends with one when there is one, *)
(* and may end without one whenever there is none.                         *)
(***************************************************************************)
EXTENDS EventReader

CONSTANTS
  NoReader, \* not a reader
  Named     \* the pull requests of nodes the graph file names from the start

ASSUME StreamAssumption ==
  /\ NoReader \notin Reader
  /\ Named \subseteq Pr
  /\ MaxEvents \in Nat
  /\ MaxOutages \in Nat

VARIABLES
  watch,    \* where the watcher is
  slugs,    \* pull requests whose repository its plan knows
  current,  \* its reader, NoReader between subscriptions
  deadline, \* whether a burst of events is settling
  pass,     \* who holds the run lock: "nobody", a pass of the "host" or the "watcher", "adopt"
  fileOk,   \* the graph file loads
  named,    \* pull requests of nodes the graph file names
  published,\* pull requests of the run's worktrees
  adopting, \* pull requests whose rows are written and whose node is about to be named
  over      \* whether the run has concluded, its job and watcher gone

watcher == <<watch, slugs, current, deadline>>
run == <<pass, fileOk, named, published, adopting, over>>
vars == <<bridge, reader, watcher, run>>

Init ==
  /\ BridgeInit
  /\ ReaderInit
  /\ watch = "dead"
  /\ slugs = {}
  /\ current = NoReader
  /\ deadline = FALSE
  /\ pass = "nobody"
  /\ fileOk = TRUE
  /\ named = Named
  /\ published = {}
  /\ adopting = {}
  /\ over = FALSE

Goto(state) == watch' = state

-----------------------------------------------------------------------------
(* The watcher.                                                            *)

\* The plan is read once: the address, the job's command and the repository of
\* every node the graph names.
GetPlan ==
  /\ watch = "planning"
  /\ fileOk
  /\ slugs' = named
  /\ Goto("top")
  /\ UNCHANGED <<current, deadline, bridge, reader, run>>

\* A graph file that does not load ends the watcher.
PlanFails ==
  /\ watch = "planning"
  /\ ~fileOk
  /\ Goto("dead")
  /\ UNCHANGED <<slugs, current, deadline, bridge, reader, run>>

\* A worktree of a node the plan has not heard of ends the watcher.
TopicsFail ==
  /\ watch = "top"
  /\ published \ slugs # {}
  /\ Goto("dead")
  /\ UNCHANGED <<slugs, current, deadline, bridge, reader, run>>

\* With no pull request yet the watcher sleeps and looks again.
SubscribeToTopics ==
  /\ watch = "top"
  /\ published # {}
  /\ published \subseteq slugs
  /\ \E r \in Reader :
       /\ Start(r, published)
       /\ current' = r
  /\ Goto("waiting")
  /\ UNCHANGED <<slugs, deadline, bridge, run>>

ForgetBurst == deadline
NoteBurst == TRUE

TakePayload ==
  /\ watch = "waiting"
  /\ inbox[current] > 0
  /\ inbox' = [inbox EXCEPT ![current] = @ - 1]
  /\ deadline' = NoteBurst
  /\ UNCHANGED <<watch, slugs, current, at, closed, topics, bridge, run>>

Quiet == watch = "waiting" /\ inbox[current] = 0

Refreshes == Quiet /\ ~deadline

\* Quiet for a whole interval: the topics are read again.
Refresh ==
  /\ Refreshes
  /\ Goto("stopping")
  /\ UNCHANGED <<slugs, current, deadline, bridge, reader, run>>

\* The burst has settled: the host job's command is run as a child process.
Fire ==
  /\ Quiet
  /\ deadline
  /\ Goto("firing")
  /\ deadline' = FALSE
  /\ UNCHANGED <<slugs, current, bridge, reader, run>>

\* The child loads the graph and finds the run free, or ends in an error.
FiredPassBegins ==
  /\ watch = "firing"
  /\ fileOk
  /\ pass = "nobody"
  /\ pass' = "watcher"
  /\ UNCHANGED <<watcher, bridge, reader, fileOk, named, published, adopting, over>>

FiredPassFails ==
  /\ watch = "firing"
  /\ ~fileOk \/ pass \in {"host", "adopt"}
  /\ pass # "watcher"
  /\ Goto("stopping")
  /\ UNCHANGED <<slugs, current, deadline, bridge, reader, run>>

\* However the subscription ended, its reader is stopped and what is left in its
\* inbox is gone.
StopReader ==
  /\ watch = "stopping"
  /\ RaiseFlags(current)
  /\ Goto("closing")
  /\ UNCHANGED <<slugs, current, deadline, run>>

CloseStream ==
  /\ watch = "closing"
  /\ EndRead(current)
  /\ Goto("top")
  /\ current' = NoReader
  /\ UNCHANGED <<slugs, deadline, run>>

\* The process ends, and its threads and the pass it fired with it.
WatcherGone ==
  /\ Goto("dead")
  /\ current' = NoReader
  /\ deadline' = FALSE
  /\ slugs' = {}
  /\ NoThreads

WatcherDies ==
  /\ watch # "dead"
  /\ outages < MaxOutages
  /\ outages' = outages + 1
  /\ WatcherGone
  /\ pass' = IF pass = "watcher" THEN "nobody" ELSE pass
  /\ UNCHANGED <<up, events, fileOk, named, published, adopting, over>>

\* An outage of anything but the bridge's own.
Outage ==
  /\ outages < MaxOutages
  /\ outages' = outages + 1
  /\ UNCHANGED <<up, conn, events>>

-----------------------------------------------------------------------------
(* The run's passes and commands, as far as the watcher depends on them.   *)

\* A pass that cannot load the graph changes nothing.
HostPassBegins ==
  /\ ~over
  /\ fileOk
  /\ pass = "nobody"
  /\ pass' = "host"
  /\ UNCHANGED <<fileOk, named, published, adopting, over, watcher, bridge, reader>>

InPass == pass \in {"host", "watcher"}

\* A pass records the pull request a node opened.
Publish(p) ==
  /\ InPass
  /\ p \in named \ published
  /\ published' = published \union {p}
  /\ UNCHANGED <<pass, fileOk, named, adopting, over, watcher, bridge, reader>>

\* Adopting holds the run lock and writes the rows first.
Adopt(p) ==
  /\ ~over
  /\ fileOk
  /\ pass = "nobody"
  /\ p \notin named \union published
  /\ pass' = "adopt"
  /\ adopting' = {p}
  /\ published' = published \union {p}
  /\ UNCHANGED <<fileOk, named, over, watcher, bridge, reader>>

\* Then it appends the node to the graph; it starts no watcher.  Where it fails
\* or dies the file is as it was or loads no more, and the rows remain.
Append ==
  /\ pass = "adopt"
  /\ \/ fileOk /\ named' = named \union adopting /\ UNCHANGED <<fileOk, bridge>>
     \/ Outage /\ fileOk' \in {fileOk, FALSE} /\ UNCHANGED named
     \/ ~fileOk /\ UNCHANGED <<fileOk, named, bridge>>
  /\ pass' = "nobody"
  /\ adopting' = {}
  /\ UNCHANGED <<published, over, watcher, reader>>

\* A person takes a node out of the graph, or leaves a file that does not load.
SpoilGraph ==
  /\ ~over
  /\ Outage
  /\ \/ fileOk' = FALSE /\ UNCHANGED named
     \/ \E p \in named : named' = named \ {p} /\ UNCHANGED fileOk
  /\ UNCHANGED <<pass, published, adopting, over, watcher, reader>>

\* A person makes the file load, and name a node that has a worktree.
RepairGraph ==
  /\ ~over
  /\ \/ UNCHANGED named
     \/ \E p \in published : named' = named \union {p}
  /\ fileOk' = TRUE
  /\ UNCHANGED <<pass, published, adopting, over, watcher, bridge, reader>>

NeedsWatcher == watch = "dead"

\* A pass that ends makes sure the watcher runs.
PassEnds ==
  /\ InPass
  /\ pass' = "nobody"
  /\ watch' = CASE pass = "watcher" -> "stopping"
                [] pass = "host" /\ NeedsWatcher -> "planning"
                [] OTHER -> watch
  /\ UNCHANGED <<fileOk, named, published, adopting, over, slugs, current, deadline, bridge, reader>>

\* The pass that ends the run retires its job and kills its watcher.
Conclude ==
  /\ InPass
  /\ pass' = "nobody"
  /\ over' = TRUE
  /\ WatcherGone
  /\ UNCHANGED <<fileOk, named, published, adopting, up, events, outages>>

-----------------------------------------------------------------------------
ReaderSteps(r) == Read(r) /\ UNCHANGED <<watcher, run>>

ServeSteps(r) == Serve(r) /\ UNCHANGED <<reader, watcher, run>>

BridgeSteps ==
  /\ \/ \E r \in Reader : ConnectionLost(r)
     \/ \E p \in Pr : Deliver(p)
     \/ BridgeDies
     \/ BridgeStarts
  /\ UNCHANGED <<reader, watcher, run>>

WatcherSteps ==
  \/ GetPlan
  \/ PlanFails
  \/ TopicsFail
  \/ SubscribeToTopics
  \/ TakePayload
  \/ Refresh
  \/ Fire
  \/ FiredPassBegins
  \/ FiredPassFails
  \/ StopReader
  \/ CloseStream

Next ==
  \/ BridgeSteps
  \/ \E r \in Reader : ReaderSteps(r) \/ ServeSteps(r)
  \/ WatcherSteps
  \/ WatcherDies
  \/ HostPassBegins
  \/ \E p \in Pr : Publish(p) \/ Adopt(p)
  \/ Append
  \/ SpoilGraph
  \/ RepairGraph
  \/ PassEnds
  \/ Conclude

Spec == Init /\ [][Next]_vars

\* Threads run, waits end, the host fires its job, passes and adoptions end.
\* Nothing makes GitHub deliver, the bridge start again, the run conclude or
\* anyone repair the graph.
FairSpec ==
  /\ Spec
  /\ \A r \in Reader : WF_vars(ReaderSteps(r)) /\ WF_vars(ServeSteps(r))
  /\ WF_vars(WatcherSteps)
  /\ WF_vars(HostPassBegins \/ PassEnds)
  /\ WF_vars(Append)

-----------------------------------------------------------------------------
\* Between subscriptions the watcher has no reader, and a reader that was not
\* stopped is the one the watcher waits on: no thread is left to read alone.
TypeOK ==
  /\ BridgeTypeOK
  /\ ReaderTypeOK
  /\ watch \in {"dead", "planning", "top", "waiting", "firing", "stopping", "closing"}
  /\ slugs \subseteq Pr
  /\ current \in Reader \union {NoReader}
  /\ deadline \in BOOLEAN
  /\ pass \in {"nobody", "host", "watcher", "adopt"}
  /\ fileOk \in BOOLEAN
  /\ named \subseteq Pr
  /\ published \subseteq Pr
  /\ adopting \subseteq published
  /\ adopting # {} => pass = "adopt"
  /\ over \in BOOLEAN
  /\ (current = NoReader) <=> (watch \in {"dead", "planning", "top"})
  /\ \A r \in Reader : at[r] # "done" /\ ~closed[r] => r = current
  /\ deadline => watch = "waiting"
  /\ pass = "watcher" => watch = "firing"
  /\ over => watch = "dead" /\ pass = "nobody"

\* No reader that was stopped is left with a thread for ever, wherever the thread
\* was when the connection was shut, also when the bridge has nothing more to say.
StoppedReaderEnds ==
  \A r \in Reader : []<>~(closed[r] /\ at[r] # "done")

\* The hub keeps no queue for ever for a client that is gone.
HubForgetsTheGone ==
  \A r \in Reader : []<>~(conn[r].side # "free" /\ ~conn[r].client)

\* The watcher has a payload, or a burst that settles.
Heard == watch = "waiting" /\ (inbox[current] > 0 \/ deadline)

\* What the watcher hears while it waits makes it fire a pass: nothing else ends
\* its wait but its death, and the wait does not go on for ever (RunWatcher._consume).
HeardIsFired ==
  /\ [][Heard => Heard' \/ watch' \in {"firing", "dead"}]_vars
  /\ []<>~Heard

\* Every worktree is of a node the graph names, and the graph loads: what a
\* watcher's plan asks for (WatchPlanReader.get_plan, get_topics).
PlanIsWhole == fileOk /\ published \subseteq named


\* Both ends of a connection that is over are let go (EventReader, SseHub): the
\* thread that read it ends and the queue that fed it goes.
ConnectionsEnd == StoppedReaderEnds /\ HubForgetsTheGone

=============================================================================
