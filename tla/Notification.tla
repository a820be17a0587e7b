---------------------------- MODULE Notification ----------------------------
(***************************************************************************)
(* What a person hears in Slack: passes and commands publish the events of *)
(* nodes, each process delivers its own one after the other per node, and  *)
(* the first message of a node opens the thread its later ones reply in.   *)
(*                                                                         *)
(* A pass holds the run lock until its deliveries are drained.  The        *)
(* handlers of retry, skip, stop, recover and adopt release it when they   *)
(* return, before the context drains what they published.  The locks that  *)
(* keep a node's deliveries in a row belong to one process.                *)
(*                                                                         *)
(* Left out: wording and reactions, which no property tells apart, and the *)
(* messages about the run as a whole, which belong to no thread.           *)
(***************************************************************************)
EXTENDS Naturals, Sequences, FiniteSets, SequencesExt

CONSTANTS
  Node,      \* the nodes a person hears of
  Passes,    \* names for the processes that run a pass
  Commands,  \* names for the processes that run a command
  MaxEvents, \* bound: events published
  MaxLosses, \* bound: posts that are refused, or whose reply is lost
  MaxCrashes \* bound: processes killed

Process == Passes \union Commands
Id == 1..MaxEvents

\* "none" is how the model says that nobody has the run lock.
ASSUME NotificationAssumption ==
  /\ MaxEvents \in Nat
  /\ MaxLosses \in Nat
  /\ MaxCrashes \in Nat
  /\ "none" \notin Process

\* "opened" is a pull request opened; "silent" is an event with nothing to say,
\* as a push without commits; every other message is "told".
Kind == {"told", "opened", "silent"}

VARIABLES
  holder,    \* the process that has the run lock, or "none"
  phase,     \* of a process: "away", "working" or "draining"
  published, \* events published so far; an event is known by its number
  queue,     \* of a process and a node: the events it has still to deliver
  step,      \* of a delivery: "queued", "read" its thread, "posted" a new one
  hand,      \* the thread a delivery has in hand, 0 for none
  binding,   \* the thread a node's row names, 0 for none
  opened,    \* of a node: the threads Slack has for it
  told,      \* of a node: the messages Slack got, in order
  settled,   \* events whose delivery was tried to its end
  dropped,   \* events a killed process took with it
  excused,   \* nodes that lost a reply, a process, or the row to another process
  losses, crashes

delivery == <<queue, step, hand>>
slack == <<binding, opened, told, settled>>
trouble == <<dropped, excused, losses, crashes>>
vars == <<holder, phase, published, delivery, slack, trouble>>

-----------------------------------------------------------------------------
Init ==
  /\ holder = "none"
  /\ phase = [p \in Process |-> "away"]
  /\ published = 0
  /\ queue = [p \in Process |-> [n \in Node |-> <<>>]]
  /\ step = [p \in Process |-> [n \in Node |-> "queued"]]
  /\ hand = [p \in Process |-> [n \in Node |-> 0]]
  /\ binding = [n \in Node |-> 0]
  /\ opened = [n \in Node |-> 0]
  /\ told = [n \in Node |-> <<>>]
  /\ settled = {}
  /\ dropped = {}
  /\ excused = {}
  /\ losses = 0
  /\ crashes = 0

\* A pass takes the lock before its context opens, a command in its handler.
Begin(p) ==
  /\ phase[p] = "away"
  /\ holder = "none"
  /\ published < MaxEvents
  /\ holder' = p
  /\ phase' = [phase EXCEPT ![p] = "working"]
  /\ UNCHANGED <<published, delivery, slack, trouble>>

\* Scheduling a delivery does not wait for it.
Publish(p, n, kind) ==
  /\ phase[p] = "working"
  /\ published < MaxEvents
  /\ published' = published + 1
  /\ queue' = [queue EXCEPT ![p][n] = Append(@, [id |-> published', kind |-> kind])]
  /\ UNCHANGED <<holder, phase, step, hand, slack, trouble>>

\* The context of a pass releases the lock last; a command's handler has
\* released it before.
KeepsLock(p) == p \in Passes

HandlerReturns(p) ==
  /\ phase[p] = "working"
  /\ phase' = [phase EXCEPT ![p] = "draining"]
  /\ holder' = IF KeepsLock(p) THEN p ELSE "none"
  /\ UNCHANGED <<published, delivery, slack, trouble>>

\* What a process had scheduled goes with it.
GoneFromEveryNode(p) ==
  /\ queue' = [queue EXCEPT ![p] = [n \in Node |-> <<>>]]
  /\ step' = [step EXCEPT ![p] = [n \in Node |-> "queued"]]
  /\ hand' = [hand EXCEPT ![p] = [n \in Node |-> 0]]

ExitAtOnce(p) == phase[p] = "draining"
Drained(p) == phase[p] = "draining" /\ \A n \in Node : queue[p][n] = <<>>

Exit(p) ==
  /\ Drained(p)
  /\ phase' = [phase EXCEPT ![p] = "away"]
  /\ holder' = IF holder = p THEN "none" ELSE holder
  /\ GoneFromEveryNode(p)
  /\ UNCHANGED <<published, slack, trouble>>

-----------------------------------------------------------------------------
Underway(p, n) == queue[p][n] # <<>>
Overlaps(p, n) == \E q \in Process \ {p} : Underway(q, n)

\* The lock of a node lets its events through in the order they asked.
NextUp(p, n) == Underway(p, n) /\ step[p][n] = "queued"

ReadThread(p, n) ==
  /\ NextUp(p, n)
  /\ step' = [step EXCEPT ![p][n] = "read"]
  /\ hand' = [hand EXCEPT ![p][n] = binding[n]]
  /\ excused' = IF Overlaps(p, n) THEN excused \union {n} ELSE excused
  /\ UNCHANGED <<holder, phase, published, queue, slack, dropped, losses, crashes>>

\* The delivery at the head is over, whatever came of it.
Ends(p, n) ==
  /\ queue' = [queue EXCEPT ![p][n] = Tail(@)]
  /\ step' = [step EXCEPT ![p][n] = "queued"]
  /\ hand' = [hand EXCEPT ![p][n] = 0]
  /\ settled' = settled \union {Head(queue[p][n]).id}

\* Slack has the message: in the thread, over its root, or opening one.
Arrives(p, n, thread) ==
  /\ told' = [told EXCEPT ![n] =
                Append(@, [id |-> Head(queue[p][n]).id, by |-> p, thread |-> thread])]
  /\ opened' = [opened EXCEPT ![n] = IF thread > @ THEN thread ELSE @]

SaysNothing(p, n) ==
  /\ step[p][n] = "read"
  /\ Head(queue[p][n]).kind = "silent"
  /\ Ends(p, n)
  /\ UNCHANGED <<holder, phase, published, binding, opened, told, trouble>>

\* A reply in the thread; a pull request opened is written over its root.
Replies(p, n) ==
  /\ step[p][n] = "read"
  /\ Head(queue[p][n]).kind # "silent"
  /\ hand[p][n] # 0
  /\ Arrives(p, n, hand[p][n])
  /\ Ends(p, n)
  /\ UNCHANGED <<holder, phase, published, binding, trouble>>

OpensThread(p, n) ==
  /\ step[p][n] = "read"
  /\ Head(queue[p][n]).kind # "silent"
  /\ hand[p][n] = 0
  /\ Arrives(p, n, opened[n] + 1)
  /\ step' = [step EXCEPT ![p][n] = "posted"]
  /\ hand' = [hand EXCEPT ![p][n] = opened[n] + 1]
  /\ UNCHANGED <<holder, phase, published, queue, binding, settled, trouble>>

RowOfOpened(p, n) ==
  IF Head(queue[p][n]).kind = "opened" THEN hand[p][n] ELSE binding[n]
Row(p, n) == hand[p][n]

SaveThread(p, n) ==
  /\ step[p][n] = "posted"
  /\ binding' = [binding EXCEPT ![n] = Row(p, n)]
  /\ Ends(p, n)
  /\ UNCHANGED <<holder, phase, published, opened, told, trouble>>

\* Slack refuses the message or does not answer.  Without an answer it may
\* still have the message, and the thread it opened then has no row.
PostFails(p, n, hasIt) ==
  /\ step[p][n] = "read"
  /\ Head(queue[p][n]).kind # "silent"
  /\ losses < MaxLosses
  /\ losses' = losses + 1
  /\ IF hasIt
     THEN Arrives(p, n, IF hand[p][n] = 0 THEN opened[n] + 1 ELSE hand[p][n])
     ELSE UNCHANGED <<told, opened>>
  /\ excused' = IF hasIt THEN excused \union {n} ELSE excused
  /\ Ends(p, n)
  /\ UNCHANGED <<holder, phase, published, binding, dropped, crashes>>

Crash(p) ==
  /\ phase[p] # "away"
  /\ crashes < MaxCrashes
  /\ crashes' = crashes + 1
  /\ dropped' = dropped \union {e.id : e \in UNION {ToSet(queue[p][n]) : n \in Node}}
  /\ excused' = excused \union {n \in Node : step[p][n] = "posted"}
  /\ phase' = [phase EXCEPT ![p] = "away"]
  /\ holder' = IF holder = p THEN "none" ELSE holder
  /\ GoneFromEveryNode(p)
  /\ UNCHANGED <<published, slack, losses>>

-----------------------------------------------------------------------------
Deliver(p, n) ==
  \/ ReadThread(p, n)
  \/ SaysNothing(p, n)
  \/ Replies(p, n)
  \/ OpensThread(p, n)
  \/ SaveThread(p, n)

Next ==
  \E p \in Process :
    \/ Begin(p)
    \/ HandlerReturns(p)
    \/ Exit(p)
    \/ Crash(p)
    \/ \E n \in Node :
         \/ \E kind \in Kind : Publish(p, n, kind)
         \/ Deliver(p, n)
         \/ \E hasIt \in BOOLEAN : PostFails(p, n, hasIt)

Spec == Init /\ [][Next]_vars

\* A handler returns, an event loop runs its tasks, and a post ends within its
\* timeout.
FairSpec ==
  /\ Spec
  /\ \A p \in Process :
       /\ WF_vars(HandlerReturns(p))
       /\ WF_vars(Exit(p))
       /\ \A n \in Node : WF_vars(Deliver(p, n))

-----------------------------------------------------------------------------
Event == [id : Id, kind : Kind]

\* A process that is gone has nothing to deliver, and only a delivery that is
\* underway has a thread in hand.
TypeOK ==
  /\ holder \in Process \union {"none"}
  /\ phase \in [Process -> {"away", "working", "draining"}]
  /\ published \in 0..MaxEvents
  /\ step \in [Process -> [Node -> {"queued", "read", "posted"}]]
  /\ hand \in [Process -> [Node -> 0..MaxEvents]]
  /\ \A p \in Process, n \in Node :
       /\ \A i \in DOMAIN queue[p][n] : queue[p][n][i] \in Event
       /\ phase[p] = "away" => queue[p][n] = <<>>
       /\ step[p][n] # "queued" => Underway(p, n)
       /\ step[p][n] = "posted" => hand[p][n] # 0
  /\ \A n \in Node : binding[n] \in 0..opened[n]
  /\ settled \subseteq 1..published
  /\ dropped \subseteq 1..published
  /\ excused \subseteq Node
  /\ losses \in 0..MaxLosses
  /\ crashes \in 0..MaxCrashes

\* One thread per node: a second one takes a reply that was lost, a process
\* that died before it saved the row, or two processes that deliver the same
\* node's events at once.
OneThreadPerNode ==
  \A n \in Node : opened[n] > 1 => n \in excused

\* A story is told in the order it happened: within a process always, across
\* processes unless what came late is the message of a command, which had let go
\* of the run before it was sent.
OnlyCommandsAreOvertaken ==
  \A n \in Node :
    \A i, j \in DOMAIN told[n] :
      (i < j /\ told[n][i].id > told[n][j].id)
        => told[n][j].by \in Commands /\ told[n][i].by # told[n][j].by

\* Whatever is published is tried before its process exits, also behind messages
\* that are refused: only a process that is killed drops any.
PublishedIsTried ==
  \A i \in Id : (published >= i) ~> (i \in settled \union dropped)

\* A node's story is one thread, told in order (BotNotificationDispatcher).
StoryIsToldInOrder ==
  /\ TypeOK
  /\ OneThreadPerNode
  /\ OnlyCommandsAreOvertaken

=============================================================================
