--------------------------- MODULE WebhookBridge ---------------------------
(***************************************************************************)
(* The bridge between GitHub's webhooks and the watchers: one thread per   *)
(* connection answers a subscriber, registers its queue with the hub and   *)
(* pumps messages until a write fails; a verified delivery is put in the   *)
(* queue of every subscriber that named one of its pull requests.          *)
(*                                                                         *)
(* A message says only that there is something to look at, so a queue is   *)
(* the number of messages in it.                                           *)
(***************************************************************************)
EXTENDS Naturals, FiniteSets

CONSTANTS
  Pr,        \* pull requests, which are the topics
  Reader,    \* bound: the readers a watcher has at once, numbered
  MaxEvents, \* bound: deliveries GitHub makes
  MaxOutages \* bound: connections lost, bridges and watchers that die

VARIABLES
  up,       \* whether the bridge runs
  conn,     \* the bridge's end of the connection of each reader
  events,   \* deliveries made so far
  outages

bridge == <<up, conn, events, outages>>

\* A bound: a reader's next connection waits until the bridge let go of its last.
Free == [side |-> "free", client |-> FALSE, topics |-> {}, waiting |-> 0]

BridgeInit ==
  /\ up = TRUE
  /\ conn = [r \in Reader |-> Free]
  /\ events = 0
  /\ outages = 0

\* The subscriber is answered before its queue is known to the hub.
Accept(r, topics) ==
  /\ up
  /\ conn[r].side = "free"
  /\ conn' = [conn EXCEPT ![r] = [side |-> "greeted", client |-> TRUE,
                                  topics |-> topics, waiting |-> 0]]

Subscribe(r) ==
  /\ conn[r].side = "greeted"
  /\ conn' = [conn EXCEPT ![r].side = "subscribed"]
  /\ UNCHANGED <<up, events, outages>>

Listens(r, p) == conn[r].side = "subscribed" /\ p \in conn[r].topics

\* GitHub delivers to a bridge that may be down, and does not try again.
Deliver(p) ==
  /\ events < MaxEvents
  /\ events' = events + 1
  /\ conn' = IF up
             THEN [r \in Reader |->
                     IF Listens(r, p) THEN [conn[r] EXCEPT !.waiting = @ + 1]
                                      ELSE conn[r]]
             ELSE conn
  /\ UNCHANGED <<up, outages>>

\* A message is written to a client that reads.
Writes(r) ==
  /\ conn[r].side = "subscribed"
  /\ conn[r].client
  /\ conn[r].waiting > 0
  /\ conn' = [conn EXCEPT ![r].waiting = @ - 1]
  /\ UNCHANGED <<up, events, outages>>

Unsubscribed(r) == Free

\* A message or a keep-alive for a client that is gone fails, sooner or later.
WriteFails(r) ==
  /\ conn[r].side = "subscribed"
  /\ ~conn[r].client
  /\ conn' = [conn EXCEPT ![r] = Unsubscribed(r)]
  /\ UNCHANGED <<up, events, outages>>

\* The client's end of its connections is closed.  The hub goes on queueing for it,
\* which nobody will read, until a write fails.
Orphaned(r) == [conn[r] EXCEPT !.client = FALSE, !.topics = {}, !.waiting = 0]

HangUp(readers) ==
  conn' = [r \in Reader |-> IF r \in readers THEN Orphaned(r) ELSE conn[r]]

ConnectionLost(r) ==
  /\ conn[r].client
  /\ outages < MaxOutages
  /\ outages' = outages + 1
  /\ HangUp({r})
  /\ UNCHANGED <<up, events>>

BridgeDies ==
  /\ up
  /\ outages < MaxOutages
  /\ outages' = outages + 1
  /\ up' = FALSE
  /\ conn' = [r \in Reader |-> Free]
  /\ UNCHANGED events

\* Nothing restarts the bridge but a person.
BridgeStarts ==
  /\ ~up
  /\ up' = TRUE
  /\ UNCHANGED <<conn, events, outages>>

Serve(r) == Subscribe(r) \/ WriteFails(r)

BridgeTypeOK ==
  /\ up \in BOOLEAN
  /\ events \in 0..MaxEvents
  /\ outages \in 0..MaxOutages
  /\ \A r \in Reader :
       /\ conn[r].side \in {"free", "greeted", "subscribed"}
       /\ conn[r].client \in BOOLEAN
       /\ conn[r].topics \subseteq Pr
       /\ conn[r].waiting \in 0..events
       /\ conn[r].side # "subscribed" => conn[r].waiting = 0
  /\ ~up => \A r \in Reader : conn[r] = Free

=============================================================================
