-------------------------- MODULE EventStreamProofs --------------------------
(***************************************************************************)
(* Proofs that the watcher, its reader threads and the bridge stay in      *)
(* step: whatever is lost or dies, no thread is left to read for nobody,   *)
(* and no queue holds more than was delivered.                             *)
(***************************************************************************)
EXTENDS EventStream, TLAPS

Connection ==
  [side : {"free", "greeted", "subscribed"}, client : BOOLEAN, topics : SUBSET Pr,
   waiting : Nat]

\* A payload is in one place at a time: what a reader has got and what is queued
\* for it was delivered.  Only a subscriber has a queue.
QueueInv ==
  /\ conn \in [Reader -> Connection]
  /\ \A r \in Reader :
       /\ inbox[r] + conn[r].waiting <= events
       /\ conn[r].side # "subscribed" => conn[r].waiting = 0
  /\ ~up => \A r \in Reader : conn[r] = Free

\* A reader that is not told to stop is the watcher's own, and while the watcher
\* shuts the connection of its reader, the reader has been told.
ReaderInv ==
  /\ ReaderTypeOK
  /\ \A r \in Reader : at[r] # "done" /\ ~closed[r] => r = current
  /\ watch = "closing" /\ at[current] # "done" => closed[current]

\* Where the watcher can be, and what it has there.
WatchInv ==
  /\ watch \in {"dead", "planning", "top", "waiting", "firing", "stopping", "closing"}
  /\ slugs \subseteq Pr
  /\ current \in Reader \union {NoReader}
  /\ deadline \in BOOLEAN
  /\ pass \in {"nobody", "host", "watcher", "adopt"}
  /\ fileOk \in BOOLEAN
  /\ named \subseteq Pr
  /\ published \subseteq Pr
  /\ adopting \subseteq published
  /\ adopting # {} => pass = "adopt"
  /\ over \in BOOLEAN
  /\ (current = NoReader) <=> (watch \in {"dead", "planning", "top"})
  /\ deadline => watch = "waiting"
  /\ pass = "watcher" => watch = "firing"
  /\ over => watch = "dead" /\ pass = "nobody"

CountInv == up \in BOOLEAN /\ events \in 0..MaxEvents /\ outages \in 0..MaxOutages

StreamInv == CountInv /\ QueueInv /\ ReaderInv /\ WatchInv

\* The inductive invariant has the types of the module in it.
LEMMA StreamInvTypes == StreamInv => TypeOK
<1> SUFFICES ASSUME StreamInv PROVE TypeOK
  OBVIOUS
<1>1. ASSUME NEW r \in Reader
      PROVE  /\ conn[r].side \in {"free", "greeted", "subscribed"}
             /\ conn[r].client \in BOOLEAN
             /\ conn[r].topics \subseteq Pr
             /\ conn[r].waiting \in 0..events
  <2>1. conn[r] \in Connection /\ inbox[r] \in Nat /\ events \in Nat
    BY StreamAssumption DEF StreamInv, CountInv, QueueInv, ReaderInv, ReaderTypeOK
  <2>2. conn[r].waiting \in Nat /\ inbox[r] + conn[r].waiting <= events
    BY <2>1 DEF StreamInv, QueueInv, Connection
  <2>3. conn[r].waiting \in 0..events
    BY <2>1, <2>2
  <2> QED
    BY <2>1, <2>3 DEF Connection
<1>2. BridgeTypeOK
  BY <1>1 DEF BridgeTypeOK, StreamInv, CountInv, QueueInv
<1> QED
  BY <1>2 DEF TypeOK, StreamInv, ReaderInv, WatchInv

-----------------------------------------------------------------------------
(* The queues.                                                             *)

\* What a step has to show of the queues, reader by reader: of a queue and an inbox
\* only their sum matters.
LEMMA QueuesKept ==
  ASSUME QueueInv, conn' \in [Reader -> Connection],
         \A r \in Reader : inbox[r] \in Nat /\ inbox'[r] \in Nat,
         events \in Nat, events' \in Nat, events <= events',
         \A r \in Reader :
           /\ conn'[r].waiting + inbox'[r] <= conn[r].waiting + inbox[r]
                \/ conn'[r].waiting + inbox'[r] <= events'
           /\ conn'[r].side # "subscribed" => conn'[r].waiting = 0,
         ~up' => \A r \in Reader : conn'[r] = Free
  PROVE  QueueInv'
<1> SUFFICES ASSUME NEW r \in Reader PROVE inbox'[r] + conn'[r].waiting <= events'
  BY DEF QueueInv
<1>1. conn[r].waiting \in Nat /\ conn'[r].waiting \in Nat
  BY DEF QueueInv, Connection
<1>2. inbox[r] + conn[r].waiting <= events
  BY DEF QueueInv
<1> QED
  BY <1>1, <1>2

\* A connection whose client's end is closed is one, and queues nothing.
LEMMA OrphanedIsAConnection ==
  ASSUME NEW r \in Reader, conn[r] \in Connection
  PROVE  /\ Orphaned(r) \in Connection
         /\ Orphaned(r).waiting = 0
         /\ conn[r] = Free => Orphaned(r) = Free
<1>1. Free \in Connection
  BY DEF Free, Connection
<1>2. /\ Orphaned(r) \in Connection
      /\ Orphaned(r).side = conn[r].side
      /\ Orphaned(r).client = FALSE
      /\ Orphaned(r).topics = {}
      /\ Orphaned(r).waiting = 0
  BY DEF Orphaned, Connection
<1>3. ASSUME conn[r] = Free PROVE Orphaned(r) = Free
  BY <1>1, <1>2, <1>3 DEF Free, Connection
<1> QED
  BY <1>2, <1>3

\* To close any connections, as long as no inbox fills meanwhile, keeps the queues.
LEMMA HangUpKeepsQueues ==
  ASSUME QueueInv, NEW readers, HangUp(readers), UNCHANGED <<up, events>>, events \in Nat,
         \A r \in Reader : inbox[r] \in Nat /\ inbox'[r] \in 0..inbox[r]
  PROVE  QueueInv'
<1>1. conn' \in [Reader -> Connection]
  BY OrphanedIsAConnection DEF HangUp, QueueInv
<1>2. ASSUME NEW r \in Reader
      PROVE  /\ conn'[r].waiting = 0 \/ conn'[r] = conn[r]
             /\ conn[r] = Free => conn'[r] = Free
             /\ conn[r].waiting \in Nat
             /\ conn[r].side # "subscribed" => conn[r].waiting = 0
  BY OrphanedIsAConnection DEF HangUp, QueueInv, Connection
<1>3. ASSUME NEW r \in Reader
      PROVE  /\ conn'[r].waiting + inbox'[r] <= conn[r].waiting + inbox[r]
             /\ conn'[r].side # "subscribed" => conn'[r].waiting = 0
  <2>1. CASE conn'[r].waiting = 0
    BY <1>2, <2>1
  <2>2. CASE conn'[r] = conn[r]
    BY <1>2, <2>2
  <2> QED
    BY <1>2, <2>1, <2>2
<1>4. ~up' => \A r \in Reader : conn'[r] = Free
  BY <1>2 DEF QueueInv
<1> QED
  BY <1>1, <1>3, <1>4, QueuesKept

\* So does any step that touches neither connections nor counts.
LEMMA TakingKeepsQueues ==
  ASSUME QueueInv, UNCHANGED <<up, conn, events>>, events \in Nat,
         \A r \in Reader : inbox[r] \in Nat /\ inbox'[r] \in 0..inbox[r]
  PROVE  QueueInv'
<1>1. \A r \in Reader :
        conn[r].waiting \in Nat /\ (conn[r].side # "subscribed" => conn[r].waiting = 0)
  BY DEF QueueInv, Connection
<1>2. \A r \in Reader : conn'[r].waiting + inbox'[r] <= conn[r].waiting + inbox[r]
  BY <1>1
<1> QED
  BY <1>1, <1>2, QueuesKept DEF QueueInv

\* The bridge queues what it delivers, writes to whom it serves and forgets the rest.
LEMMA BridgeKeepsQueues ==
  ASSUME StreamInv, UNCHANGED inbox,
         \/ \E r \in Reader : Subscribe(r) \/ WriteFails(r) \/ ConnectionLost(r)
         \/ \E p \in Pr : Deliver(p)
         \/ BridgeDies \/ BridgeStarts
  PROVE  QueueInv' /\ CountInv'
<1> USE StreamAssumption
<1>1. /\ events \in Nat /\ outages \in Nat /\ \A r \in Reader : inbox[r] \in Nat
      /\ \A r \in Reader : conn[r] \in Connection /\ conn[r].waiting \in Nat
      /\ \A r \in Reader : inbox[r] + conn[r].waiting <= events
      /\ \A r \in Reader : conn[r].side # "subscribed" => conn[r].waiting = 0
  BY DEF StreamInv, CountInv, ReaderInv, ReaderTypeOK, QueueInv, Connection
<1>2. CountInv'
  <2>1. up' \in BOOLEAN
    BY DEF StreamInv, CountInv, Subscribe, WriteFails, ConnectionLost, Deliver,
           BridgeDies, BridgeStarts
  <2>2. \/ UNCHANGED <<events, outages>>
        \/ events < MaxEvents /\ events' = events + 1 /\ UNCHANGED outages
        \/ outages < MaxOutages /\ outages' = outages + 1 /\ UNCHANGED events
    BY DEF Subscribe, WriteFails, ConnectionLost, Deliver, BridgeDies, BridgeStarts
  <2> QED
    BY <2>1, <2>2 DEF StreamInv, CountInv
<1>3. Free \in Connection /\ Free.waiting = 0 /\ Free.side = "free"
  BY DEF Free, Connection
<1>4. ASSUME NEW r \in Reader, Subscribe(r) PROVE QueueInv'
  <2>1. /\ conn' \in [Reader -> Connection]
        /\ \A s \in Reader : conn'[s].waiting = conn[s].waiting
        /\ \A s \in Reader : conn'[s].side # "subscribed" => conn'[s] = conn[s]
    BY <1>4, <1>1 DEF Subscribe, StreamInv, QueueInv, Connection
  <2>2. up
    BY <1>3, <1>4 DEF Subscribe, StreamInv, QueueInv
  <2> QED
    BY <1>1, <1>4, <2>1, <2>2 DEF Subscribe, QueueInv
<1>5. ASSUME NEW r \in Reader, WriteFails(r) PROVE QueueInv'
  <2>1. /\ conn' \in [Reader -> Connection]
        /\ \A s \in Reader : conn'[s] = conn[s] \/ conn'[s] = Free
    BY <1>3, <1>5 DEF WriteFails, Unsubscribed, StreamInv, QueueInv
  <2> QED
    BY <1>1, <1>3, <1>5, <2>1 DEF WriteFails, StreamInv, QueueInv
<1>6. ASSUME NEW r \in Reader, ConnectionLost(r) PROVE QueueInv'
  BY <1>1, <1>6, HangUpKeepsQueues DEF ConnectionLost, StreamInv
<1>7. ASSUME NEW p \in Pr, Deliver(p) PROVE QueueInv'
  <2>1. CASE up
    <3>1. ASSUME NEW s \in Reader
          PROVE  /\ conn'[s] \in Connection
                 /\ conn'[s].waiting \in {conn[s].waiting, conn[s].waiting + 1}
                 /\ conn'[s].side # "subscribed" => conn'[s] = conn[s]
      BY <1>1, <1>7, <2>1 DEF Deliver, Listens, Connection
    <3>2. conn' \in [Reader -> Connection]
      BY <1>7, <2>1, <3>1 DEF Deliver
    <3>3. UNCHANGED up /\ events' = events + 1 /\ inbox' = inbox
      BY <1>7 DEF Deliver
    <3>4. ASSUME NEW s \in Reader
          PROVE  /\ inbox'[s] + conn'[s].waiting <= events'
                 /\ conn'[s].side # "subscribed" => conn'[s].waiting = 0
      BY <1>1, <3>1, <3>3
    <3> QED
      BY <2>1, <3>2, <3>3, <3>4 DEF QueueInv
  <2>2. CASE ~up
    BY <1>1, <1>7, <2>2 DEF Deliver, StreamInv, QueueInv
  <2> QED
    BY <2>1, <2>2
<1>8. CASE BridgeDies
  <2>1. conn' = [r \in Reader |-> Free] /\ UNCHANGED <<events, inbox>>
    BY <1>8 DEF BridgeDies
  <2>2. conn' \in [Reader -> Connection] /\ \A r \in Reader : conn'[r] = Free
    BY <1>3, <2>1
  <2>3. \A r \in Reader : inbox'[r] + 0 <= events'
    BY <1>1, <2>1
  <2> QED
    BY <1>2, <1>3, <2>2, <2>3 DEF QueueInv
<1>9. CASE BridgeStarts
  BY <1>2, <1>9 DEF BridgeStarts, StreamInv, QueueInv
<1> QED
  BY <1>2, <1>4, <1>5, <1>6, <1>7, <1>8, <1>9

-----------------------------------------------------------------------------
(* The steps.                                                              *)

\* What the queues' lemmas ask of the counts and the inboxes.
LEMMA CountsAreNumbers ==
  ASSUME StreamInv
  PROVE  /\ events \in Nat
         /\ \A r \in Reader : inbox[r] \in Nat /\ inbox[r] \in 0..inbox[r]
         /\ \A r \in Reader : conn[r] \in Connection /\ conn[r].waiting \in Nat
         /\ \A r \in Reader : inbox[r] + conn[r].waiting <= events
BY StreamAssumption
   DEF StreamInv, CountInv, ReaderInv, ReaderTypeOK, QueueInv, Connection

\* A reader's thread opens, reads and gives up connections, and ends once it is told.
LEMMA ReaderStep ==
  ASSUME StreamInv, NEW r \in Reader, ReaderSteps(r)
  PROVE  StreamInv'
<1>1. WatchInv' /\ UNCHANGED <<watch, current>>
  BY DEF ReaderSteps, StreamInv, WatchInv, watcher, run
<1>2. CountInv' /\ UNCHANGED <<up, events, outages>>
  BY DEF ReaderSteps, Read, Ends, Connect, StoreResponse, Recheck, ReadPayload, ReadEnds,
         Writes, StreamInv, CountInv, bridge
<1>3. ReaderInv'
  <2> USE DEF StreamInv, ReaderInv, ReaderTypeOK
  <2>1. CASE Ends(r)
    BY <1>1, <2>1 DEF Ends
  <2>2. CASE Connect(r) \/ StoreResponse(r) \/ Recheck(r) \/ ReadEnds(r)
    <3>1. /\ UNCHANGED <<closed, topics, inbox>> /\ at[r] # "done"
          /\ \E place \in {"top", "opened", "stored", "reading"} :
               at' = [at EXCEPT ![r] = place]
      BY <2>2 DEF Connect, StoreResponse, Recheck, ReadEnds
    <3>2. \A s \in Reader : at'[s] # "done" => at[s] # "done"
      BY <3>1
    <3>3. ReaderTypeOK'
      BY <3>1
    <3>4. at[current] # "done" \/ at'[current] = at[current]
      BY <3>1
    <3> QED
      BY <1>1, <3>1, <3>2, <3>3, <3>4
  <2>3. CASE ReadPayload(r)
    <3>1. inbox'[r] \in 0..MaxEvents
      <4>1. /\ inbox[r] \in Nat /\ conn[r].waiting \in Nat /\ conn[r].waiting > 0
            /\ inbox[r] + conn[r].waiting <= events /\ events \in 0..MaxEvents
        BY <2>3, CountsAreNumbers DEF ReadPayload, Writes, CountInv
      <4>2. inbox'[r] = 0 \/ inbox'[r] = inbox[r] + 1
        BY <2>3 DEF ReadPayload
      <4> QED
        BY <4>1, <4>2, StreamAssumption
    <3>2. inbox' \in [Reader -> 0..MaxEvents]
      BY <2>3, <3>1 DEF ReadPayload
    <3> QED
      BY <1>1, <2>3, <3>2 DEF ReadPayload
  <2> QED
    BY <2>1, <2>2, <2>3 DEF ReaderSteps, Read
<1>4. QueueInv'
  <2>1. CASE \/ Ends(r) \/ StoreResponse(r) \/ ReadEnds(r)
             \/ Recheck(r) /\ UNCHANGED conn
    BY <1>2, <2>1, CountsAreNumbers, TakingKeepsQueues
       DEF Ends, StoreResponse, ReadEnds, Recheck, bridge, StreamInv
  <2>2. CASE Recheck(r) /\ HangUp({r})
    BY <1>2, <2>2, CountsAreNumbers, HangUpKeepsQueues DEF Recheck, StreamInv
  <2>3. CASE Connect(r)
    <3> DEFINE accepted == [side |-> "greeted", client |-> TRUE, topics |-> topics[r],
                            waiting |-> 0]
    <3>1. accepted \in Connection
      BY DEF StreamInv, ReaderInv, ReaderTypeOK, Connection
    <3>2. /\ up' = up /\ up /\ inbox' = inbox /\ events' = events
          /\ conn' = [conn EXCEPT ![r] = accepted]
      BY <2>3 DEF Connect, Accept
    <3>3. conn[r].waiting = 0 \/ conn[r].waiting \in Nat
      BY CountsAreNumbers
    <3>4. ASSUME NEW s \in Reader
          PROVE  /\ conn'[s].waiting + inbox'[s] <= conn[s].waiting + inbox[s]
                 /\ conn'[s].side # "subscribed" => conn'[s].waiting = 0
      <4>1. CASE s = r
        BY <3>2, <4>1, CountsAreNumbers DEF StreamInv, QueueInv
      <4>2. CASE s # r
        BY <3>2, <4>2, CountsAreNumbers DEF StreamInv, QueueInv
      <4> QED
        BY <4>1, <4>2
    <3>5. conn' \in [Reader -> Connection]
      BY <3>1, <3>2 DEF StreamInv, QueueInv
    <3> QED
      BY <3>2, <3>4, <3>5, CountsAreNumbers, QueuesKept DEF StreamInv
  <2>4. CASE ReadPayload(r)
    <3>1. /\ conn' = [conn EXCEPT ![r].waiting = @ - 1]
          /\ conn[r].side = "subscribed" /\ conn[r].waiting > 0
          /\ \A s \in Reader \ {r} : inbox'[s] = inbox[s]
          /\ inbox'[r] \in {0, inbox[r] + 1}
      BY <2>4 DEF ReadPayload, Writes, StreamInv, ReaderInv, ReaderTypeOK
    <3>2. conn[r].waiting - 1 \in Nat
      BY <3>1, CountsAreNumbers
    <3>3. /\ conn' \in [Reader -> Connection]
          /\ conn'[r].waiting = conn[r].waiting - 1 /\ conn'[r].side = "subscribed"
          /\ \A s \in Reader \ {r} : conn'[s] = conn[s]
      BY <3>1, <3>2 DEF StreamInv, QueueInv, Connection
    <3>4. ASSUME NEW s \in Reader
          PROVE  /\ conn'[s].waiting + inbox'[s] <= conn[s].waiting + inbox[s]
                 /\ conn'[s].side # "subscribed" => conn'[s].waiting = 0
                 /\ inbox'[s] \in Nat
      <4>1. CASE s = r
        BY <3>1, <3>3, <4>1, CountsAreNumbers
      <4>2. CASE s # r
        BY <3>1, <3>3, <4>2, CountsAreNumbers DEF StreamInv, QueueInv
      <4> QED
        BY <4>1, <4>2
    <3>5. up' /\ events' = events
      <4>1. conn[r] # Free
        BY <3>1 DEF Free
      <4>2. up
        BY <4>1 DEF StreamInv, QueueInv
      <4> QED
        BY <1>2, <4>2
    <3> QED
      BY <3>3, <3>4, <3>5, CountsAreNumbers, QueuesKept DEF StreamInv
  <2> QED
    BY <2>1, <2>2, <2>3, <2>4 DEF ReaderSteps, Read, Recheck
<1> QED
  BY <1>1, <1>2, <1>3, <1>4 DEF StreamInv

\* The bridge keeps its queues and touches nothing of the watcher.
LEMMA BridgeStep ==
  ASSUME StreamInv, BridgeSteps \/ \E r \in Reader : ServeSteps(r)
  PROVE  StreamInv'
<1>1. UNCHANGED <<reader, watcher, run>>
  BY DEF BridgeSteps, ServeSteps
<1>2. WatchInv' /\ ReaderInv'
  BY <1>1 DEF StreamInv, WatchInv, ReaderInv, ReaderTypeOK, reader, watcher, run
<1>3. QueueInv' /\ CountInv'
  BY <1>1, BridgeKeepsQueues DEF BridgeSteps, ServeSteps, Serve, reader
<1> QED
  BY <1>2, <1>3 DEF StreamInv

\* Its process gone, no thread is left and no connection of theirs has a client.
LEMMA NobodyReadsForTheDead ==
  ASSUME StreamInv, WatcherGone, UNCHANGED <<up, events>>
  PROVE  QueueInv' /\ ReaderInv'
<1>1. QueueInv'
  BY CountsAreNumbers, HangUpKeepsQueues DEF WatcherGone, NoThreads, StreamInv
<1>2. ReaderTypeOK'
  BY StreamAssumption DEF WatcherGone, NoThreads, ReaderTypeOK
<1>3. watch' = "dead" /\ \A r \in Reader : at'[r] = "done"
  BY DEF WatcherGone, NoThreads, Goto
<1> QED
  BY <1>1, <1>2, <1>3 DEF ReaderInv

\* The watcher has one reader at a time, told to stop before it is let go.
LEMMA WatcherStep ==
  ASSUME StreamInv, WatcherSteps
  PROVE  StreamInv'
<1> USE DEF Goto
<1>1. CASE \/ GetPlan \/ PlanFails \/ TopicsFail \/ Refresh \/ Fire
           \/ FiredPassBegins \/ FiredPassFails
  <2>1. UNCHANGED <<bridge, reader, current>> /\ watch' # "closing"
    BY <1>1
       DEF GetPlan, PlanFails, TopicsFail, Refresh, Refreshes, Quiet, Fire, FiredPassBegins,
           FiredPassFails, watcher
  <2>2. QueueInv' /\ CountInv' /\ ReaderInv'
    BY <2>1 DEF StreamInv, QueueInv, CountInv, ReaderInv, ReaderTypeOK, bridge, reader
  <2>3. WatchInv'
    <3> USE DEF StreamInv, WatchInv, watcher, run
    <3>1. CASE GetPlan
      BY <3>1 DEF GetPlan
    <3>2. CASE TopicsFail
      BY <3>2 DEF TopicsFail
    <3>3. CASE Refresh
      BY <3>3 DEF Refresh, Refreshes, Quiet
    <3>4. CASE Fire
      BY <3>4 DEF Fire, Quiet
    <3>5. CASE FiredPassBegins
      BY <3>5 DEF FiredPassBegins
    <3>6. CASE FiredPassFails
      BY <3>6 DEF FiredPassFails
    <3>7. CASE PlanFails
      BY <3>7 DEF PlanFails
    <3> QED
      BY <1>1, <3>1, <3>2, <3>3, <3>4, <3>5, <3>6, <3>7
  <2> QED
    BY <2>2, <2>3 DEF StreamInv
<1>2. CASE SubscribeToTopics
  <2>1. PICK r \in Reader : Start(r, published) /\ current' = r
    BY <1>2 DEF SubscribeToTopics
  <2>2. UNCHANGED <<bridge, slugs, deadline, run, inbox, closed>>
        /\ watch = "top" /\ watch' = "waiting"
    BY <1>2, <2>1 DEF SubscribeToTopics, Start
  <2>3. WatchInv'
    BY <2>1, <2>2, StreamAssumption DEF StreamInv, WatchInv, run
  <2>4. QueueInv' /\ CountInv'
    BY <2>2 DEF StreamInv, QueueInv, CountInv, bridge
  <2>5. ReaderInv'
    <3>1. /\ at' = [at EXCEPT ![r] = "top"] /\ topics' = [topics EXCEPT ![r] = published]
          /\ published \subseteq Pr
      BY <2>1 DEF Start, StreamInv, WatchInv
    <3>2. ReaderTypeOK'
      BY <2>2, <3>1 DEF StreamInv, ReaderInv, ReaderTypeOK
    <3>3. \A s \in Reader : at'[s] # "done" /\ ~closed'[s] => s = current'
      <4>1. current = NoReader
        BY <2>2 DEF StreamInv, WatchInv
      <4> QED
        BY <2>1, <2>2, <3>1, <4>1, StreamAssumption DEF StreamInv, ReaderInv
    <3> QED
      BY <2>2, <3>2, <3>3 DEF ReaderInv
  <2> QED
    BY <2>3, <2>4, <2>5 DEF StreamInv
<1>3. CASE TakePayload
  <2>1. /\ watch = "waiting" /\ UNCHANGED <<bridge, run, watch, slugs, current, at, closed, topics>>
        /\ inbox[current] > 0 /\ inbox' = [inbox EXCEPT ![current] = @ - 1]
        /\ deadline' = TRUE
    BY <1>3 DEF TakePayload, NoteBurst
  <2>2. current \in Reader
    BY <2>1 DEF StreamInv, WatchInv
  <2>3. \A s \in Reader : inbox'[s] \in 0..inbox[s]
    <3>1. inbox[current] \in Nat
      BY <2>2, CountsAreNumbers
    <3> QED
      BY <2>1, <3>1, CountsAreNumbers DEF StreamInv, ReaderInv, ReaderTypeOK
  <2>4. QueueInv' /\ CountInv'
    BY <2>1, <2>3, CountsAreNumbers, TakingKeepsQueues DEF StreamInv, CountInv, bridge
  <2>5. inbox' \in [Reader -> 0..MaxEvents]
    <3>1. inbox[current] - 1 \in 0..MaxEvents
      BY <2>1, <2>2, StreamAssumption DEF StreamInv, ReaderInv, ReaderTypeOK
    <3> QED
      BY <2>1, <3>1 DEF StreamInv, ReaderInv, ReaderTypeOK
  <2>6. ReaderInv' /\ WatchInv'
    BY <2>1, <2>5 DEF StreamInv, ReaderInv, ReaderTypeOK, WatchInv, run
  <2> QED
    BY <2>4, <2>6 DEF StreamInv
<1>4. CASE StopReader
  <2>1. /\ watch = "stopping" /\ watch' = "closing"
        /\ UNCHANGED <<slugs, current, deadline, run, at, topics, bridge>>
        /\ closed' = [closed EXCEPT ![current] = TRUE]
        /\ inbox' = [inbox EXCEPT ![current] = 0]
    BY <1>4 DEF StopReader, RaiseFlags
  <2>2. current \in Reader
    BY <2>1 DEF StreamInv, WatchInv
  <2>3. \A s \in Reader : inbox'[s] \in 0..inbox[s]
    BY <2>1, CountsAreNumbers DEF StreamInv, ReaderInv, ReaderTypeOK
  <2>4. QueueInv' /\ CountInv'
    BY <2>1, <2>3, CountsAreNumbers, TakingKeepsQueues DEF StreamInv, CountInv, bridge
  <2>5. ReaderInv' /\ WatchInv'
    BY <2>1, <2>2, StreamAssumption DEF StreamInv, ReaderInv, ReaderTypeOK, WatchInv, run
  <2> QED
    BY <2>4, <2>5 DEF StreamInv
<1>5. CASE CloseStream
  <2>1. /\ watch = "closing" /\ watch' = "top" /\ current' = NoReader
        /\ UNCHANGED <<slugs, deadline, run, reader, up, events, outages>>
        /\ HangUp({current}) \/ UNCHANGED conn
    BY <1>5 DEF CloseStream, EndRead
  <2>2. QueueInv' /\ CountInv'
    <3>1. \A r \in Reader : inbox'[r] \in 0..inbox[r]
      BY <2>1, CountsAreNumbers DEF reader
    <3>2. QueueInv'
      BY <2>1, <3>1, CountsAreNumbers, HangUpKeepsQueues, TakingKeepsQueues DEF StreamInv
    <3> QED
      BY <2>1, <3>2 DEF StreamInv, CountInv
  <2>3. WatchInv'
    BY <2>1, StreamAssumption DEF StreamInv, WatchInv, run
  <2>4. ReaderInv'
    BY <2>1 DEF StreamInv, ReaderInv, ReaderTypeOK, reader
  <2> QED
    BY <2>2, <2>3, <2>4 DEF StreamInv
<1> QED
  BY <1>1, <1>2, <1>3, <1>4, <1>5 DEF WatcherSteps

\* An edit of the graph and an adoption that fails touch no connection.
LEMMA OutageIsCounted ==
  ASSUME StreamInv, Outage \/ UNCHANGED bridge
  PROVE  CountInv' /\ UNCHANGED <<up, conn, events>>
<1>1. UNCHANGED <<up, conn, events>>
  BY DEF Outage, bridge
<1>2. outages' \in 0..MaxOutages
  BY StreamAssumption DEF Outage, bridge, StreamInv, CountInv
<1> QED
  BY <1>1, <1>2 DEF StreamInv, CountInv

\* A pass may start a watcher, never a second one beside it; adoptions and edits
\* of the graph start none.
LEMMA RunStep ==
  ASSUME StreamInv,
         \/ HostPassBegins \/ PassEnds \/ Append \/ SpoilGraph \/ RepairGraph
         \/ \E p \in Pr : Publish(p) \/ Adopt(p)
  PROVE  StreamInv'
<1>1. /\ UNCHANGED <<reader, slugs, current, deadline>>
      /\ watch' # "closing" \/ watch' = watch
      /\ Outage \/ UNCHANGED bridge
  BY DEF HostPassBegins, PassEnds, Publish, Adopt, Append, SpoilGraph, RepairGraph, watcher
<1>2. CountInv' /\ UNCHANGED <<up, conn, events>>
  BY <1>1, OutageIsCounted
<1>3. QueueInv' /\ ReaderInv'
  BY <1>1, <1>2 DEF StreamInv, QueueInv, ReaderInv, ReaderTypeOK, reader
<1>4. WatchInv'
  <2> USE DEF StreamInv, WatchInv, watcher
  <2>1. CASE HostPassBegins
    BY <2>1 DEF HostPassBegins
  <2>2. CASE PassEnds
    BY <2>2 DEF PassEnds, InPass, NeedsWatcher
  <2>3. CASE \E p \in Pr : Publish(p) \/ Adopt(p)
    BY <2>3 DEF Publish, Adopt, InPass
  <2>4. CASE Append
    <3>1. fileOk' \in BOOLEAN
      BY <2>4 DEF Append
    <3>2. /\ named' \subseteq Pr /\ pass' = "nobody" /\ adopting' = {}
          /\ UNCHANGED <<published, over, watch, slugs, current, deadline>>
          /\ pass = "adopt"
      BY <2>4 DEF Append
    <3> QED
      BY <3>1, <3>2
  <2>5. CASE SpoilGraph \/ RepairGraph
    <3>1. fileOk' \in BOOLEAN
      BY <2>5 DEF SpoilGraph, RepairGraph
    <3>2. named' \subseteq Pr /\ UNCHANGED <<pass, published, adopting, over, watch, slugs, current, deadline>>
      BY <2>5 DEF SpoilGraph, RepairGraph
    <3> QED
      BY <3>1, <3>2
  <2> QED
    BY <2>1, <2>2, <2>3, <2>4, <2>5
<1> QED
  BY <1>2, <1>3, <1>4 DEF StreamInv

\* Killed by the pass that ends the run, or dead by itself, the watcher leaves nothing.
LEMMA WatcherIsGone ==
  ASSUME StreamInv, WatcherDies \/ Conclude
  PROVE  StreamInv'
<1>1. WatcherGone /\ UNCHANGED <<up, events, fileOk, named, published, adopting>>
  BY DEF WatcherDies, Conclude
<1>2. QueueInv' /\ ReaderInv'
  BY <1>1, NobodyReadsForTheDead
<1>3. CountInv'
  BY StreamAssumption DEF WatcherDies, Conclude, StreamInv, CountInv
<1>4. WatchInv'
  <2>1. /\ watch' = "dead" /\ current' = NoReader /\ deadline' = FALSE /\ slugs' = {}
        /\ pass' \in {"nobody", "host", "adopt"} /\ over' \in BOOLEAN
        /\ over' => pass' = "nobody"
        /\ adopting # {} => pass' = "adopt"
    <3> USE DEF WatcherGone, Goto, StreamInv, WatchInv
    <3>1. CASE WatcherDies
      BY <3>1 DEF WatcherDies
    <3>2. CASE Conclude
      BY <3>2 DEF Conclude, InPass
    <3> QED
      BY <3>1, <3>2
  <2> QED
    BY <1>1, <2>1, StreamAssumption DEF StreamInv, WatchInv
<1> QED
  BY <1>2, <1>3, <1>4 DEF StreamInv

-----------------------------------------------------------------------------
(* The theorems.                                                           *)

\* Before anything is subscribed to, nothing reads.
LEMMA StreamBegins == Init => StreamInv
<1> SUFFICES ASSUME Init PROVE StreamInv
  OBVIOUS
<1> USE StreamAssumption DEF Init, BridgeInit, ReaderInit
<1>5. CountInv
  BY DEF CountInv
<1>1. WatchInv
  BY DEF WatchInv
<1>2. Free \in Connection /\ Free.waiting = 0
  BY DEF Free, Connection
<1>3. QueueInv
  BY <1>2 DEF QueueInv
<1>4. ReaderInv
  BY DEF ReaderInv, ReaderTypeOK
<1> QED
  BY <1>5, <1>1, <1>3, <1>4 DEF StreamInv

\* Every step of the bridge, the threads, the watcher and the passes keeps the invariant.
LEMMA StreamGoesOn == StreamInv /\ [Next]_vars => StreamInv'
<1> SUFFICES ASSUME StreamInv, [Next]_vars PROVE StreamInv'
  OBVIOUS
<1>1. CASE Next
  BY <1>1, BridgeStep, ReaderStep, WatcherStep, RunStep, WatcherIsGone DEF Next
<1>2. CASE UNCHANGED vars
  BY <1>2 DEF vars, bridge, reader, watcher, run, StreamInv, CountInv, QueueInv,
              ReaderInv, ReaderTypeOK, WatchInv
<1> QED
  BY <1>1, <1>2

\* Through every outage a payload is in one place at a time, and a thread that was not
\* told to stop is the one the watcher waits on (EventStream.close, SseHub).
THEOREM StreamInductive == Spec => []StreamInv
<1> QED
  BY StreamBegins, StreamGoesOn, PTL DEF Spec

\* For any readers, pull requests, deliveries and outages: no thread is left to read
\* for nobody, no queue outgrows what was delivered, and a watcher never outlives
\* its run (EventWatcher.watch, EventStream).
THEOREM StreamTypeTheorem == Spec => []TypeOK
<1> QED
  BY StreamInductive, StreamInvTypes, PTL
=============================================================================
