-------------------------- MODULE NotificationProofs --------------------------
(***************************************************************************)
(* Proofs that the story of a node is one thread, told in order but for    *)
(* the messages of commands, whatever the number of passes, commands,      *)
(* nodes, losses and crashes.                                              *)
(***************************************************************************)
EXTENDS Notification, FiniteSetTheorems, TLAPS

Message == [id : Id, by : Process, thread : Nat]

\* What the type invariant leaves open of the shapes.
ShapeInv ==
  /\ queue \in [Process -> [Node -> Seq(Event)]]
  /\ told \in [Node -> Seq(Message)]
  /\ opened \in [Node -> Nat]
  /\ binding \in [Node -> Nat]
  /\ \A p \in Process, n \in Node : hand[p][n] <= opened[n]

\* A handler that is at work has the lock, and a pass keeps it until it exits.
LockInv ==
  \A p \in Process :
    (phase[p] = "working" \/ (p \in Passes /\ phase[p] # "away")) => holder = p

\* A process queues its events in the order they are published, and while a pass
\* has any left the other processes publish nothing.
QueueInv ==
  \A p \in Process, n \in Node :
    /\ \A i \in DOMAIN queue[p][n] : queue[p][n][i].id <= published
    /\ \A i, j \in DOMAIN queue[p][n] : i < j => queue[p][n][i].id < queue[p][n][j].id
    /\ \A q \in Process \ {p} :
         \A i \in DOMAIN queue[p][n], j \in DOMAIN queue[q][n] :
           /\ queue[p][n][i].id # queue[q][n][j].id
           /\ q \in Passes => queue[p][n][i].id < queue[q][n][j].id

\* What Slack has is no longer queued, but for the message whose row is not saved
\* yet; what a process still has to say that is older is a command's to say, and
\* not about a message of its own.
Told(message, n) ==
  /\ message.id <= published
  /\ \A p \in Process : \A i \in DOMAIN queue[p][n] :
       /\ message.id = queue[p][n][i].id => i = 1 /\ step[p][n] = "posted"
       /\ message.id > queue[p][n][i].id => p \in Commands /\ message.by # p

ToldInv == \A n \in Node : \A k \in DOMAIN told[n] : Told(told[n][k], n)

\* Every thread was opened by a message of its own.
ToldIds(n) == {told[n][k].id : k \in DOMAIN told[n]}
OpenedInv == \A n \in Node : opened[n] <= Cardinality(ToldIds(n))

\* Of a node that lost nothing, one delivery at a time is underway; it knows the
\* thread of the row, and a thread without a row is in its hand.
InOneThread(n) ==
  /\ \A p, q \in Process : step[p][n] # "queued" /\ step[q][n] # "queued" => p = q
  /\ \A p \in Process : step[p][n] = "read" => hand[p][n] = binding[n]
  /\ \A p \in Process : step[p][n] = "posted" => hand[p][n] = 1
  /\ opened[n] <= 1
  /\ opened[n] = 1 => binding[n] = 1 \/ \E p \in Process : step[p][n] = "posted"

ThreadInv == \A n \in Node \ excused : InOneThread(n)

NotificationInv ==
  /\ TypeOK
  /\ ShapeInv
  /\ LockInv
  /\ QueueInv
  /\ ToldInv
  /\ OpenedInv
  /\ ThreadInv
  /\ OnlyCommandsAreOvertaken


-----------------------------------------------------------------------------
(* Queues.                                                                 *)

\* What is left of a queue when the event at its head is done with.
LEMMA QueueTail ==
  ASSUME NEW S, NEW s \in Seq(S), s # <<>>
  PROVE  /\ Tail(s) \in Seq(S)
         /\ Head(s) = s[1]
         /\ Head(s) \in S
         /\ 1 \in DOMAIN s
         /\ \A i \in DOMAIN Tail(s) : i \in Nat /\ i + 1 \in DOMAIN s /\ Tail(s)[i] = s[i + 1]
  OBVIOUS

\* A queue with one more event at its end.
LEMMA QueueAppend ==
  ASSUME NEW S, NEW s \in Seq(S), NEW e \in S
  PROVE  /\ Append(s, e) \in Seq(S)
         /\ Append(s, e) # <<>>
         /\ DOMAIN Append(s, e) = DOMAIN s \cup {Len(s) + 1}
         /\ Append(s, e)[Len(s) + 1] = e
         /\ \A i \in DOMAIN s : i \in Nat /\ i < Len(s) + 1 /\ Append(s, e)[i] = s[i]
  OBVIOUS

\* A message that is about to be sent opens no more threads than there are events
\* (sendOrCreate asks for a thread once per event).
LEMMA RoomForAThread ==
  ASSUME NotificationInv, NEW p \in Process, NEW n \in Node,
         step[p][n] = "read"
  PROVE  LET id == Head(queue[p][n]).id IN
         /\ id \in 1 .. published
         /\ opened[n] + 1 <= Cardinality(ToldIds(n) \cup {id})
         /\ opened[n] + 1 <= MaxEvents
<1> DEFINE id == Head(queue[p][n]).id
<1> USE NotificationAssumption
<1>1. queue[p][n] \in Seq(Event) /\ queue[p][n] # <<>>
  BY DEF NotificationInv, TypeOK, ShapeInv, Underway
<1>2. Head(queue[p][n]) = queue[p][n][1] /\ Head(queue[p][n]) \in Event /\ 1 \in DOMAIN queue[p][n]
  BY <1>1, QueueTail
<1>3. id \in 1 .. published
  BY <1>2 DEF NotificationInv, QueueInv, Event, Id, TypeOK
<1>4. id \in Id /\ ToldIds(n) \subseteq Id
  <2>1. told[n] \in Seq(Message)
    BY DEF NotificationInv, ShapeInv
  <2>2. \A k \in DOMAIN told[n] : told[n][k] \in Message
    BY <2>1
  <2> QED
    BY <1>2, <2>2 DEF ToldIds, Event, Message
<1>5. id \notin ToldIds(n)
  BY <1>2 DEF NotificationInv, ToldInv, Told, ToldIds
<1>6. IsFiniteSet(Id) /\ Cardinality(Id) = MaxEvents
  <2>1. 1 \in Int /\ MaxEvents \in Int
    OBVIOUS
  <2>2. Cardinality(1 .. MaxEvents) = IF 1 > MaxEvents THEN 0 ELSE MaxEvents - 1 + 1
    BY <2>1, FS_Interval
  <2> QED
    BY <2>1, <2>2, FS_Interval DEF Id
<1>7. IsFiniteSet(ToldIds(n))
  BY <1>4, <1>6, FS_Subset
<1>8. Cardinality(ToldIds(n) \cup {id}) = Cardinality(ToldIds(n)) + 1
  BY <1>5, <1>7, FS_AddElement
<1>9. Cardinality(ToldIds(n) \cup {id}) <= MaxEvents
  BY <1>4, <1>6, FS_Subset
<1>10. opened[n] <= Cardinality(ToldIds(n)) /\ opened[n] \in Nat /\ Cardinality(ToldIds(n)) \in Nat
  BY <1>7, FS_CardinalityType DEF NotificationInv, OpenedInv, ShapeInv
<1> QED
  BY <1>3, <1>8, <1>9, <1>10

-----------------------------------------------------------------------------
(* The types.                                                              *)

Typed == TypeOK /\ ShapeInv

\* A message that arrives leaves the shape of what Slack has.
LEMMA ArrivalTyped ==
  ASSUME NotificationInv, NEW p \in Process, NEW n \in Node, NEW thread \in Nat,
         queue[p][n] # <<>>, Arrives(p, n, thread)
  PROVE  /\ told' \in [Node -> Seq(Message)]
         /\ opened' \in [Node -> Nat]
         /\ \A m \in Node : opened[m] <= opened'[m]
         /\ thread <= opened'[n]
<1>1. Head(queue[p][n]) \in Event
  BY QueueTail DEF NotificationInv, ShapeInv
<1>2. [id |-> Head(queue[p][n]).id, by |-> p, thread |-> thread] \in Message
  BY <1>1 DEF Event, Message
<1>3. told[n] \in Seq(Message)
  BY DEF NotificationInv, ShapeInv
<1>4. told' \in [Node -> Seq(Message)]
  BY <1>2, <1>3, QueueAppend DEF NotificationInv, ShapeInv, Arrives
<1> QED
  BY <1>4 DEF NotificationInv, ShapeInv, Arrives

\* A delivery that ends leaves the shapes of the queues.
LEMMA EndTyped ==
  ASSUME NotificationInv, NEW p \in Process, NEW n \in Node,
         queue[p][n] # <<>>, Ends(p, n)
  PROVE  /\ queue' \in [Process -> [Node -> Seq(Event)]]
         /\ step' \in [Process -> [Node -> {"queued", "read", "posted"}]]
         /\ hand' \in [Process -> [Node -> 0..MaxEvents]]
         /\ settled' \subseteq 1..published
         /\ \A q \in Process, m \in Node :
              /\ \A i \in DOMAIN queue'[q][m] : queue'[q][m][i] \in Event
              /\ queue[q][m] = <<>> => queue'[q][m] = <<>>
              /\ step'[q][m] # "queued" =>
                   /\ queue'[q][m] # <<>>
                   /\ step'[q][m] = step[q][m]
                   /\ hand'[q][m] = hand[q][m]
              /\ hand'[q][m] <= hand[q][m]
<1> USE NotificationAssumption
<1>1. /\ Head(queue[p][n]).id \in 1 .. published
      /\ Tail(queue[p][n]) \in Seq(Event)
  <2>1. queue[p][n] \in Seq(Event)
    BY DEF NotificationInv, ShapeInv
  <2>2. Head(queue[p][n]) = queue[p][n][1] /\ Head(queue[p][n]) \in Event
        /\ 1 \in DOMAIN queue[p][n] /\ Tail(queue[p][n]) \in Seq(Event)
    BY <2>1, QueueTail
  <2> QED
    BY <2>2 DEF NotificationInv, QueueInv, Event, Id, TypeOK
<1>2. queue' \in [Process -> [Node -> Seq(Event)]]
  BY <1>1 DEF NotificationInv, ShapeInv, Ends
<1>3. /\ step' \in [Process -> [Node -> {"queued", "read", "posted"}]]
      /\ hand' \in [Process -> [Node -> 0..MaxEvents]]
  BY DEF NotificationInv, TypeOK, Ends
<1>4. settled' \subseteq 1..published
  BY <1>1 DEF NotificationInv, TypeOK, Ends
<1>5. ASSUME NEW q \in Process, NEW m \in Node
      PROVE  /\ \A i \in DOMAIN queue'[q][m] : queue'[q][m][i] \in Event
             /\ queue[q][m] = <<>> => queue'[q][m] = <<>>
             /\ step'[q][m] # "queued" =>
                   /\ queue'[q][m] # <<>>
                   /\ step'[q][m] = step[q][m]
                   /\ hand'[q][m] = hand[q][m]
             /\ hand'[q][m] <= hand[q][m]
  <2>1. \A i \in DOMAIN queue'[q][m] : queue'[q][m][i] \in Event
    BY <1>2
  <2>2. CASE q = p /\ m = n
    <3>1. step'[q][m] = "queued" /\ hand'[q][m] = 0 /\ hand[q][m] \in Nat
      BY <2>2 DEF NotificationInv, TypeOK, Ends
    <3> QED
      BY <2>1, <2>2, <3>1
  <2>3. CASE ~(q = p /\ m = n)
    <3>1. queue'[q][m] = queue[q][m]
      BY <2>3 DEF NotificationInv, ShapeInv, Ends
    <3>2. step'[q][m] = step[q][m] /\ hand'[q][m] = hand[q][m] /\ hand[q][m] \in Nat
      BY <2>3 DEF NotificationInv, TypeOK, Ends
    <3> QED
      BY <2>1, <3>1, <3>2 DEF NotificationInv, TypeOK, Underway
  <2> QED
    BY <2>2, <2>3
<1> QED
  BY <1>2, <1>3, <1>4, <1>5

\* The types, one group of variables at a time.
ControlTyped ==
  /\ holder \in Process \union {"none"}
  /\ phase \in [Process -> {"away", "working", "draining"}]
  /\ published \in 0..MaxEvents
  /\ settled \subseteq 1..published
  /\ dropped \subseteq 1..published
  /\ excused \subseteq Node
  /\ losses \in 0..MaxLosses
  /\ crashes \in 0..MaxCrashes

DeliveryTyped ==
  /\ queue \in [Process -> [Node -> Seq(Event)]]
  /\ step \in [Process -> [Node -> {"queued", "read", "posted"}]]
  /\ hand \in [Process -> [Node -> 0..MaxEvents]]
  /\ \A p \in Process, n \in Node :
       /\ phase[p] = "away" => queue[p][n] = <<>>
       /\ step[p][n] # "queued" => queue[p][n] # <<>>
       /\ step[p][n] = "posted" => hand[p][n] # 0
       /\ hand[p][n] <= opened[n]

SlackTyped ==
  /\ told \in [Node -> Seq(Message)]
  /\ opened \in [Node -> Nat]
  /\ binding \in [Node -> Nat]
  /\ \A n \in Node : binding[n] <= opened[n]

\* The groups together are the type invariant.
LEMMA TypedInGroups ==
  /\ Typed => ControlTyped /\ DeliveryTyped /\ SlackTyped
  /\ (ControlTyped /\ DeliveryTyped /\ SlackTyped)' => Typed'
<1>1. Typed => ControlTyped
  BY DEF Typed, TypeOK, ControlTyped
<1>2. Typed => DeliveryTyped
  BY DEF Typed, TypeOK, ShapeInv, DeliveryTyped, Underway
<1>3. Typed => SlackTyped
  BY DEF Typed, TypeOK, ShapeInv, SlackTyped
<1>4. ASSUME (ControlTyped /\ DeliveryTyped /\ SlackTyped)' PROVE Typed'
  <2>1. \A p \in Process, n \in Node : \A i \in DOMAIN queue'[p][n] : queue'[p][n][i] \in Event
    BY <1>4 DEF DeliveryTyped
  <2>2. \A n \in Node : binding'[n] \in 0 .. opened'[n]
    BY <1>4 DEF SlackTyped
  <2>3. TypeOK'
    BY <1>4, <2>1, <2>2 DEF ControlTyped, DeliveryTyped, TypeOK, Underway
  <2>4. ShapeInv'
    BY <1>4 DEF DeliveryTyped, SlackTyped, ShapeInv
  <2> QED
    BY <2>3, <2>4 DEF Typed
<1> QED
  BY <1>1, <1>2, <1>3, <1>4

\* What becomes of the deliveries of a process that is gone.
LEMMA GoneTyped ==
  ASSUME DeliveryTyped, NEW p \in Process, GoneFromEveryNode(p)
  PROVE  /\ queue' \in [Process -> [Node -> Seq(Event)]]
         /\ step' \in [Process -> [Node -> {"queued", "read", "posted"}]]
         /\ hand' \in [Process -> [Node -> 0..MaxEvents]]
         /\ \A m \in Node : queue'[p][m] = <<>> /\ step'[p][m] = "queued" /\ hand'[p][m] = 0
         /\ \A q \in Process, m \in Node : q # p =>
              queue'[q][m] = queue[q][m] /\ step'[q][m] = step[q][m] /\ hand'[q][m] = hand[q][m]
<1> USE NotificationAssumption
<1>1. [n \in Node |-> <<>>] \in [Node -> Seq(Event)]
  OBVIOUS
<1>2. queue' \in [Process -> [Node -> Seq(Event)]]
  BY <1>1 DEF GoneFromEveryNode, DeliveryTyped
<1>3. /\ step' \in [Process -> [Node -> {"queued", "read", "posted"}]]
      /\ hand' \in [Process -> [Node -> 0..MaxEvents]]
  BY DEF GoneFromEveryNode, DeliveryTyped
<1>4. \A m \in Node : queue'[p][m] = <<>> /\ step'[p][m] = "queued" /\ hand'[p][m] = 0
  BY DEF GoneFromEveryNode, DeliveryTyped
<1>5. \A q \in Process, m \in Node : q # p =>
        queue'[q][m] = queue[q][m] /\ step'[q][m] = step[q][m] /\ hand'[q][m] = hand[q][m]
  BY DEF GoneFromEveryNode, DeliveryTyped
<1> QED
  BY <1>2, <1>3, <1>4, <1>5

\* A node has no more threads than events were published about it.
LEMMA ThreadsAreBounded ==
  ASSUME NotificationInv, NEW n \in Node
  PROVE  opened[n] <= MaxEvents
<1> USE NotificationAssumption
<1>1. IsFiniteSet(Id) /\ Cardinality(Id) = MaxEvents
  <2>1. 1 \in Int /\ MaxEvents \in Int
    OBVIOUS
  <2>2. Cardinality(1 .. MaxEvents) = IF 1 > MaxEvents THEN 0 ELSE MaxEvents - 1 + 1
    BY <2>1, FS_Interval
  <2> QED
    BY <2>1, <2>2, FS_Interval DEF Id
<1>2. \A k \in DOMAIN told[n] : told[n][k] \in Message
  BY DEF NotificationInv, ShapeInv
<1>3. ToldIds(n) \subseteq Id
  BY <1>2 DEF ToldIds, Message
<1>4. IsFiniteSet(ToldIds(n)) /\ Cardinality(ToldIds(n)) <= MaxEvents
  BY <1>1, <1>3, FS_Subset
<1>5. Cardinality(ToldIds(n)) \in Nat
  BY <1>4, FS_CardinalityType
<1> QED
  BY <1>4, <1>5 DEF NotificationInv, OpenedInv, ShapeInv

\* Steps of the processes: a handler begins or returns, a process exits or is killed.
ProcessStep(p) == Begin(p) \/ HandlerReturns(p) \/ Exit(p) \/ Crash(p)

\* Steps of a node's delivery by a process.
NodeStep(p, n) ==
  \/ \E kind \in Kind : Publish(p, n, kind)
  \/ Deliver(p, n)
  \/ \E hasIt \in BOOLEAN : PostFails(p, n, hasIt)

\* A step of a process leaves the types.
LEMMA ProcessStepTyped ==
  ASSUME NotificationInv, NEW p \in Process, ProcessStep(p)
  PROVE  Typed'
<1> USE NotificationAssumption
<1>1. ControlTyped /\ DeliveryTyped /\ SlackTyped
  BY TypedInGroups DEF NotificationInv, Typed
<1>2. SlackTyped'
  BY <1>1 DEF ProcessStep, Begin, HandlerReturns, Exit, Crash, slack, SlackTyped
<1>3. CASE Begin(p)
  <2>1. ControlTyped'
    BY <1>1, <1>3 DEF Begin, slack, trouble, ControlTyped
  <2>2. DeliveryTyped'
    BY <1>1, <1>3 DEF Begin, slack, delivery, ControlTyped, DeliveryTyped
  <2> QED
    BY <2>1, <2>2, <1>2, TypedInGroups
<1>4. CASE HandlerReturns(p)
  <2>1. ControlTyped'
    BY <1>1, <1>4 DEF HandlerReturns, slack, trouble, ControlTyped
  <2>2. DeliveryTyped'
    BY <1>1, <1>4 DEF HandlerReturns, slack, delivery, ControlTyped, DeliveryTyped
  <2> QED
    BY <2>1, <2>2, <1>2, TypedInGroups
<1>5. ASSUME GoneFromEveryNode(p), phase' = [phase EXCEPT ![p] = "away"], opened' = opened
      PROVE  DeliveryTyped'
  <2>1. \A q \in Process : q # p => phase'[q] = phase[q]
    BY <1>1, <1>5 DEF ControlTyped
  <2>2. \A m \in Node : opened[m] \in Nat
    BY <1>1 DEF SlackTyped
  <2>3. /\ queue' \in [Process -> [Node -> Seq(Event)]]
        /\ step' \in [Process -> [Node -> {"queued", "read", "posted"}]]
        /\ hand' \in [Process -> [Node -> 0..MaxEvents]]
        /\ \A m \in Node : queue'[p][m] = <<>> /\ step'[p][m] = "queued" /\ hand'[p][m] = 0
        /\ \A q \in Process, m \in Node : q # p =>
              queue'[q][m] = queue[q][m] /\ step'[q][m] = step[q][m] /\ hand'[q][m] = hand[q][m]
    BY <1>1, <1>5, GoneTyped
  <2>4. ASSUME NEW q \in Process, NEW m \in Node
        PROVE  /\ phase'[q] = "away" => queue'[q][m] = <<>>
               /\ step'[q][m] # "queued" => queue'[q][m] # <<>>
               /\ step'[q][m] = "posted" => hand'[q][m] # 0
               /\ hand'[q][m] <= opened'[m]
    <3>1. CASE q = p
      BY <3>1, <2>2, <2>3, <1>5
    <3>2. CASE q # p
      BY <3>2, <2>1, <2>3, <1>1, <1>5 DEF DeliveryTyped
    <3> QED
      BY <3>1, <3>2
  <2> QED
    BY <2>3, <2>4 DEF DeliveryTyped
<1>6. CASE Exit(p)
  <2>1. ControlTyped'
    BY <1>1, <1>6 DEF Exit, slack, trouble, ControlTyped
  <2>2. DeliveryTyped'
    BY <1>5, <1>6 DEF Exit, slack
  <2> QED
    BY <2>1, <2>2, <1>2, TypedInGroups
<1>7. CASE Crash(p)
  <2>1. {e.id : e \in UNION {ToSet(queue[p][n]) : n \in Node}} \subseteq 1 .. published
    <3> SUFFICES ASSUME NEW n \in Node, NEW e \in ToSet(queue[p][n])
                 PROVE  e.id \in 1 .. published
      OBVIOUS
    <3>1. PICK i \in DOMAIN queue[p][n] : e = queue[p][n][i]
      BY DEF ToSet
    <3>2. e \in Event /\ e.id <= published
      BY <3>1 DEF NotificationInv, TypeOK, QueueInv
    <3> QED
      BY <3>2, <1>1 DEF ControlTyped, Event, Id
  <2>2. dropped' \subseteq 1 .. published'
    BY <1>1, <1>7, <2>1 DEF Crash, ControlTyped
  <2>3. /\ holder' \in Process \cup {"none"}
        /\ phase' \in [Process -> {"away", "working", "draining"}]
        /\ excused' \subseteq Node
    BY <1>1, <1>7 DEF Crash, ControlTyped
  <2>4. ControlTyped'
    BY <1>1, <1>7, <2>2, <2>3 DEF Crash, slack, ControlTyped
  <2>5. DeliveryTyped'
    BY <1>5, <1>7 DEF Crash, slack
  <2> QED
    BY <2>4, <2>5, <1>2, TypedInGroups
<1> QED
  BY <1>3, <1>4, <1>6, <1>7 DEF ProcessStep

\* A delivery that ends leaves the types of the deliveries, whatever arrived.
LEMMA EndingDeliveryTyped ==
  ASSUME NotificationInv, NEW p \in Process, NEW n \in Node,
         queue[p][n] # <<>>, Ends(p, n), phase' = phase,
         opened' \in [Node -> Nat], \A m \in Node : opened[m] <= opened'[m]
  PROVE  DeliveryTyped'
<1> USE NotificationAssumption
<1>1. ControlTyped /\ DeliveryTyped /\ SlackTyped
  BY TypedInGroups DEF NotificationInv, Typed
<1>2. /\ queue' \in [Process -> [Node -> Seq(Event)]]
      /\ step' \in [Process -> [Node -> {"queued", "read", "posted"}]]
      /\ hand' \in [Process -> [Node -> 0..MaxEvents]]
  BY EndTyped
<1>3. ASSUME NEW q \in Process, NEW m \in Node
      PROVE  /\ phase'[q] = "away" => queue'[q][m] = <<>>
             /\ step'[q][m] # "queued" => queue'[q][m] # <<>>
             /\ step'[q][m] = "posted" => hand'[q][m] # 0
             /\ hand'[q][m] <= opened'[m]
  <2>1. /\ queue[q][m] = <<>> => queue'[q][m] = <<>>
        /\ step'[q][m] # "queued" =>
             queue'[q][m] # <<>> /\ step'[q][m] = step[q][m] /\ hand'[q][m] = hand[q][m]
        /\ hand'[q][m] <= hand[q][m]
    BY EndTyped
  <2>2. hand'[q][m] \in Nat /\ hand[q][m] \in Nat /\ opened[m] \in Nat /\ opened'[m] \in Nat
        /\ hand[q][m] <= opened[m] /\ opened[m] <= opened'[m]
    BY <1>1, <1>2 DEF DeliveryTyped, SlackTyped
  <2>3. hand'[q][m] <= opened'[m]
    BY <2>1, <2>2
  <2> QED
    BY <1>1, <2>1, <2>3 DEF DeliveryTyped
<1> QED
  BY <1>2, <1>3 DEF DeliveryTyped

\* A step of a node's delivery leaves the types.
LEMMA NodeStepTyped ==
  ASSUME NotificationInv, NEW p \in Process, NEW n \in Node, NodeStep(p, n)
  PROVE  Typed'
<1> USE NotificationAssumption
<1>1. ControlTyped /\ DeliveryTyped /\ SlackTyped
  BY TypedInGroups DEF NotificationInv, Typed
<1>2. ASSUME step[p][n] # "queued" PROVE queue[p][n] # <<>>
  BY <1>1, <1>2 DEF DeliveryTyped
<1>3. ASSUME Ends(p, n), queue[p][n] # <<>> PROVE settled' \subseteq 1 .. published
  BY <1>3, EndTyped
<1>4. ASSUME NEW thread \in Nat, Arrives(p, n, thread), queue[p][n] # <<>>
      PROVE  /\ told' \in [Node -> Seq(Message)]
             /\ opened' \in [Node -> Nat]
             /\ \A m \in Node : opened[m] <= opened'[m]
             /\ thread <= opened'[n]
  BY <1>4, ArrivalTyped
<1>5. ASSUME NEW kind \in Kind, Publish(p, n, kind) PROVE Typed'
  <2>1. [id |-> published', kind |-> kind] \in Event
    BY <1>1, <1>5 DEF Publish, Event, Id, ControlTyped
  <2>2. queue' \in [Process -> [Node -> Seq(Event)]]
    BY <1>1, <1>5, <2>1, QueueAppend DEF Publish, DeliveryTyped
  <2>3. ASSUME NEW q \in Process, NEW m \in Node
        PROVE  /\ queue[q][m] # <<>> => queue'[q][m] # <<>>
               /\ queue'[q][m] # queue[q][m] => q = p
    <3>1. CASE q = p /\ m = n
      BY <1>1, <1>5, <3>1, <2>1, QueueAppend DEF Publish, DeliveryTyped
    <3>2. CASE ~(q = p /\ m = n)
      BY <1>1, <1>5, <3>2 DEF Publish, DeliveryTyped
    <3> QED
      BY <3>1, <3>2
  <2>4. ControlTyped'
    BY <1>1, <1>5 DEF Publish, slack, trouble, ControlTyped
  <2>5. DeliveryTyped'
    <3>1. phase' = phase /\ phase[p] = "working" /\ step' = step /\ hand' = hand /\ opened' = opened
      BY <1>5 DEF Publish, slack
    <3>2. ASSUME NEW q \in Process, NEW m \in Node
          PROVE  /\ phase[q] = "away" => queue'[q][m] = <<>>
                 /\ step[q][m] # "queued" => queue'[q][m] # <<>>
      <4>1. /\ phase[q] = "away" => queue[q][m] = <<>>
            /\ step[q][m] # "queued" => queue[q][m] # <<>>
        BY <1>1 DEF DeliveryTyped
      <4>2. /\ queue[q][m] # <<>> => queue'[q][m] # <<>>
            /\ queue'[q][m] # queue[q][m] => q = p
        BY <2>3
      <4>3. phase[q] = "away" => q # p
        BY <3>1
      <4> QED
        BY <4>1, <4>2, <4>3
    <3>3. ASSUME NEW q \in Process, NEW m \in Node
          PROVE  /\ phase'[q] = "away" => queue'[q][m] = <<>>
                 /\ step'[q][m] # "queued" => queue'[q][m] # <<>>
                 /\ step'[q][m] = "posted" => hand'[q][m] # 0
                 /\ hand'[q][m] <= opened'[m]
      <4>1. (step[q][m] = "posted" => hand[q][m] # 0) /\ hand[q][m] <= opened[m]
        BY <1>1 DEF DeliveryTyped
      <4> QED
        BY <3>1, <3>2, <4>1
    <3>4. step' \in [Process -> [Node -> {"queued", "read", "posted"}]]
          /\ hand' \in [Process -> [Node -> 0..MaxEvents]]
      BY <1>1, <3>1 DEF DeliveryTyped
    <3> QED
      BY <2>2, <3>3, <3>4 DEF DeliveryTyped
  <2>6. SlackTyped'
    BY <1>1, <1>5 DEF Publish, slack, SlackTyped
  <2> QED
    BY <2>4, <2>5, <2>6, TypedInGroups
<1>6. CASE ReadThread(p, n)
  <2>1. binding[n] \in 0 .. MaxEvents /\ binding[n] <= opened[n]
    BY <1>1, ThreadsAreBounded DEF SlackTyped
  <2>2. /\ step' \in [Process -> [Node -> {"queued", "read", "posted"}]]
        /\ hand' \in [Process -> [Node -> 0..MaxEvents]]
        /\ excused' \subseteq Node
    BY <1>1, <1>6, <2>1 DEF ReadThread, ControlTyped, DeliveryTyped
  <2>3. ASSUME NEW q \in Process, NEW m \in Node
        PROVE  /\ hand'[q][m] <= opened[m]
               /\ step'[q][m] # "queued" => queue[q][m] # <<>>
               /\ step'[q][m] = "posted" => hand'[q][m] # 0
    <3>1. CASE q = p /\ m = n
      BY <1>1, <1>6, <2>1, <3>1 DEF ReadThread, NextUp, Underway, DeliveryTyped
    <3>2. CASE ~(q = p /\ m = n)
      BY <1>1, <1>6, <3>2 DEF ReadThread, DeliveryTyped
    <3> QED
      BY <3>1, <3>2
  <2>4. ControlTyped'
    BY <1>1, <1>6, <2>2 DEF ReadThread, slack, ControlTyped
  <2>5. DeliveryTyped'
    BY <1>1, <1>6, <2>2, <2>3 DEF ReadThread, slack, DeliveryTyped
  <2>6. SlackTyped'
    BY <1>1, <1>6 DEF ReadThread, slack, SlackTyped
  <2> QED
    BY <2>4, <2>5, <2>6, TypedInGroups
<1>7. CASE SaysNothing(p, n)
  <2>1. queue[p][n] # <<>> /\ Ends(p, n)
    BY <1>2, <1>7 DEF SaysNothing
  <2>2. SlackTyped' /\ opened' = opened
    BY <1>1, <1>7 DEF SaysNothing, SlackTyped
  <2>3. ControlTyped'
    BY <1>1, <1>3, <1>7, <2>1 DEF SaysNothing, trouble, ControlTyped
  <2>4. opened' \in [Node -> Nat] /\ \A m \in Node : opened[m] <= opened'[m]
    BY <1>1, <2>2 DEF SlackTyped
  <2>5. DeliveryTyped'
    BY <1>7, <2>1, <2>4, EndingDeliveryTyped DEF SaysNothing
  <2> QED
    BY <2>2, <2>3, <2>5, TypedInGroups
<1>8. CASE Replies(p, n)
  <2>1. queue[p][n] # <<>> /\ Ends(p, n) /\ Arrives(p, n, hand[p][n]) /\ hand[p][n] \in Nat
    BY <1>1, <1>2, <1>8 DEF Replies, DeliveryTyped
  <2>2. /\ told' \in [Node -> Seq(Message)]
        /\ opened' \in [Node -> Nat]
        /\ \A m \in Node : opened[m] <= opened'[m]
    BY <2>1, <1>4
  <2>3. ControlTyped'
    BY <1>1, <1>3, <1>8, <2>1 DEF Replies, trouble, ControlTyped
  <2>4. SlackTyped'
    BY <1>1, <1>8, <2>2 DEF Replies, SlackTyped
  <2>5. DeliveryTyped'
    BY <1>8, <2>1, <2>2, EndingDeliveryTyped DEF Replies
  <2> QED
    BY <2>3, <2>4, <2>5, TypedInGroups
<1>9. CASE OpensThread(p, n)
  <2>1. queue[p][n] # <<>> /\ Arrives(p, n, opened[n] + 1) /\ opened[n] + 1 \in Nat
    BY <1>1, <1>2, <1>9 DEF OpensThread, SlackTyped
  <2>2. /\ told' \in [Node -> Seq(Message)]
        /\ opened' \in [Node -> Nat]
        /\ \A m \in Node : opened[m] <= opened'[m]
        /\ opened[n] + 1 <= opened'[n]
    BY <2>1, <1>4
  <2>3. opened[n] + 1 \in 1 .. MaxEvents
    <3>1. step[p][n] = "read" /\ opened[n] \in Nat
      BY <1>1, <1>9 DEF OpensThread, SlackTyped
    <3>2. opened[n] + 1 <= MaxEvents
      BY <3>1, RoomForAThread
    <3> QED
      BY <3>1, <3>2
  <2>4. /\ step' \in [Process -> [Node -> {"queued", "read", "posted"}]]
        /\ hand' \in [Process -> [Node -> 0..MaxEvents]]
    BY <1>1, <1>9, <2>3 DEF OpensThread, DeliveryTyped
  <2>5. ASSUME NEW q \in Process, NEW m \in Node
        PROVE  /\ hand'[q][m] <= opened'[m]
               /\ step'[q][m] # "queued" => queue[q][m] # <<>>
               /\ step'[q][m] = "posted" => hand'[q][m] # 0
    <3>1. CASE q = p /\ m = n
      <4>1. hand'[q][m] = opened[n] + 1
        BY <1>1, <1>9, <3>1 DEF OpensThread, DeliveryTyped
      <4> QED
        BY <2>1, <2>2, <2>3, <3>1, <4>1
    <3>2. CASE ~(q = p /\ m = n)
      <4>1. step'[q][m] = step[q][m] /\ hand'[q][m] = hand[q][m]
        BY <1>1, <1>9, <3>2 DEF OpensThread, DeliveryTyped
      <4>2. hand[q][m] <= opened[m] /\ opened[m] <= opened'[m] /\ hand[q][m] \in Nat
            /\ opened[m] \in Nat /\ opened'[m] \in Nat
        BY <1>1, <2>2 DEF DeliveryTyped, SlackTyped
      <4>3. hand'[q][m] <= opened'[m]
        BY <4>1, <4>2
      <4> QED
        BY <1>1, <4>1, <4>3 DEF DeliveryTyped
    <3> QED
      BY <3>1, <3>2
  <2>6. ControlTyped'
    BY <1>1, <1>9 DEF OpensThread, trouble, ControlTyped
  <2>7. SlackTyped'
    BY <1>1, <1>9, <2>2 DEF OpensThread, SlackTyped
  <2>8. DeliveryTyped'
    BY <1>1, <1>9, <2>4, <2>5 DEF OpensThread, DeliveryTyped
  <2> QED
    BY <2>6, <2>7, <2>8, TypedInGroups
<1>10. CASE SaveThread(p, n)
  <2>1. queue[p][n] # <<>> /\ Ends(p, n)
    BY <1>2, <1>10 DEF SaveThread
  <2>2. binding' \in [Node -> Nat] /\ \A m \in Node : binding'[m] <= opened[m]
    BY <1>1, <1>10 DEF SaveThread, Row, DeliveryTyped, SlackTyped
  <2>3. SlackTyped' /\ opened' = opened
    BY <1>1, <1>10, <2>2 DEF SaveThread, SlackTyped
  <2>4. ControlTyped'
    BY <1>1, <1>3, <1>10, <2>1 DEF SaveThread, trouble, ControlTyped
  <2>5. opened' \in [Node -> Nat] /\ \A m \in Node : opened[m] <= opened'[m]
    BY <1>1, <2>3 DEF SlackTyped
  <2>6. DeliveryTyped'
    BY <1>10, <2>1, <2>5, EndingDeliveryTyped DEF SaveThread
  <2> QED
    BY <2>3, <2>4, <2>6, TypedInGroups
<1>11. ASSUME NEW hasIt \in BOOLEAN, PostFails(p, n, hasIt) PROVE Typed'
  <2>1. queue[p][n] # <<>> /\ Ends(p, n)
    BY <1>2, <1>11 DEF PostFails
  <2>2. /\ told' \in [Node -> Seq(Message)]
        /\ opened' \in [Node -> Nat]
        /\ \A m \in Node : opened[m] <= opened'[m]
    <3>1. CASE hasIt
      <4> DEFINE thread == IF hand[p][n] = 0 THEN opened[n] + 1 ELSE hand[p][n]
      <4>1. Arrives(p, n, thread)
        BY <1>11, <3>1 DEF PostFails
      <4>2. thread \in Nat
        BY <1>1 DEF DeliveryTyped, SlackTyped
      <4> HIDE DEF thread
      <4> QED
        BY <2>1, <4>1, <4>2, <1>4
    <3>2. CASE ~hasIt
      BY <1>1, <1>11, <3>2 DEF PostFails, SlackTyped
    <3> QED
      BY <3>1, <3>2
  <2>3. losses' \in 0 .. MaxLosses /\ excused' \subseteq Node
    BY <1>1, <1>11 DEF PostFails, ControlTyped
  <2>4. ControlTyped'
    BY <1>1, <1>3, <1>11, <2>1, <2>3 DEF PostFails, ControlTyped
  <2>5. SlackTyped'
    <3>1. binding' = binding
      BY <1>11 DEF PostFails
    <3>2. ASSUME NEW m \in Node PROVE binding[m] <= opened'[m]
      BY <1>1, <2>2 DEF SlackTyped
    <3> QED
      BY <1>1, <2>2, <3>1, <3>2 DEF SlackTyped
  <2>6. DeliveryTyped'
    BY <1>11, <2>1, <2>2, EndingDeliveryTyped DEF PostFails
  <2> QED
    BY <2>4, <2>5, <2>6, TypedInGroups
<1> QED
  BY <1>5, <1>6, <1>7, <1>8, <1>9, <1>10, <1>11 DEF NodeStep, Deliver


\* A step of the whole is a step of a process, of a delivery, or none.
LEMMA StepsOfTheStory ==
  ASSUME [Next]_vars
  PROVE  \/ UNCHANGED vars
         \/ \E p \in Process : ProcessStep(p)
         \/ \E p \in Process, n \in Node : NodeStep(p, n)
BY DEF Next, ProcessStep, NodeStep

\* A delivery leaves the lock and the handlers alone, and but for a new event what is
\* published.
LEMMA DeliveriesLeaveTheLock ==
  ASSUME NEW p \in Process, NEW n \in Node, NodeStep(p, n)
  PROVE  /\ holder' = holder
         /\ phase' = phase
         /\ published' # published => \E kind \in Kind : Publish(p, n, kind)
<1>1. CASE \E kind \in Kind : Publish(p, n, kind)
  BY <1>1 DEF Publish
<1>2. CASE ReadThread(p, n)
  BY <1>2 DEF ReadThread
<1>3. CASE SaysNothing(p, n)
  BY <1>3 DEF SaysNothing
<1>4. CASE Replies(p, n)
  BY <1>4 DEF Replies
<1>5. CASE OpensThread(p, n)
  BY <1>5 DEF OpensThread
<1>6. CASE SaveThread(p, n)
  BY <1>6 DEF SaveThread
<1>7. CASE \E hasIt \in BOOLEAN : PostFails(p, n, hasIt)
  BY <1>7 DEF PostFails
<1> QED
  BY <1>1, <1>2, <1>3, <1>4, <1>5, <1>6, <1>7 DEF NodeStep, Deliver

\* Every step leaves the types.
LEMMA TypesKept ==
  ASSUME NotificationInv, [Next]_vars
  PROVE  Typed'
<1>1. CASE UNCHANGED vars
  BY <1>1 DEF NotificationInv, Typed, TypeOK, ShapeInv, vars, delivery, slack, trouble, Underway
<1> QED
  BY <1>1, StepsOfTheStory, ProcessStepTyped, NodeStepTyped

\* The run lock is handed over as LockInv says, whatever a delivery does: begin takes
\* it, a command's handler lets go of it, and a pass does when it exits.
LEMMA LockKept ==
  ASSUME NotificationInv, [Next]_vars
  PROVE  LockInv'
<1> USE NotificationAssumption
<1>1. /\ holder \in Process \cup {"none"}
      /\ phase \in [Process -> {"away", "working", "draining"}]
      /\ LockInv
  BY DEF NotificationInv, TypeOK
<1>2. CASE UNCHANGED <<holder, phase>>
  BY <1>1, <1>2 DEF LockInv
<1>3. ASSUME NEW p \in Process, Begin(p) PROVE LockInv'
  BY <1>1, <1>3 DEF Begin, LockInv
<1>4. ASSUME NEW p \in Process, HandlerReturns(p) PROVE LockInv'
  BY <1>1, <1>4 DEF HandlerReturns, KeepsLock, LockInv
<1>5. ASSUME NEW p \in Process, Exit(p) PROVE LockInv'
  BY <1>1, <1>5 DEF Exit, LockInv
<1>6. ASSUME NEW p \in Process, Crash(p) PROVE LockInv'
  BY <1>1, <1>6 DEF Crash, LockInv
<1>7. ASSUME UNCHANGED vars PROVE UNCHANGED <<holder, phase>>
  BY <1>7 DEF vars
<1> QED
  BY <1>2, <1>3, <1>4, <1>5, <1>6, <1>7, StepsOfTheStory, DeliveriesLeaveTheLock DEF ProcessStep


-----------------------------------------------------------------------------
(* What is queued.                                                         *)

\* What is queued of process p and node n after a step was queued before it, in the
\* same order; a head that stays and was posted stays posted.
Shrinks(p, n) ==
  \E d \in {0, 1} : \A i \in DOMAIN queue'[p][n] :
    /\ i \in Nat \ {0}
    /\ i + d \in DOMAIN queue[p][n]
    /\ queue'[p][n][i] = queue[p][n][i + d]
    /\ d = 0 /\ step[p][n] = "posted" => step'[p][n] = "posted"

\* Only publishing queues anything: every other step delivers, or loses, what was.
LEMMA QueuesShrink ==
  ASSUME NotificationInv, [Next]_vars, published' = published
  PROVE  \A p \in Process, n \in Node : Shrinks(p, n)
<1> USE NotificationAssumption
<1> DEFINE Less(p, n) == \/ /\ queue'[p][n] = queue[p][n]
                            /\ step[p][n] = "posted" => step'[p][n] = "posted"
                         \/ queue'[p][n] = <<>>
                         \/ queue[p][n] # <<>> /\ queue'[p][n] = Tail(queue[p][n])
<1>1. ControlTyped /\ DeliveryTyped /\ SlackTyped
  BY TypedInGroups DEF NotificationInv, Typed
<1>2. ASSUME NEW p \in Process, NEW n \in Node, Less(p, n)
      PROVE  Shrinks(p, n)
  <2>1. queue[p][n] \in Seq(Event)
    BY <1>1 DEF DeliveryTyped
  <2>2. CASE queue'[p][n] = queue[p][n] /\ (step[p][n] = "posted" => step'[p][n] = "posted")
    <3>1. \A i \in DOMAIN queue'[p][n] :
             i \in Nat \ {0} /\ i + 0 \in DOMAIN queue[p][n] /\ queue'[p][n][i] = queue[p][n][i + 0]
      BY <2>1, <2>2
    <3> QED
      BY <2>2, <3>1 DEF Shrinks
  <2>3. CASE queue'[p][n] = <<>>
    BY <2>3 DEF Shrinks
  <2>4. CASE queue[p][n] # <<>> /\ queue'[p][n] = Tail(queue[p][n])
    <3>1. Tail(queue[p][n]) \in Seq(Event)
      BY <2>1, <2>4, QueueTail
    <3>2. \A i \in DOMAIN queue'[p][n] :
             i \in Nat \ {0} /\ i + 1 \in DOMAIN queue[p][n] /\ queue'[p][n][i] = queue[p][n][i + 1]
      BY <2>1, <2>4, <3>1, QueueTail
    <3> QED
      BY <3>2 DEF Shrinks
  <2> QED
    BY <1>2, <2>2, <2>3, <2>4
<1>3. CASE UNCHANGED <<queue, step>>
  BY <1>2, <1>3
<1>4. ASSUME NEW p \in Process, NEW n \in Node, queue[p][n] # <<>>, Ends(p, n),
             NEW q \in Process, NEW m \in Node
      PROVE  Less(q, m)
  <2>1. CASE q = p /\ m = n
    BY <1>1, <1>4, <2>1 DEF Ends, DeliveryTyped
  <2>2. CASE ~(q = p /\ m = n)
    <3>1. queue'[q][m] = queue[q][m]
      BY <1>1, <1>4, <2>2 DEF Ends, DeliveryTyped
    <3>2. step'[q][m] = step[q][m]
      BY <1>1, <1>4, <2>2 DEF Ends, DeliveryTyped
    <3> QED
      BY <3>1, <3>2
  <2> QED
    BY <2>1, <2>2
<1>5. ASSUME NEW p \in Process, GoneFromEveryNode(p), NEW q \in Process, NEW m \in Node
      PROVE  Less(q, m)
  <2>1. \A k \in Node : queue'[p][k] = <<>>
    BY <1>1, <1>5, GoneTyped
  <2>2. \A r \in Process, k \in Node : r # p =>
          queue'[r][k] = queue[r][k] /\ step'[r][k] = step[r][k]
    BY <1>1, <1>5, GoneTyped
  <2> QED
    BY <2>1, <2>2
<1>6. ASSUME NEW p \in Process, ProcessStep(p)
      PROVE  UNCHANGED <<queue, step>> \/ GoneFromEveryNode(p)
  BY <1>6 DEF ProcessStep, Begin, HandlerReturns, Exit, Crash, delivery
<1>7. ASSUME NEW p \in Process, NEW n \in Node, NodeStep(p, n)
      PROVE  \/ Ends(p, n) /\ queue[p][n] # <<>>
             \/ \A q \in Process, m \in Node : Less(q, m)
  <2>1. ASSUME step[p][n] # "queued" PROVE queue[p][n] # <<>>
    BY <1>1, <2>1 DEF DeliveryTyped
  <2>2. ~\E kind \in Kind : Publish(p, n, kind)
    <3>1. published \in Nat
      BY <1>1 DEF ControlTyped
    <3>2. published + 1 # published'
      BY <3>1
    <3> QED
      BY <3>2 DEF Publish
  <2>3. CASE ReadThread(p, n)
    <3>1. queue' = queue /\ step[p][n] = "queued"
      BY <2>3 DEF ReadThread, NextUp
    <3>2. \A q \in Process, m \in Node : step[q][m] = "posted" => step'[q][m] = "posted"
      BY <1>1, <2>3, <3>1 DEF ReadThread, DeliveryTyped
    <3> QED
      BY <3>1, <3>2
  <2>4. CASE SaysNothing(p, n)
    BY <2>1, <2>4 DEF SaysNothing
  <2>5. CASE Replies(p, n)
    BY <2>1, <2>5 DEF Replies
  <2>6. CASE OpensThread(p, n)
    <3>1. queue' = queue
      BY <2>6 DEF OpensThread
    <3>2. \A q \in Process, m \in Node : step[q][m] = "posted" => step'[q][m] = "posted"
      BY <1>1, <2>6 DEF OpensThread, DeliveryTyped
    <3> QED
      BY <3>1, <3>2
  <2>7. CASE SaveThread(p, n)
    BY <2>1, <2>7 DEF SaveThread
  <2>8. CASE \E hasIt \in BOOLEAN : PostFails(p, n, hasIt)
    BY <2>1, <2>8 DEF PostFails
  <2> QED
    BY <1>7, <2>2, <2>3, <2>4, <2>5, <2>6, <2>7, <2>8 DEF NodeStep, Deliver
<1>8. ASSUME UNCHANGED vars PROVE UNCHANGED <<queue, step>>
  BY <1>8 DEF vars, delivery
<1> HIDE DEF Less
<1> QED
  BY <1>2, <1>3, <1>4, <1>5, <1>6, <1>7, <1>8, StepsOfTheStory

\* A new event is the latest of all, and its process has the run lock.
LEMMA PublishedIsLatest ==
  ASSUME NotificationInv, NEW p \in Process, NEW n \in Node, NEW kind \in Kind,
         Publish(p, n, kind)
  PROVE  /\ published' = published + 1 /\ published \in Nat
         /\ holder = p
         /\ \A q \in Process, m \in Node :
              \A i \in DOMAIN queue'[q][m] :
                /\ i \in Nat
                /\ \/ i \in DOMAIN queue[q][m] /\ queue'[q][m][i] = queue[q][m][i]
                   \/ q = p /\ m = n /\ queue'[q][m][i].id = published + 1
                      /\ i \notin DOMAIN queue[q][m]
                      /\ \A j \in DOMAIN queue'[q][m] : i < j => FALSE
<1> USE NotificationAssumption
<1>1. ControlTyped /\ DeliveryTyped /\ SlackTyped
  BY TypedInGroups DEF NotificationInv, Typed
<1>2. published' = published + 1 /\ published \in Nat /\ published' \in Id
  BY <1>1 DEF Publish, ControlTyped, Id
<1>3. holder = p
  BY DEF Publish, NotificationInv, LockInv
<1>4. ASSUME NEW q \in Process, NEW m \in Node, NEW i \in DOMAIN queue'[q][m]
      PROVE  /\ i \in Nat
             /\ \/ i \in DOMAIN queue[q][m] /\ queue'[q][m][i] = queue[q][m][i]
                \/ q = p /\ m = n /\ queue'[q][m][i].id = published + 1
                   /\ i \notin DOMAIN queue[q][m]
                   /\ \A j \in DOMAIN queue'[q][m] : i < j => FALSE
  <2>1. queue[q][m] \in Seq(Event)
    BY <1>1 DEF DeliveryTyped
  <2>2. CASE q = p /\ m = n
    <3> DEFINE e == [id |-> published', kind |-> kind]
    <3>1. e \in Event /\ e.id = published + 1
      BY <1>2 DEF Event
    <3>2. queue'[q][m] = Append(queue[q][m], e)
      BY <1>1, <2>2 DEF Publish, DeliveryTyped
    <3> HIDE DEF e
    <3>3. /\ DOMAIN queue'[q][m] = DOMAIN queue[q][m] \cup {Len(queue[q][m]) + 1}
          /\ queue'[q][m][Len(queue[q][m]) + 1] = e
          /\ \A k \in DOMAIN queue[q][m] :
               k \in Nat /\ k < Len(queue[q][m]) + 1 /\ queue'[q][m][k] = queue[q][m][k]
      BY <2>1, <3>1, <3>2, QueueAppend
    <3>4. Len(queue[q][m]) \in Nat
      BY <2>1
    <3>5. CASE i \in DOMAIN queue[q][m]
      BY <3>3, <3>5
    <3>6. CASE i = Len(queue[q][m]) + 1
      <4>1. i \in Nat /\ i \notin DOMAIN queue[q][m]
        BY <3>3, <3>4, <3>6
      <4>2. \A j \in DOMAIN queue'[q][m] : i < j => FALSE
        BY <3>3, <3>4, <3>6
      <4>3. queue'[q][m][i].id = published + 1
        BY <3>1, <3>3, <3>6
      <4> QED
        BY <2>2, <4>1, <4>2, <4>3
    <3> QED
      BY <3>3, <3>5, <3>6
  <2>3. CASE ~(q = p /\ m = n)
    <3>1. queue'[q][m] = queue[q][m]
      BY <1>1, <2>3 DEF Publish, DeliveryTyped
    <3> QED
      BY <2>1, <3>1
  <2> QED
    BY <2>2, <2>3
<1> QED
  BY <1>2, <1>3, <1>4

\* Whatever is published, delivered or lost, the events of a process stay in their
\* order, and behind those of a pass nobody has published any.
LEMMA QueueKept ==
  ASSUME NotificationInv, [Next]_vars
  PROVE  QueueInv'
<1> USE NotificationAssumption
<1>1. ControlTyped /\ DeliveryTyped /\ SlackTyped /\ QueueInv /\ LockInv
  BY TypedInGroups DEF NotificationInv, Typed
<1>2. \A p \in Process, n \in Node : \A i \in DOMAIN queue[p][n] :
        i \in Nat /\ queue[p][n][i].id \in Nat
  <2> SUFFICES ASSUME NEW p \in Process, NEW n \in Node, NEW i \in DOMAIN queue[p][n]
               PROVE  i \in Nat /\ queue[p][n][i].id \in Nat
    OBVIOUS
  <2>1. queue[p][n] \in Seq(Event)
    BY <1>1 DEF DeliveryTyped
  <2>2. i \in Nat /\ queue[p][n][i] \in Event
    BY <2>1
  <2> QED
    BY <2>2 DEF Event, Id
<1> SUFFICES ASSUME NEW p \in Process, NEW n \in Node
             PROVE  /\ \A i \in DOMAIN queue'[p][n] : queue'[p][n][i].id <= published'
                    /\ \A i, j \in DOMAIN queue'[p][n] :
                         i < j => queue'[p][n][i].id < queue'[p][n][j].id
                    /\ \A q \in Process \ {p} :
                         \A i \in DOMAIN queue'[p][n], j \in DOMAIN queue'[q][n] :
                           /\ queue'[p][n][i].id # queue'[q][n][j].id
                           /\ q \in Passes => queue'[p][n][i].id < queue'[q][n][j].id
  BY DEF QueueInv
<1>3. CASE published' = published
  <2>1. \A q \in Process : Shrinks(q, n)
    BY <1>3, QueuesShrink
  <2>2. PICK d \in {0, 1} : \A i \in DOMAIN queue'[p][n] :
           i \in Nat /\ i + d \in DOMAIN queue[p][n] /\ queue'[p][n][i] = queue[p][n][i + d]
    BY <2>1 DEF Shrinks
  <2>3. \A i \in DOMAIN queue'[p][n] : queue'[p][n][i].id <= published'
    BY <1>1, <1>3, <2>2 DEF QueueInv
  <2>4. \A i, j \in DOMAIN queue'[p][n] : i < j => queue'[p][n][i].id < queue'[p][n][j].id
    <3> SUFFICES ASSUME NEW i \in DOMAIN queue'[p][n], NEW j \in DOMAIN queue'[p][n], i < j
                 PROVE  queue'[p][n][i].id < queue'[p][n][j].id
      OBVIOUS
    <3>1. i + d < j + d
      BY <2>2
    <3> QED
      BY <1>1, <2>2, <3>1 DEF QueueInv
  <2>5. ASSUME NEW q \in Process \ {p},
               NEW i \in DOMAIN queue'[p][n], NEW j \in DOMAIN queue'[q][n]
        PROVE  /\ queue'[p][n][i].id # queue'[q][n][j].id
               /\ q \in Passes => queue'[p][n][i].id < queue'[q][n][j].id
    <3>1. PICK c \in {0, 1} : \A k \in DOMAIN queue'[q][n] :
             k \in Nat /\ k + c \in DOMAIN queue[q][n] /\ queue'[q][n][k] = queue[q][n][k + c]
      BY <2>1 DEF Shrinks
    <3> QED
      BY <1>1, <2>2, <3>1 DEF QueueInv
  <2> QED
    BY <2>3, <2>4, <2>5
<1>4. ASSUME NEW r \in Process, NEW m \in Node, NEW kind \in Kind, Publish(r, m, kind)
      PROVE  /\ \A i \in DOMAIN queue'[p][n] : queue'[p][n][i].id <= published'
             /\ \A i, j \in DOMAIN queue'[p][n] :
                  i < j => queue'[p][n][i].id < queue'[p][n][j].id
             /\ \A q \in Process \ {p} :
                  \A i \in DOMAIN queue'[p][n], j \in DOMAIN queue'[q][n] :
                    /\ queue'[p][n][i].id # queue'[q][n][j].id
                    /\ q \in Passes => queue'[p][n][i].id < queue'[q][n][j].id
  <2>1. /\ published' = published + 1 /\ published \in Nat
        /\ holder = r
    BY <1>4, PublishedIsLatest
  <2>2. ASSUME NEW q \in Process, NEW i \in DOMAIN queue'[q][n]
        PROVE  /\ i \in Nat
               /\ \/ i \in DOMAIN queue[q][n] /\ queue'[q][n][i] = queue[q][n][i]
                  \/ q = r /\ queue'[q][n][i].id = published + 1
                     /\ \A j \in DOMAIN queue'[q][n] : i < j => FALSE
    BY <1>4, PublishedIsLatest
  <2>3. ASSUME NEW q \in Process, NEW i \in DOMAIN queue[q][n]
        PROVE  queue[q][n][i].id <= published /\ queue[q][n][i].id \in Nat
    BY <1>1, <1>2 DEF QueueInv
  <2>4. ASSUME NEW i \in DOMAIN queue'[p][n] PROVE queue'[p][n][i].id <= published'
    BY <2>1, <2>2, <2>3
  <2>5. ASSUME NEW i \in DOMAIN queue'[p][n], NEW j \in DOMAIN queue'[p][n], i < j
        PROVE  queue'[p][n][i].id < queue'[p][n][j].id
    <3>1. i \in DOMAIN queue[p][n] /\ queue'[p][n][i] = queue[p][n][i]
      BY <2>2, <2>5
    <3>2. CASE j \in DOMAIN queue[p][n] /\ queue'[p][n][j] = queue[p][n][j]
      BY <1>1, <2>5, <3>1, <3>2 DEF QueueInv
    <3>3. CASE queue'[p][n][j].id = published + 1
      BY <2>1, <2>3, <3>1, <3>3
    <3> QED
      BY <2>2, <3>2, <3>3
  <2>6. ASSUME NEW q \in Process \ {p},
               NEW i \in DOMAIN queue'[p][n], NEW j \in DOMAIN queue'[q][n]
        PROVE  /\ queue'[p][n][i].id # queue'[q][n][j].id
               /\ q \in Passes => queue'[p][n][i].id < queue'[q][n][j].id
    <3>1. CASE /\ i \in DOMAIN queue[p][n] /\ queue'[p][n][i] = queue[p][n][i]
               /\ j \in DOMAIN queue[q][n] /\ queue'[q][n][j] = queue[q][n][j]
      BY <1>1, <3>1 DEF QueueInv
    <3>2. CASE /\ i \in DOMAIN queue[p][n] /\ queue'[p][n][i] = queue[p][n][i]
               /\ queue'[q][n][j].id = published + 1
      BY <2>1, <2>3, <3>2
    <3>3. CASE /\ p = r /\ queue'[p][n][i].id = published + 1
               /\ j \in DOMAIN queue[q][n] /\ queue'[q][n][j] = queue[q][n][j]
      <4>1. queue[q][n] # <<>>
        BY <3>3
      <4>2. phase[q] # "away"
        BY <1>1, <4>1 DEF DeliveryTyped
      <4>3. q \notin Passes
        BY <1>1, <2>1, <3>3, <4>2 DEF LockInv
      <4> QED
        BY <2>1, <2>3, <3>3, <4>3
    <3>4. ~(p = r /\ q = r)
      OBVIOUS
    <3> QED
      BY <2>2, <3>1, <3>2, <3>3, <3>4
  <2> QED
    BY <2>4, <2>5, <2>6
<1>5. \/ published' = published
      \/ \E r \in Process, m \in Node, kind \in Kind : Publish(r, m, kind)
  <2>1. ASSUME UNCHANGED vars PROVE published' = published
    BY <2>1 DEF vars
  <2>2. ASSUME NEW r \in Process, ProcessStep(r) PROVE published' = published
    BY <2>2 DEF ProcessStep, Begin, HandlerReturns, Exit, Crash
  <2> QED
    BY <2>1, <2>2, StepsOfTheStory, DeliveriesLeaveTheLock
<1> QED
  BY <1>3, <1>4, <1>5

-----------------------------------------------------------------------------
(* What is told.                                                           *)

\* Slack gets a message from a delivery that has read its thread, and either the
\* delivery is over or the thread it opened is to be saved.
LEMMA WhatArrives ==
  ASSUME NotificationInv, [Next]_vars
  PROVE  \/ told' = told /\ opened' = opened
         \/ \E p \in Process, n \in Node, thread \in Nat :
              /\ step[p][n] = "read" /\ queue[p][n] # <<>>
              /\ Arrives(p, n, thread)
              /\ thread <= opened[n] + 1
              /\ published' = published
              /\ Ends(p, n) \/ (queue' = queue /\ step' = [step EXCEPT ![p][n] = "posted"])
<1>1. ControlTyped /\ DeliveryTyped /\ SlackTyped
  BY TypedInGroups DEF NotificationInv, Typed
<1>2. ASSUME UNCHANGED vars PROVE told' = told /\ opened' = opened
  BY <1>2 DEF vars, slack
<1>3. ASSUME NEW p \in Process, ProcessStep(p) PROVE told' = told /\ opened' = opened
  BY <1>3 DEF ProcessStep, Begin, HandlerReturns, Exit, Crash, slack
<1>4. ASSUME NEW p \in Process, NEW n \in Node, NodeStep(p, n)
      PROVE  \/ told' = told /\ opened' = opened
             \/ \E thread \in Nat :
                  /\ step[p][n] = "read" /\ queue[p][n] # <<>>
                  /\ Arrives(p, n, thread)
                  /\ thread <= opened[n] + 1
                  /\ published' = published
                  /\ Ends(p, n) \/ (queue' = queue /\ step' = [step EXCEPT ![p][n] = "posted"])
  <2>1. /\ hand[p][n] \in Nat /\ opened[n] \in Nat /\ hand[p][n] <= opened[n]
        /\ step[p][n] # "queued" => queue[p][n] # <<>>
    BY <1>1 DEF DeliveryTyped, SlackTyped
  <2>2. CASE \E kind \in Kind : Publish(p, n, kind)
    BY <2>2 DEF Publish, slack
  <2>3. CASE ReadThread(p, n)
    BY <2>3 DEF ReadThread, slack
  <2>4. CASE SaysNothing(p, n)
    BY <2>4 DEF SaysNothing
  <2>5. CASE Replies(p, n)
    <3>1. hand[p][n] <= opened[n] + 1
      BY <2>1
    <3> QED
      BY <2>1, <2>5, <3>1 DEF Replies
  <2>6. CASE OpensThread(p, n)
    <3>1. opened[n] + 1 \in Nat /\ opened[n] + 1 <= opened[n] + 1
      BY <2>1
    <3> QED
      BY <2>1, <2>6, <3>1 DEF OpensThread
  <2>7. CASE SaveThread(p, n)
    BY <2>7 DEF SaveThread
  <2>8. ASSUME PostFails(p, n, FALSE) PROVE told' = told /\ opened' = opened
    BY <2>8 DEF PostFails
  <2>9. CASE PostFails(p, n, TRUE)
    <3> DEFINE thread == IF hand[p][n] = 0 THEN opened[n] + 1 ELSE hand[p][n]
    <3>1. thread \in Nat /\ thread <= opened[n] + 1
      BY <2>1
    <3>2. Arrives(p, n, thread) /\ step[p][n] = "read" /\ published' = published /\ Ends(p, n)
      BY <2>9 DEF PostFails
    <3> HIDE DEF thread
    <3> QED
      BY <2>1, <3>1, <3>2
  <2> QED
    BY <1>4, <2>2, <2>3, <2>4, <2>5, <2>6, <2>7, <2>8, <2>9 DEF NodeStep, Deliver
<1> QED
  BY <1>2, <1>3, <1>4, StepsOfTheStory

\* What Slack has stays in its place among what is queued.
LEMMA TheToldStaysTold ==
  ASSUME NotificationInv, [Next]_vars, NEW n \in Node,
         NEW message \in Message, Told(message, n)
  PROVE  Told(message, n)'
<1> USE NotificationAssumption
<1>1. ControlTyped /\ DeliveryTyped /\ SlackTyped
  BY TypedInGroups DEF NotificationInv, Typed
<1>2. message.id \in Nat /\ published \in Nat
  BY <1>1 DEF Message, Id, ControlTyped
<1>3. CASE published' = published
  <2> SUFFICES ASSUME NEW p \in Process, NEW i \in DOMAIN queue'[p][n]
               PROVE  /\ message.id = queue'[p][n][i].id => i = 1 /\ step'[p][n] = "posted"
                      /\ message.id > queue'[p][n][i].id => p \in Commands /\ message.by # p
    BY <1>3 DEF Told
  <2>1. Shrinks(p, n)
    BY <1>3, QueuesShrink
  <2>2. PICK d \in {0, 1} : \A k \in DOMAIN queue'[p][n] :
           /\ k \in Nat \ {0}
           /\ k + d \in DOMAIN queue[p][n]
           /\ queue'[p][n][k] = queue[p][n][k + d]
           /\ d = 0 /\ step[p][n] = "posted" => step'[p][n] = "posted"
    BY <2>1 DEF Shrinks
  <2>3. /\ i \in Nat \ {0}
        /\ i + d \in DOMAIN queue[p][n]
        /\ queue'[p][n][i] = queue[p][n][i + d]
        /\ d = 0 /\ step[p][n] = "posted" => step'[p][n] = "posted"
    BY <2>2
  <2>4. /\ message.id = queue[p][n][i + d].id => i + d = 1 /\ step[p][n] = "posted"
        /\ message.id > queue[p][n][i + d].id => p \in Commands /\ message.by # p
    BY <2>3 DEF Told
  <2>5. i + d = 1 => d = 0 /\ i = 1
    BY <2>3
  <2> QED
    BY <2>3, <2>4, <2>5
<1>4. ASSUME NEW r \in Process, NEW m \in Node, NEW kind \in Kind, Publish(r, m, kind)
      PROVE  Told(message, n)'
  <2>1. published' = published + 1 /\ step' = step
    BY <1>4 DEF Publish
  <2>2. message.id <= published' /\ message.id # published + 1 /\ ~(message.id > published + 1)
    BY <1>2, <2>1 DEF Told
  <2>3. ASSUME NEW p \in Process, NEW i \in DOMAIN queue'[p][n]
        PROVE  /\ message.id = queue'[p][n][i].id => i = 1 /\ step'[p][n] = "posted"
               /\ message.id > queue'[p][n][i].id => p \in Commands /\ message.by # p
    <3>1. \/ i \in DOMAIN queue[p][n] /\ queue'[p][n][i] = queue[p][n][i]
          \/ queue'[p][n][i].id = published + 1
      BY <1>4, PublishedIsLatest
    <3> QED
      BY <2>1, <2>2, <3>1 DEF Told
  <2> QED
    BY <2>2, <2>3 DEF Told
<1>5. \/ published' = published
      \/ \E r \in Process, m \in Node, kind \in Kind : Publish(r, m, kind)
  <2>1. ASSUME UNCHANGED vars PROVE published' = published
    BY <2>1 DEF vars
  <2>2. ASSUME NEW r \in Process, ProcessStep(r) PROVE published' = published
    BY <2>2 DEF ProcessStep, Begin, HandlerReturns, Exit, Crash
  <2> QED
    BY <2>1, <2>2, StepsOfTheStory, DeliveriesLeaveTheLock
<1> QED
  BY <1>3, <1>4, <1>5

\* The message that arrives is the head of its process's queue: what other processes
\* have queued that is older is not a pass's.
LEMMA ArrivalIsTold ==
  ASSUME NotificationInv, [Next]_vars, NEW p \in Process, NEW n \in Node, NEW thread \in Nat,
         step[p][n] = "read", queue[p][n] # <<>>, published' = published,
         Ends(p, n) \/ (queue' = queue /\ step' = [step EXCEPT ![p][n] = "posted"]),
         NEW message, message = [id |-> Head(queue[p][n]).id, by |-> p, thread |-> thread]
  PROVE  /\ message \in Message
         /\ Told(message, n)'
<1> USE NotificationAssumption
<1>1. ControlTyped /\ DeliveryTyped /\ SlackTyped /\ QueueInv
  BY TypedInGroups DEF NotificationInv, Typed
<1>2. queue[p][n] \in Seq(Event)
  BY <1>1 DEF DeliveryTyped
<1>3. Head(queue[p][n]) = queue[p][n][1] /\ Head(queue[p][n]) \in Event /\ 1 \in DOMAIN queue[p][n]
  BY <1>2, QueueTail
<1>4. message \in Message /\ message.id = queue[p][n][1].id /\ message.by = p /\ message.id \in Nat
  BY <1>3 DEF Event, Message, Id
<1>5. message.id <= published
  BY <1>1, <1>3, <1>4 DEF QueueInv
<1>6. ASSUME NEW q \in Process, NEW i \in DOMAIN queue'[q][n]
      PROVE  /\ message.id = queue'[q][n][i].id => i = 1 /\ step'[q][n] = "posted"
             /\ message.id > queue'[q][n][i].id => q \in Commands /\ message.by # q
  <2>1. CASE q = p
    <3>1. CASE Ends(p, n)
      <4>1. queue'[q][n] = Tail(queue[p][n])
        BY <1>1, <2>1, <3>1 DEF Ends, DeliveryTyped
      <4>2. i \in Nat /\ i + 1 \in DOMAIN queue[p][n] /\ queue'[q][n][i] = queue[p][n][i + 1]
        BY <1>2, <4>1, QueueTail
      <4>3. 1 < i + 1
        BY <1>2, <4>1, <4>2
      <4>4. message.id < queue'[q][n][i].id /\ queue'[q][n][i].id \in Nat
        <5>1. queue[p][n][1].id < queue[p][n][i + 1].id
          BY <1>1, <1>3, <4>2, <4>3 DEF QueueInv
        <5>2. queue[p][n][i + 1] \in Event
          BY <1>2, <4>2
        <5> QED
          BY <1>4, <4>2, <5>1, <5>2 DEF Event, Id
      <4> QED
        BY <1>4, <4>4
    <3>2. CASE queue' = queue /\ step' = [step EXCEPT ![p][n] = "posted"]
      <4>1. step'[p][n] = "posted" /\ i \in DOMAIN queue[p][n] /\ queue'[q][n][i] = queue[p][n][i]
        BY <1>1, <2>1, <3>2 DEF DeliveryTyped
      <4>2. CASE i = 1
        BY <1>4, <2>1, <4>1, <4>2
      <4>3. CASE i # 1
        <5>1. 1 < i
          BY <1>2, <4>1, <4>3
        <5>2. queue[p][n][1].id < queue[p][n][i].id
          BY <1>1, <1>3, <4>1, <5>1 DEF QueueInv
        <5>3. queue[p][n][i] \in Event
          BY <1>2, <4>1
        <5>4. message.id < queue'[q][n][i].id /\ queue'[q][n][i].id \in Nat
          BY <1>4, <4>1, <5>2, <5>3 DEF Event, Id
        <5> QED
          BY <1>4, <5>4
      <4> QED
        BY <4>2, <4>3
    <3> QED
      BY <3>1, <3>2
  <2>2. CASE q # p
    <3>1. Shrinks(q, n)
      BY QueuesShrink
    <3>2. PICK k \in DOMAIN queue[q][n] : queue'[q][n][i] = queue[q][n][k]
      BY <3>1 DEF Shrinks
    <3>3. /\ queue[q][n][k].id # queue[p][n][1].id
          /\ q \in Passes => queue[p][n][1].id < queue[q][n][k].id
      BY <1>1, <1>3, <2>2 DEF QueueInv
    <3>4. queue[q][n][k].id \in Nat
      <4>1. queue[q][n] \in Seq(Event)
        BY <1>1 DEF DeliveryTyped
      <4>2. queue[q][n][k] \in Event
        BY <4>1
      <4> QED
        BY <4>2 DEF Event, Id
    <3>5. message.id > queue[q][n][k].id => q \notin Passes
      BY <1>4, <3>3, <3>4
    <3> QED
      BY <1>4, <2>2, <3>2, <3>3, <3>5 DEF Process
  <2> QED
    BY <2>1, <2>2
<1> QED
  BY <1>4, <1>5, <1>6 DEF Told

\* What a message that arrives makes of the messages and threads of its node.
LEMMA ArrivalAppends ==
  ASSUME NotificationInv, NEW p \in Process, NEW n \in Node, NEW thread \in Nat,
         Arrives(p, n, thread),
         NEW message \in Message,
         message = [id |-> Head(queue[p][n]).id, by |-> p, thread |-> thread]
  PROVE  /\ \A m \in Node : m # n => told'[m] = told[m] /\ opened'[m] = opened[m]
         /\ told[n] \in Seq(Message)
         /\ told'[n] = Append(told[n], message)
         /\ DOMAIN told'[n] = DOMAIN told[n] \cup {Len(told[n]) + 1}
         /\ told'[n][Len(told[n]) + 1] = message
         /\ \A k \in DOMAIN told[n] :
              k \in Nat /\ k < Len(told[n]) + 1 /\ told'[n][k] = told[n][k]
         /\ opened'[n] = IF thread > opened[n] THEN thread ELSE opened[n]
<1>1. told \in [Node -> Seq(Message)] /\ opened \in [Node -> Nat]
  BY DEF NotificationInv, ShapeInv
<1>2. /\ told[n] \in Seq(Message)
      /\ told'[n] = Append(told[n], message)
      /\ \A m \in Node : m # n => told'[m] = told[m]
  BY <1>1 DEF Arrives
<1>3. /\ \A m \in Node : m # n => opened'[m] = opened[m]
      /\ opened'[n] = IF thread > opened[n] THEN thread ELSE opened[n]
  BY <1>1 DEF Arrives
<1> QED
  BY <1>2, <1>3, QueueAppend

\* What Slack has stays apart from what is queued, also the message that arrives.
LEMMA ToldKept ==
  ASSUME NotificationInv, [Next]_vars
  PROVE  ToldInv'
<1> SUFFICES ASSUME NEW n \in Node, NEW k \in DOMAIN told'[n]
             PROVE  Told(told[n][k], n)'
  BY DEF ToldInv
<1>1. \A m \in Node : \A i \in DOMAIN told[m] : told[m][i] \in Message /\ Told(told[m][i], m)
  <2>1. \A m \in Node : \A i \in DOMAIN told[m] : told[m][i] \in Message
    BY DEF NotificationInv, ShapeInv
  <2> QED
    BY <2>1 DEF NotificationInv, ToldInv
<1>2. ASSUME NEW i \in DOMAIN told[n], told'[n][k] = told[n][i]
      PROVE  Told(told[n][k], n)'
  <2>1. PICK message \in Message : message = told[n][i]
    BY <1>1
  <2>2. Told(message, n)
    BY <1>1, <2>1
  <2>3. Told(message, n)'
    BY <2>2, TheToldStaysTold
  <2>4. message = told'[n][k]
    BY <1>2, <2>1
  <2> QED
    BY <2>3, <2>4 DEF Told
<1>3. CASE told' = told
  BY <1>2, <1>3
<1>4. ASSUME NEW p \in Process, NEW m \in Node, NEW thread \in Nat,
             step[p][m] = "read", queue[p][m] # <<>>,
             Arrives(p, m, thread), published' = published,
             Ends(p, m) \/ (queue' = queue /\ step' = [step EXCEPT ![p][m] = "posted"])
      PROVE  Told(told[n][k], n)'
  <2>1. PICK message : message = [id |-> Head(queue[p][m]).id, by |-> p, thread |-> thread]
    OBVIOUS
  <2>2. message \in Message /\ Told(message, m)'
    BY <1>4, <2>1, ArrivalIsTold
  <2>3. /\ \A j \in Node : j # m => told'[j] = told[j]
        /\ DOMAIN told'[m] = DOMAIN told[m] \cup {Len(told[m]) + 1}
        /\ told'[m][Len(told[m]) + 1] = message
        /\ \A j \in DOMAIN told[m] : told'[m][j] = told[m][j]
    BY <1>4, <2>1, <2>2, ArrivalAppends
  <2>4. CASE n # m
    BY <1>2, <2>3, <2>4
  <2>5. CASE n = m /\ k \in DOMAIN told[m]
    BY <1>2, <2>3, <2>5
  <2>6. CASE n = m /\ k = Len(told[m]) + 1
    <3>1. message = told'[n][k]
      BY <2>3, <2>6
    <3> QED
      BY <2>2, <2>6, <3>1 DEF Told
  <2> QED
    BY <2>3, <2>4, <2>5, <2>6
<1> QED
  BY <1>3, <1>4, WhatArrives

\* No thread comes without a message of its own.
LEMMA OpenedKept ==
  ASSUME NotificationInv, [Next]_vars
  PROVE  OpenedInv'
<1> SUFFICES ASSUME NEW n \in Node
             PROVE  opened'[n] <= Cardinality(ToldIds(n)')
  BY DEF OpenedInv
<1>1. opened[n] <= Cardinality(ToldIds(n))
  BY DEF NotificationInv, OpenedInv
<1>2. CASE told' = told /\ opened' = opened
  BY <1>1, <1>2 DEF ToldIds
<1>3. ASSUME NEW p \in Process, NEW m \in Node, NEW thread \in Nat,
             step[p][m] = "read", queue[p][m] # <<>>,
             Arrives(p, m, thread), thread <= opened[m] + 1, published' = published,
             Ends(p, m) \/ (queue' = queue /\ step' = [step EXCEPT ![p][m] = "posted"])
      PROVE  opened'[n] <= Cardinality(ToldIds(n)')
  <2>1. PICK message : message = [id |-> Head(queue[p][m]).id, by |-> p, thread |-> thread]
    OBVIOUS
  <2>2. message \in Message
    BY <1>3, <2>1, ArrivalIsTold
  <2>3. /\ \A j \in Node : j # m => told'[j] = told[j] /\ opened'[j] = opened[j]
        /\ DOMAIN told'[m] = DOMAIN told[m] \cup {Len(told[m]) + 1}
        /\ told'[m][Len(told[m]) + 1] = message
        /\ \A j \in DOMAIN told[m] : told'[m][j] = told[m][j]
        /\ opened'[m] = IF thread > opened[m] THEN thread ELSE opened[m]
    BY <1>3, <2>1, <2>2, ArrivalAppends
  <2>4. CASE n # m
    <3>1. opened'[n] = opened[n] /\ told'[n] = told[n]
      BY <2>3, <2>4
    <3> QED
      BY <1>1, <3>1 DEF ToldIds
  <2>5. CASE n = m
    <3>1. ToldIds(n)' = ToldIds(n) \cup {Head(queue[p][n]).id}
      <4>1. message.id = Head(queue[p][n]).id
        BY <2>1, <2>5
      <4>2. ToldIds(n)' = {told'[n][j].id : j \in DOMAIN told'[n]}
        BY DEF ToldIds
      <4>3. {told'[n][j].id : j \in DOMAIN told'[n]} = {told[n][j].id : j \in DOMAIN told[n]} \cup {message.id}
        BY <2>3, <2>5
      <4> QED
        BY <4>1, <4>2, <4>3 DEF ToldIds
    <3>2. opened[n] + 1 <= Cardinality(ToldIds(n) \cup {Head(queue[p][n]).id})
      BY <1>3, <2>5, RoomForAThread
    <3>3. opened'[n] <= opened[n] + 1 /\ opened'[n] \in Nat /\ opened[n] \in Nat
      BY <1>3, <2>3, <2>5 DEF NotificationInv, ShapeInv
    <3>4. Cardinality(ToldIds(n)') \in Nat
      <4>1. \A j \in DOMAIN told[n] : told[n][j] \in Message
        BY DEF NotificationInv, ShapeInv
      <4>2. ToldIds(n)' \subseteq Id
        BY <2>2, <2>1, <3>1, <2>5, <4>1 DEF ToldIds, Message
      <4>3. IsFiniteSet(Id)
        BY NotificationAssumption, FS_Interval DEF Id
      <4> QED
        BY <4>2, <4>3, FS_Subset, FS_CardinalityType
    <3> QED
      BY <3>1, <3>2, <3>3, <3>4
  <2> QED
    BY <2>4, <2>5
<1> QED
  BY <1>2, <1>3, WhatArrives

\* Slack gets a message late only from a command (OnlyCommandsAreOvertaken): the
\* process that tells it has it at the head of its queue, and ToldInv knows what
\* Slack had before.
LEMMA OrderKept ==
  ASSUME NotificationInv, [Next]_vars
  PROVE  OnlyCommandsAreOvertaken'
<1> SUFFICES ASSUME NEW n \in Node, NEW i \in DOMAIN told'[n], NEW j \in DOMAIN told'[n],
                    i < j, told'[n][i].id > told'[n][j].id
             PROVE  told'[n][j].by \in Commands /\ told'[n][i].by # told'[n][j].by
  BY DEF OnlyCommandsAreOvertaken
<1>1. OnlyCommandsAreOvertaken
  BY DEF NotificationInv
<1>2. CASE told' = told
  BY <1>1, <1>2 DEF OnlyCommandsAreOvertaken
<1>3. ASSUME NEW p \in Process, NEW m \in Node, NEW thread \in Nat,
             step[p][m] = "read", queue[p][m] # <<>>,
             Arrives(p, m, thread), published' = published,
             Ends(p, m) \/ (queue' = queue /\ step' = [step EXCEPT ![p][m] = "posted"])
      PROVE  told'[n][j].by \in Commands /\ told'[n][i].by # told'[n][j].by
  <2>1. PICK message : message = [id |-> Head(queue[p][m]).id, by |-> p, thread |-> thread]
    OBVIOUS
  <2>2. message \in Message
    BY <1>3, <2>1, ArrivalIsTold
  <2>3. /\ \A k \in Node : k # m => told'[k] = told[k]
        /\ told[m] \in Seq(Message)
        /\ DOMAIN told'[m] = DOMAIN told[m] \cup {Len(told[m]) + 1}
        /\ told'[m][Len(told[m]) + 1] = message
        /\ \A k \in DOMAIN told[m] :
             k \in Nat /\ k < Len(told[m]) + 1 /\ told'[m][k] = told[m][k]
    BY <1>3, <2>1, <2>2, ArrivalAppends
  <2>4. CASE n # m
    BY <1>1, <2>3, <2>4 DEF OnlyCommandsAreOvertaken
  <2>5. CASE n = m /\ j \in DOMAIN told[m]
    <3>1. i \in DOMAIN told[m]
      <4>1. j < Len(told[m]) + 1 /\ j \in Nat /\ Len(told[m]) \in Nat
        BY <2>3, <2>5
      <4>2. i # Len(told[m]) + 1
        BY <4>1
      <4> QED
        BY <2>3, <2>5, <4>2
    <3> QED
      BY <1>1, <2>3, <2>5, <3>1 DEF OnlyCommandsAreOvertaken
  <2>6. CASE n = m /\ j = Len(told[m]) + 1
    <3>1. i \in DOMAIN told[m]
      BY <2>3, <2>6
    <3>2. told'[n][j] = message /\ told'[n][i] = told[n][i]
      BY <2>3, <2>6, <3>1
    <3>3. queue[p][n] \in Seq(Event)
      BY DEF NotificationInv, ShapeInv
    <3>4. message.id = queue[p][n][1].id /\ message.by = p /\ 1 \in DOMAIN queue[p][n]
      BY <1>3, <2>1, <2>6, <3>3, QueueTail
    <3>5. Told(told[n][i], n)
      BY <2>6, <3>1 DEF NotificationInv, ToldInv
    <3>6. told[n][i].id > queue[p][n][1].id
      BY <3>2, <3>4
    <3>7. p \in Commands /\ told[n][i].by # p
      BY <3>4, <3>5, <3>6 DEF Told
    <3> QED
      BY <3>2, <3>4, <3>7
  <2> QED
    BY <2>3, <2>4, <2>5, <2>6
<1> QED
  BY <1>2, <1>3, WhatArrives

-----------------------------------------------------------------------------
(* The thread of a node.                                                   *)

\* Nothing of a node's delivery moves.
StaysAt(n) ==
  /\ \A p \in Process : step'[p][n] = step[p][n] /\ hand'[p][n] = hand[p][n]
  /\ binding'[n] = binding[n]
  /\ opened'[n] = opened[n]

\* A node that nothing moves at stays in one thread.
LEMMA StillInOneThread ==
  ASSUME NEW n \in Node, InOneThread(n), StaysAt(n)
  PROVE  InOneThread(n)'
BY DEF InOneThread, StaysAt

\* A process that goes away leaves nothing but deliveries that had posted nothing.
LEMMA GoneInOneThread ==
  ASSUME NotificationInv, NEW p \in Process, NEW n \in Node, InOneThread(n),
         GoneFromEveryNode(p), step[p][n] # "posted", UNCHANGED <<binding, opened>>
  PROVE  InOneThread(n)'
<1>1. DeliveryTyped
  BY TypedInGroups DEF NotificationInv, Typed
<1>2. /\ step'[p][n] = "queued"
      /\ \A q \in Process : q # p => step'[q][n] = step[q][n] /\ hand'[q][n] = hand[q][n]
  BY <1>1, GoneTyped
<1>3. \A q, r \in Process : step'[q][n] # "queued" /\ step'[r][n] # "queued" => q = r
  BY <1>2 DEF InOneThread
<1>4. \A q \in Process : step'[q][n] = "read" => hand'[q][n] = binding'[n]
  BY <1>2 DEF InOneThread
<1>5. \A q \in Process : step'[q][n] = "posted" => hand'[q][n] = 1
  BY <1>2 DEF InOneThread
<1>6. opened'[n] = 1 => binding'[n] = 1 \/ \E q \in Process : step'[q][n] = "posted"
  BY <1>2 DEF InOneThread
<1> QED
  BY <1>3, <1>4, <1>5, <1>6 DEF InOneThread

\* A delivery that ends without saving a row leaves the one thread of a node.
LEMMA EndInOneThread ==
  ASSUME NotificationInv, NEW p \in Process, NEW n \in Node, InOneThread(n),
         Ends(p, n), step[p][n] # "posted", binding' = binding, opened'[n] = opened[n]
  PROVE  InOneThread(n)'
<1>1. DeliveryTyped
  BY TypedInGroups DEF NotificationInv, Typed
<1>2. /\ step'[p][n] = "queued"
      /\ \A q \in Process : q # p => step'[q][n] = step[q][n] /\ hand'[q][n] = hand[q][n]
  BY <1>1 DEF Ends, DeliveryTyped
<1>3. \A q, r \in Process : step'[q][n] # "queued" /\ step'[r][n] # "queued" => q = r
  BY <1>2 DEF InOneThread
<1>4. \A q \in Process : step'[q][n] = "read" => hand'[q][n] = binding'[n]
  BY <1>2 DEF InOneThread
<1>5. \A q \in Process : step'[q][n] = "posted" => hand'[q][n] = 1
  BY <1>2 DEF InOneThread
<1>6. opened'[n] = 1 => binding'[n] = 1 \/ \E q \in Process : step'[q][n] = "posted"
  BY <1>2 DEF InOneThread
<1> QED
  BY <1>3, <1>4, <1>5, <1>6 DEF InOneThread

\* A step of a process at a node keeps to one thread, unless the node is excused.
LEMMA DeliveryInOneThread ==
  ASSUME NotificationInv, NEW p \in Process, NEW n \in Node, InOneThread(n),
         NodeStep(p, n), n \notin excused'
  PROVE  InOneThread(n)'
<1>1. ControlTyped /\ DeliveryTyped /\ SlackTyped
  BY TypedInGroups DEF NotificationInv, Typed
<1>2. /\ opened[n] \in Nat /\ binding[n] \in Nat /\ hand[p][n] \in Nat
      /\ binding[n] <= opened[n] /\ opened[n] <= 1
  BY <1>1 DEF DeliveryTyped, SlackTyped, InOneThread
<1>3. CASE \E kind \in Kind : Publish(p, n, kind)
  BY <1>3, StillInOneThread DEF Publish, slack, StaysAt
<1>4. CASE ReadThread(p, n)
  <2>1. \A q \in Process \ {p} : queue[q][n] = <<>>
    BY <1>4 DEF ReadThread, Overlaps, Underway
  <2>2. \A q \in Process \ {p} : step[q][n] = "queued"
    BY <1>1, <2>1 DEF DeliveryTyped
  <2>3. /\ step'[p][n] = "read" /\ hand'[p][n] = binding[n] /\ step[p][n] = "queued"
        /\ \A q \in Process \ {p} : step'[q][n] = step[q][n] /\ hand'[q][n] = hand[q][n]
        /\ binding' = binding /\ opened' = opened
    BY <1>1, <1>4 DEF ReadThread, NextUp, slack, DeliveryTyped
  <2>4. \A q, r \in Process : step'[q][n] # "queued" /\ step'[r][n] # "queued" => q = r
    BY <2>2, <2>3
  <2>5. \A q \in Process : step'[q][n] = "read" => hand'[q][n] = binding'[n]
    BY <2>2, <2>3
  <2>6. \A q \in Process : step'[q][n] # "posted" /\ step[q][n] # "posted"
    BY <2>2, <2>3
  <2>7. opened'[n] = 1 => binding'[n] = 1
    BY <2>3, <2>6 DEF InOneThread
  <2> QED
    BY <2>3, <2>4, <2>5, <2>6, <2>7 DEF InOneThread
<1>5. CASE SaysNothing(p, n)
  BY <1>5, EndInOneThread DEF SaysNothing
<1>6. CASE Replies(p, n)
  <2>1. hand[p][n] = binding[n]
    BY <1>6 DEF Replies, InOneThread
  <2>2. opened'[n] = IF hand[p][n] > opened[n] THEN hand[p][n] ELSE opened[n]
    BY <1>1, <1>6 DEF Replies, Arrives, SlackTyped
  <2>3. opened'[n] = opened[n]
    BY <1>2, <2>1, <2>2
  <2> QED
    BY <1>6, <2>3, EndInOneThread DEF Replies
<1>7. CASE OpensThread(p, n)
  <2>1. step[p][n] = "read" /\ hand[p][n] = 0 /\ binding[n] = 0 /\ binding' = binding
    BY <1>7 DEF OpensThread, InOneThread
  <2>2. \A q \in Process \ {p} : step[q][n] = "queued"
    BY <2>1 DEF InOneThread
  <2>3. opened[n] = 0
    BY <1>2, <2>1, <2>2 DEF InOneThread
  <2>4. /\ step'[p][n] = "posted" /\ hand'[p][n] = 1
        /\ \A q \in Process \ {p} : step'[q][n] = "queued"
    BY <1>1, <1>7, <2>2, <2>3 DEF OpensThread, DeliveryTyped
  <2>5. opened'[n] = 1
    BY <1>1, <1>7, <2>3 DEF OpensThread, Arrives, SlackTyped
  <2> QED
    BY <2>4, <2>5 DEF InOneThread
<1>8. CASE SaveThread(p, n)
  <2>1. hand[p][n] = 1 /\ step[p][n] = "posted" /\ opened' = opened
    BY <1>8 DEF SaveThread, InOneThread
  <2>2. binding'[n] = 1
    BY <1>1, <1>8, <2>1 DEF SaveThread, Row, SlackTyped
  <2>3. \A q \in Process \ {p} : step[q][n] = "queued"
    BY <2>1 DEF InOneThread
  <2>4. \A q \in Process : step'[q][n] = "queued"
    BY <1>1, <1>8, <2>3 DEF SaveThread, Ends, DeliveryTyped
  <2> QED
    BY <1>2, <2>1, <2>2, <2>4 DEF InOneThread
<1>9. ASSUME NEW hasIt \in BOOLEAN, PostFails(p, n, hasIt) PROVE InOneThread(n)'
  <2>1. ~hasIt
    BY <1>9 DEF PostFails
  <2> QED
    BY <1>9, <2>1, EndInOneThread DEF PostFails
<1> QED
  BY <1>3, <1>4, <1>5, <1>6, <1>7, <1>8, <1>9 DEF NodeStep, Deliver

\* A delivery moves nothing of the other nodes, and none is excused no longer.
LEMMA OtherNodesStay ==
  ASSUME NotificationInv, NEW p \in Process, NEW m \in Node, NodeStep(p, m)
  PROVE  /\ excused \subseteq excused'
         /\ \A n \in Node \ {m} : StaysAt(n)
<1>1. ControlTyped /\ DeliveryTyped /\ SlackTyped
  BY TypedInGroups DEF NotificationInv, Typed
<1>2. ASSUME NEW thread \in Nat, Arrives(p, m, thread)
      PROVE  \A n \in Node \ {m} : opened'[n] = opened[n]
  BY <1>1, <1>2 DEF Arrives, SlackTyped
<1>3. ASSUME Ends(p, m)
      PROVE  \A n \in Node \ {m}, q \in Process :
               step'[q][n] = step[q][n] /\ hand'[q][n] = hand[q][n]
  BY <1>1, <1>3 DEF Ends, DeliveryTyped
<1>4. hand[p][m] \in Nat /\ opened[m] + 1 \in Nat
  BY <1>1 DEF DeliveryTyped, SlackTyped
<1>5. CASE \E kind \in Kind : Publish(p, m, kind)
  BY <1>5 DEF Publish, slack, trouble, StaysAt
<1>6. CASE ReadThread(p, m)
  BY <1>1, <1>6 DEF ReadThread, slack, StaysAt, DeliveryTyped
<1>7. CASE SaysNothing(p, m)
  BY <1>3, <1>7 DEF SaysNothing, trouble, StaysAt
<1>8. CASE Replies(p, m)
  BY <1>2, <1>3, <1>4, <1>8 DEF Replies, trouble, StaysAt
<1>9. CASE OpensThread(p, m)
  <2>1. \A n \in Node \ {m}, q \in Process :
          step'[q][n] = step[q][n] /\ hand'[q][n] = hand[q][n]
    BY <1>1, <1>9 DEF OpensThread, DeliveryTyped
  <2> QED
    BY <1>2, <1>4, <1>9, <2>1 DEF OpensThread, trouble, StaysAt
<1>10. CASE SaveThread(p, m)
  <2>1. \A n \in Node \ {m} : binding'[n] = binding[n]
    BY <1>1, <1>10 DEF SaveThread, SlackTyped
  <2> QED
    BY <1>3, <1>10, <2>1 DEF SaveThread, trouble, StaysAt
<1>11. ASSUME NEW hasIt \in BOOLEAN, PostFails(p, m, hasIt)
       PROVE  excused \subseteq excused' /\ \A n \in Node \ {m} : StaysAt(n)
  <2>1. \A n \in Node \ {m} : opened'[n] = opened[n]
    <3>1. CASE hasIt
      <4> DEFINE thread == IF hand[p][m] = 0 THEN opened[m] + 1 ELSE hand[p][m]
      <4>1. thread \in Nat /\ Arrives(p, m, thread)
        BY <1>4, <1>11, <3>1 DEF PostFails
      <4> HIDE DEF thread
      <4> QED
        BY <1>2, <4>1
    <3>2. CASE ~hasIt
      BY <1>11, <3>2 DEF PostFails
    <3> QED
      BY <3>1, <3>2
  <2> QED
    BY <1>3, <1>11, <2>1 DEF PostFails, StaysAt
<1> QED
  BY <1>5, <1>6, <1>7, <1>8, <1>9, <1>10, <1>11 DEF NodeStep, Deliver

\* A node that lost nothing keeps to one thread.
LEMMA ThreadKept ==
  ASSUME NotificationInv, [Next]_vars
  PROVE  ThreadInv'
<1> SUFFICES ASSUME NEW n \in Node, n \notin excused'
             PROVE  InOneThread(n)'
  BY DEF ThreadInv
<1>1. ControlTyped /\ DeliveryTyped /\ SlackTyped /\ ThreadInv
  BY TypedInGroups DEF NotificationInv, Typed
<1>2. n \notin excused => InOneThread(n)
  BY <1>1 DEF ThreadInv
<1>3. CASE UNCHANGED vars
  <2>1. StaysAt(n) /\ n \notin excused
    BY <1>3 DEF vars, delivery, slack, trouble, StaysAt
  <2> QED
    BY <1>2, <2>1, StillInOneThread
<1>4. ASSUME NEW p \in Process, ProcessStep(p) PROVE InOneThread(n)'
  <2>1. CASE Begin(p) \/ HandlerReturns(p)
    <3>1. StaysAt(n) /\ n \notin excused
      BY <2>1 DEF Begin, HandlerReturns, delivery, slack, trouble, StaysAt
    <3> QED
      BY <1>2, <3>1, StillInOneThread
  <2>2. CASE Exit(p)
    <3>1. GoneFromEveryNode(p) /\ UNCHANGED <<binding, opened, excused>> /\ queue[p][n] = <<>>
      BY <2>2 DEF Exit, Drained, slack, trouble
    <3>2. step[p][n] # "posted"
      BY <1>1, <3>1 DEF DeliveryTyped
    <3> QED
      BY <1>2, <3>1, <3>2, GoneInOneThread
  <2>3. CASE Crash(p)
    <3>1. /\ GoneFromEveryNode(p) /\ UNCHANGED <<binding, opened>>
          /\ step[p][n] # "posted" /\ n \notin excused
      BY <2>3 DEF Crash, slack
    <3> QED
      BY <1>2, <3>1, GoneInOneThread
  <2> QED
    BY <1>4, <2>1, <2>2, <2>3 DEF ProcessStep
<1>5. ASSUME NEW p \in Process, NEW m \in Node, NodeStep(p, m) PROVE InOneThread(n)'
  <2>1. n \notin excused
    BY <1>5, OtherNodesStay
  <2>2. CASE m = n
    BY <1>2, <1>5, <2>1, <2>2, DeliveryInOneThread
  <2>3. CASE m # n
    BY <1>2, <1>5, <2>1, <2>3, OtherNodesStay, StillInOneThread
  <2> QED
    BY <2>2, <2>3
<1> QED
  BY <1>3, <1>4, <1>5, StepsOfTheStory

-----------------------------------------------------------------------------
(* The theorems.                                                           *)

\* A run begins with nobody at work, nothing published and no thread.
LEMMA NotificationStart == Init => NotificationInv
<1> SUFFICES ASSUME Init PROVE NotificationInv
  OBVIOUS
<1> USE NotificationAssumption
<1>1. TypeOK
  BY DEF Init, TypeOK, Underway
<1>2. ShapeInv
  BY DEF Init, ShapeInv
<1>3. LockInv
  BY DEF Init, LockInv
<1>4. QueueInv
  BY DEF Init, QueueInv
<1>5. ToldInv
  BY DEF Init, ToldInv
<1>6. OpenedInv
  <2> SUFFICES ASSUME NEW n \in Node PROVE opened[n] <= Cardinality(ToldIds(n))
    BY DEF OpenedInv
  <2>1. ToldIds(n) = {} /\ opened[n] = 0
    BY DEF Init, ToldIds
  <2>2. Cardinality({}) = 0
    BY FS_EmptySet
  <2> QED
    BY <2>1, <2>2
<1>7. ThreadInv
  BY DEF Init, ThreadInv, InOneThread
<1>8. OnlyCommandsAreOvertaken
  BY DEF Init, OnlyCommandsAreOvertaken
<1> QED
  BY <1>1, <1>2, <1>3, <1>4, <1>5, <1>6, <1>7, <1>8 DEF NotificationInv

\* The invariant of the notifications holds in every state of every run.
THEOREM NotificationInductive == Spec => []NotificationInv
<1>1. ASSUME NotificationInv, [Next]_vars PROVE NotificationInv'
  BY <1>1, TypesKept, LockKept, QueueKept, ToldKept, OpenedKept, ThreadKept, OrderKept
     DEF NotificationInv, Typed
<1> QED
  BY <1>1, NotificationStart, PTL DEF Spec

\* A node's story is one thread, told in order: a second thread takes a lost reply, a
\* killed process or two that deliver at once (thread binding of a node's row), and
\* only a command, which lets go of the run lock before its messages are sent, is
\* overtaken (BotNotificationDispatcher, the handlers of dagctl).
THEOREM StoryTheorem == Spec => []StoryIsToldInOrder
<1>1. NotificationInv => StoryIsToldInOrder
  <2> SUFFICES ASSUME NotificationInv PROVE StoryIsToldInOrder
    OBVIOUS
  <2>1. ASSUME NEW n \in Node, n \notin excused PROVE ~(opened[n] > 1)
    BY <2>1 DEF NotificationInv, ThreadInv, InOneThread, ShapeInv
  <2>2. OneThreadPerNode
    BY <2>1 DEF OneThreadPerNode
  <2> QED
    BY <2>2 DEF NotificationInv, StoryIsToldInOrder
<1> QED
  BY <1>1, NotificationInductive, PTL
=============================================================================
