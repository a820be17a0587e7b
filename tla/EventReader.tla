---------------------------- MODULE EventReader ----------------------------
(***************************************************************************)
(* The threads that read the event stream for a watcher.  A thread opens a *)
(* connection, parks on a read, puts what it gets in its queue, and        *)
(* connects again when the stream is lost.  The watcher stops it from      *)
(* another thread: it raises two flags and shuts the connection it finds   *)
(* stored, while the reader may be anywhere between opening and storing.   *)
(***************************************************************************)
EXTENDS WebhookBridge, FiniteSetsExt

VARIABLES
  at,      \* where a thread is; "done" for one that ended or never ran
  closed,  \* whether the reader was told to stop and its stream is closed
  topics,  \* what a reader subscribed to
  inbox    \* payloads read and not yet taken

reader == <<at, closed, topics, inbox>>

ReaderInit ==
  /\ at = [r \in Reader |-> "done"]
  /\ closed = [r \in Reader |-> FALSE]
  /\ topics = [r \in Reader |-> {}]
  /\ inbox = [r \in Reader |-> 0]

IdleReaders == {r \in Reader : at[r] = "done"}

Start(r, subscription) ==
  /\ IdleReaders # {}
  /\ r = Min(IdleReaders)
  /\ at' = [at EXCEPT ![r] = "top"]
  /\ topics' = [topics EXCEPT ![r] = subscription]
  /\ UNCHANGED <<closed, inbox>>

\* A thread that was stopped ends, and its reader is garbage.
Ends(r) ==
  /\ at[r] = "top"
  /\ closed[r]
  /\ at' = [at EXCEPT ![r] = "done"]
  /\ closed' = [closed EXCEPT ![r] = FALSE]
  /\ topics' = [topics EXCEPT ![r] = {}]
  /\ UNCHANGED <<inbox, bridge>>

\* A thread that was not stopped connects.  An attempt that fails leaves it where it
\* is; a stop that comes during one is seen when the connection is open.
Connect(r) ==
  /\ at[r] = "top"
  /\ ~closed[r]
  /\ Accept(r, topics[r])
  /\ at' = [at EXCEPT ![r] = "opened"]
  /\ UNCHANGED <<closed, topics, inbox, up, events, outages>>

StoreResponse(r) ==
  /\ at[r] = "opened"
  /\ at' = [at EXCEPT ![r] = "stored"]
  /\ UNCHANGED <<closed, topics, inbox, bridge>>

TrustsTheClose(r) == FALSE
SeesTheClose(r) == closed[r]

\* A close that ran before the connection was stored has shut nothing.
Recheck(r) ==
  /\ at[r] = "stored"
  /\ at' = [at EXCEPT ![r] = "reading"]
  /\ IF SeesTheClose(r) THEN HangUp({r}) ELSE UNCHANGED conn
  /\ UNCHANGED <<closed, topics, inbox, up, events, outages>>

ReadPayload(r) ==
  /\ at[r] = "reading"
  /\ Writes(r)
  /\ inbox' = [inbox EXCEPT ![r] = IF closed[r] THEN 0 ELSE @ + 1]
  /\ UNCHANGED <<at, closed, topics>>

\* A read parked on a connection ends when either end of it is closed.  The thread
\* is back at the top, where it waits before it connects again.
ReadEnds(r) ==
  /\ at[r] = "reading"
  /\ ~conn[r].client
  /\ at' = [at EXCEPT ![r] = "top"]
  /\ UNCHANGED <<closed, topics, inbox, bridge>>

\* Stopping takes two steps of the watcher: the flags, then the connection.
\* Nobody takes from its inbox any more.
RaiseNoFlag(r) ==
  /\ inbox' = [inbox EXCEPT ![r] = 0]
  /\ UNCHANGED <<at, closed, topics, bridge>>

RaiseFlags(r) ==
  /\ closed' = [closed EXCEPT ![r] = TRUE]
  /\ inbox' = [inbox EXCEPT ![r] = 0]
  /\ UNCHANGED <<at, topics, bridge>>

\* The stream knows the connection from storing it to the end of the read.
Stored(r) == at[r] \in {"stored", "reading"}

EndRead(r) ==
  /\ IF Stored(r) THEN HangUp({r}) ELSE UNCHANGED conn
  /\ UNCHANGED <<reader, up, events, outages>>

\* The threads of a process that is gone.
NoThreads ==
  /\ at' = [r \in Reader |-> "done"]
  /\ closed' = [r \in Reader |-> FALSE]
  /\ topics' = [r \in Reader |-> {}]
  /\ inbox' = [r \in Reader |-> 0]
  /\ HangUp(Reader)

Read(r) ==
  \/ Ends(r)
  \/ Connect(r)
  \/ StoreResponse(r)
  \/ Recheck(r)
  \/ ReadPayload(r)
  \/ ReadEnds(r)

ReaderTypeOK ==
  /\ at \in [Reader -> {"done", "top", "opened", "stored", "reading"}]
  /\ closed \in [Reader -> BOOLEAN]
  /\ topics \in [Reader -> SUBSET Pr]
  /\ inbox \in [Reader -> 0..MaxEvents]

=============================================================================
