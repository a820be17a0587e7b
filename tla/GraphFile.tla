----------------------------- MODULE GraphFile -----------------------------
(***************************************************************************)
(* What a pass makes of the graph file as it stands on that pass: the file *)
(* is parsed and validated, every node of it gets a row, and each pending  *)
(* node starts once its dependencies and its start time allow.  The file   *)
(* is a person's to edit while the run is on, one field at a time; a node  *)
(* may be skipped at any time, and a session may be put off.               *)
(* How a node comes to be merged or stopped is the module DagRun's; here a *)
(* node that works is merged or put off.                                   *)
(***************************************************************************)
EXTENDS Integers, FiniteSetsExt, SequencesExt

CONSTANTS
  Id,          \* what a node may be called
  Files,       \* the files a run begins with
  Cooldowns,   \* cooldown_seconds a file may state
  MaxWorkers,  \* max_workers
  MaxTime,     \* bound: the clock
  MaxEdits     \* bound: edits of the file

\* A [[nodes]] entry; a "flaw" is what the loader or a validator rejects in one.
Entry == [id : Id, deps : SUBSET Id, cooldown : Cooldowns,
          flaw : {"none", "unparsed", "pr"}]
File == [root : BOOLEAN, nodes : Seq(Entry)]

ASSUME GraphFileAssumption ==
  /\ Files \subseteq File
  /\ Cooldowns \subseteq Nat
  /\ MaxWorkers \in Nat \ {0}
  /\ MaxTime \in Nat \ {0}

VARIABLES
  file,   \* the graph file: its project_root and its [[nodes]]
  row,    \* the row of each node; absent before the first pass that names it
  clock,  \* the time
  noted,  \* the waits the audit trail tells of: from when, until when
  edits   \* edits so far

vars == <<file, row, clock, noted, edits>>

Never == 0
Absent == [state |-> "absent", updated |-> Never, resume |-> Never]

Entries == {file.nodes[i] : i \in DOMAIN file.nodes}
Ids == {entry.id : entry \in Entries}

\* A node named twice is the last of that name.
EntryOf(id) == SelectLastInSeq(file.nodes, LAMBDA entry : entry.id = id)
DependsOn == [id \in Ids |-> file.nodes[EntryOf(id)].deps]
Cooldown(id) == file.nodes[EntryOf(id)].cooldown

G == INSTANCE DagGraph WITH Node <- Ids, DependsOn <- DependsOn

Init ==
  /\ file \in Files
  /\ row = [id \in Id |-> Absent]
  /\ clock = 1
  /\ noted = [id \in Id |-> <<>>]
  /\ edits = 0

-----------------------------------------------------------------------------
\* The loader rejects a file whose values are not of their kind.
ParsesEntry(entry) == entry.flaw # "unparsed"
Parses == file.nodes # <<>> /\ \A entry \in Entries : ParsesEntry(entry)

\* The validators.
DuplicatedIds == {id \in Ids : \E i, j \in DOMAIN file.nodes :
                    i # j /\ file.nodes[i].id = id /\ file.nodes[j].id = id}
UnknownDependencies == (UNION {entry.deps : entry \in Entries}) \ Ids
MalformedPullRequests == {entry \in Entries : entry.flaw = "pr"}

\* Rounds of the elimination: a node goes when nothing it waits for is left.
CycleMembers ==
  LET Left[n \in 0 .. Cardinality(Ids)] ==
        IF n = 0 THEN Ids
        ELSE {id \in Left[n - 1] : DependsOn[id] \cap Left[n - 1] # {}}
  IN  Left[Cardinality(Ids)]

NoFindings ==
  /\ DuplicatedIds = {}
  /\ UnknownDependencies = {}
  /\ CycleMembers = {}
  /\ MalformedPullRequests = {}
  /\ file.root

\* A pass goes on only with a file that parses and has no finding.
Accepted == Parses /\ NoFindings

-----------------------------------------------------------------------------
\* The rows.
InState(state) == {id \in Id : row[id].state = state}

StateRow(id, state, resume) == [state |-> state, updated |-> clock, resume |-> resume]

Record(id, state, resume) == row' = [row EXCEPT ![id] = StateRow(id, state, resume)]

EnsureRows ==
  /\ Accepted
  /\ \E id \in Ids : row[id] = Absent
  /\ row' = [id \in Id |-> IF id \in Ids /\ row[id] = Absent
                           THEN StateRow(id, "pending", Never)
                           ELSE row[id]]
  /\ UNCHANGED <<file, clock, noted, edits>>

\* The nodes the pass sweeps, by their state.
Swept(state) == IF Accepted THEN {id \in Ids : row[id].state = state} ELSE {}

-----------------------------------------------------------------------------
\* When a pending node may start.
Dependencies(id) == G!EffectiveDependencies(id, InState("skipped"))

\* The cooldown counted from the dependencies that remain (a mutated form).
CooldownEffective(id, nodes) ==
  LET ended == {n \in nodes : /\ n \in Dependencies(id)
                              /\ row[n].state \in {"merged", "skipped"}}
  IN  IF Cooldown(id) = 0 \/ ended = {} THEN {}
      ELSE {Max({row[n].updated : n \in ended}) + Cooldown(id)}

CooldownStart(id, nodes) ==
  LET ended == {n \in nodes : /\ n \in DependsOn[id] \cup Dependencies(id)
                              /\ row[n].state \in {"merged", "skipped"}}
  IN  IF Cooldown(id) = 0 \/ ended = {} THEN {}
      ELSE {Max({row[n].updated : n \in ended}) + Cooldown(id)}

\* The later of the cooldown's end and resume_at, of the nodes handed in.
StartTime(id, nodes) ==
  Max({Never} \cup CooldownStart(id, nodes)
              \cup {row[n].resume : n \in nodes \cap {id}})

\* The dependencies that remain only (a mutated form).
ConsoleRemaining(id) == Dependencies(id) \cup {id}

\* The nodes a pass hands in, and those the console does.
PassNodes(id) == InState("skipped") \cup Dependencies(id) \cup {id}
ConsoleNodes(id) == {n \in Id : row[n] # Absent}

\* The start time the console shows.
ConsoleStart(id) == StartTime(id, ConsoleNodes(id))

HasDependencies(id) == Dependencies(id) \subseteq InState("merged")

\* A node put off counted as one that works (a mutated form).
BusyOrPutOff == {id \in Id : row[id].state = "in_progress" \/ row[id].resume # Never}
Busy == InState("in_progress")

Start(id) ==
  /\ id \in Swept("pending")
  /\ HasDependencies(id)
  /\ StartTime(id, PassNodes(id)) <= clock
  /\ Cardinality(Busy) < MaxWorkers
  /\ Record(id, "in_progress", Never)
  /\ UNCHANGED <<file, clock, noted, edits>>

\* The wait is told of once: the row is younger than the cooldown from then on.
MayNote(id, start) == row[id].resume = Never /\ row[id].updated <= start - Cooldown(id)

NoteWait(id) ==
  LET start == StartTime(id, PassNodes(id)) IN
  /\ id \in Swept("pending")
  /\ HasDependencies(id)
  /\ start > clock
  /\ MayNote(id, start)
  /\ clock > start - Cooldown(id)   \* a pass writes later than what it read
  /\ Record(id, "pending", Never)
  /\ noted' = [noted EXCEPT ![id] = Append(@, <<start - Cooldown(id), start>>)]
  /\ UNCHANGED <<file, clock, edits>>

Merge(id) ==
  /\ id \in Swept("in_progress")
  /\ Record(id, "merged", Never)
  /\ UNCHANGED <<file, clock, noted, edits>>

\* A session that ran into a usage limit is put off to a later time.
PutOff(id) ==
  /\ id \in Swept("in_progress")
  /\ clock < MaxTime
  /\ Record(id, "pending", clock + 1)
  /\ UNCHANGED <<file, clock, noted, edits>>

\* dagctl skip; a node that is skipped already is skipped again.
Skip(id) ==
  /\ row[id].state \in {"pending", "skipped"}
  /\ row[id].updated < clock
  /\ Record(id, "skipped", Never)
  /\ UNCHANGED <<file, clock, noted, edits>>

Tick ==
  /\ clock < MaxTime
  /\ clock' = clock + 1
  /\ UNCHANGED <<file, row, noted, edits>>

-----------------------------------------------------------------------------
\* A person edits one field of the file, or takes a node out of it.
EditedEntries(entry) ==
       {[entry EXCEPT !.deps = deps] : deps \in SUBSET Id}
  \cup {[entry EXCEPT !.id = id] : id \in Id}
  \cup {[entry EXCEPT !.cooldown = cooldown] : cooldown \in Cooldowns}
  \cup {[entry EXCEPT !.flaw = flaw] : flaw \in {"none", "unparsed", "pr"}}

Edit ==
  /\ edits < MaxEdits
  /\ edits' = edits + 1
  /\ \/ \E i \in DOMAIN file.nodes :
          \/ \E entry \in EditedEntries(file.nodes[i]) : file' = [file EXCEPT !.nodes[i] = entry]
          \/ file' = [file EXCEPT !.nodes = RemoveAt(@, i)]
     \/ file' = [file EXCEPT !.root = ~@]
  /\ UNCHANGED <<row, clock, noted>>

Next ==
  \/ EnsureRows \/ Tick \/ Edit
  \/ \E id \in Id : Start(id) \/ NoteWait(id) \/ Merge(id) \/ PutOff(id) \/ Skip(id)

\* Passes come again and again, time goes on, and pull requests are merged.
Fairness ==
  /\ WF_vars(EnsureRows) /\ WF_vars(Tick)
  /\ \A id \in Id : WF_vars(Start(id)) /\ WF_vars(Merge(id))

Spec == Init /\ [][Next]_vars
FairSpec == Spec /\ Fairness

-----------------------------------------------------------------------------
\* Only a node that waits to be resumed has a time to resume at.
TypeOK ==
  /\ file \in File
  /\ \A id \in Id :
       /\ row[id].state \in {"absent", "pending", "in_progress", "merged", "skipped"}
       /\ row[id].updated \in 0 .. clock
       /\ row[id].resume # Never =>
            row[id].state = "pending" /\ row[id].resume \in 1 .. MaxTime
  /\ clock \in 1 .. MaxTime

\* Whatever is done to the file, a pass only goes on with a graph: every node is named
\* once, waits for nodes of the file, and no set of nodes waits for itself.  The other
\* modules assume so much of the graph.
AcceptedFileIsAGraph ==
  Accepted =>
    /\ Cardinality(Ids) = Len(file.nodes)
    /\ DependsOn \in [Ids -> SUBSET Ids]
    /\ \A S \in SUBSET Ids : S # {} => \E id \in S : DependsOn[id] \cap S = {}

\* A wait is told of once, however many passes find it and whatever is edited or
\* skipped meanwhile: no two notes tell of the same wait.
WaitIsNotedOnce == \A id \in Id : IsInjective(noted[id])

\* The start time the console shows is the one the pass keeps to, though the two are
\* computed from different sets of nodes.
ConsoleShowsTheStart ==
  \A id \in Swept("pending") :
    HasDependencies(id) => ConsoleStart(id) = StartTime(id, PassNodes(id))

\* No node starts within its cooldown of the end of a node the file says it depends
\* on, or that it depends on in place of a skipped one, nor before it is to resume.
Starts(id) == row[id].state = "pending" /\ row'[id].state = "in_progress"
CooldownIsKept ==
  [][\A id \in Id : Starts(id) =>
       /\ row[id].resume <= clock
       /\ \A d \in DependsOn[id] \cup Dependencies(id) :
            row[d].state \in {"merged", "skipped"} =>
              row[d].updated + Cooldown(id) <= clock]_vars

\* A node whose dependencies are merged does not wait for ever beyond its start time,
\* unless a node that works was taken out of the file, whose worker is never free again.
MayStart(id) ==
  /\ id \in Swept("pending")
  /\ HasDependencies(id)
  /\ StartTime(id, PassNodes(id)) <= MaxTime
  /\ Busy \subseteq Ids
ReadyNodeStarts == \A id \in Id : []<>~MayStart(id)

\* A pass keeps to the file as it stands: it takes nothing that is no graph, tells of
\* a wait once, and starts a node when the console says it will.
RunKeepsToTheFile ==
  /\ TypeOK
  /\ AcceptedFileIsAGraph
  /\ WaitIsNotedOnce
  /\ ConsoleShowsTheStart

=============================================================================
