--------------------------- MODULE TranscriptPages ---------------------------
(***************************************************************************)
(* The pages the web console cuts from an agent's transcript.  The file is *)
(* read backwards from a byte offset in blocks of a fixed size, as many as *)
(* it takes to find the messages of a page; a call's result is a record of *)
(* its own, which may lie past the page's newer edge.                      *)
(* A line is a record of its first byte, its length and what it records.   *)
(***************************************************************************)
EXTENDS Integers, Sequences, SequencesExt, FiniteSetsExt

CONSTANTS
  Block,  \* TRANSCRIPT_BLOCK_SIZE_BYTES
  Limit   \* messages a page is asked for, and lines it looks ahead

ASSUME PageAssumption == Block \in Nat \ {0} /\ Limit \in Nat \ {0}

VARIABLES
  executor,  \* the agent of the node: "claude" or "codex"
  session,   \* its resume token; NoSession for none
  file,      \* the whole lines of the session's transcript
  tail       \* bytes after the last line end

transcript == <<executor, session, file, tail>>

Nothing == -1
NoSession == 0

EndOf(line) == line.at + line.size
FileEnd == IF file = <<>> THEN 0 ELSE EndOf(Last(file))
FileSize == FileEnd + tail

HasTranscript == session # NoSession /\ FileSize > 0

\* The messages of a line.  Claude may say something in the record of a call.  Codex
\* records an item when it starts and when it is done; a call is a message where it
\* starts.
ClaudeBlocks(line) ==
  CASE line.kind = "say" -> 1 [] line.kind = "call" -> 2 [] OTHER -> 0
CodexBlocks(line) == IF line.kind \in {"say", "call"} THEN 1 ELSE 0

Blocks(line) == IF executor = "claude" THEN ClaudeBlocks(line) ELSE CodexBlocks(line)

-----------------------------------------------------------------------------
\* The whole lines of a block.  What stands before the first line end belongs to a
\* line that began earlier, unless the block is the first of the file.
WholeLines(from, to) ==
  {i \in DOMAIN file : (from = 0 \/ file[i].at > from) /\ EndOf(file[i]) <= to}

BlockStarts(end) == {Max({0, end - k * Block}) : k \in 1 .. end \div Block + 1}

HasLinesBefore(end) == \E i \in DOMAIN file : EndOf(file[i]) <= end

\* Blocks are read downwards until one has a whole line.
LinesBefore(end) ==
  WholeLines(Max({from \in BlockStarts(end) : WholeLines(from, end) # {}}), end)

\* A line the offset falls into is read from there and does not parse.
LinesFrom(offset) ==
  LET rest == {i \in DOMAIN file : EndOf(file[i]) > offset}
  IN  {i \in rest : i < Min(rest) + Limit /\ file[i].at >= offset}

LinesBetween(from, to) ==
  {i \in DOMAIN file : file[i].at >= from /\ EndOf(file[i]) <= to}

CountMessages(lines) == MapThenSumSet(LAMBDA i : Blocks(file[i]), lines)

\* The offset a page reaches down to.
OldestOffset(end) ==
  LET Reach[o \in 0 .. end] ==
        IF \/ CountMessages(LinesBetween(o, end)) >= Limit
           \/ ~HasLinesBefore(o)
        THEN o
        ELSE Reach[file[Min(LinesBefore(o))].at]
  IN  Reach[end]

-----------------------------------------------------------------------------
\* The last block of a call's record is the call.
IsCall(i, k) == file[i].kind = "call" /\ k = Blocks(file[i])

ClaudeResult(i, lines) == \E j \in lines : file[j].kind = "result" /\ file[j].of = i

\* The last record of the item among the lines is what codex shows.
CodexResult(i, lines) ==
  file[Max({i} \cup {j \in lines : file[j].of = i})].kind = "result"

HasResult(i, lines) ==
  IF executor = "claude" THEN ClaudeResult(i, lines) ELSE CodexResult(i, lines)

\* A message, with the id the console knows it by.
Message(i, k, lines) ==
  [id |-> <<file[i].at, k>>, session |-> session,
   result |-> IsCall(i, k) /\ HasResult(i, lines)]

LineMessages(i, lines) == [k \in 1 .. Blocks(file[i]) |-> Message(i, k, lines)]

\* The messages of the lines, oldest first, with the results found in seen.
Messages(lines, seen) ==
  FlattenSeq([i \in DOMAIN file |-> IF i \in lines THEN LineMessages(i, seen) ELSE <<>>])

NextCursorAfterFull(oldest, count) ==
  IF count <= Limit \/ oldest = 0 THEN Nothing ELSE oldest
NextCursor(oldest, count) == IF count < Limit \/ oldest = 0 THEN Nothing ELSE oldest

EmptyPage ==
  [found |-> TRUE, session |-> NoSession, messages |-> <<>>, cursor |-> Nothing]
Missing == [EmptyPage EXCEPT !.found = FALSE]

LookAhead(before) == IF before = Nothing THEN {} ELSE LinesFrom(before)

PageDownTo(oldest, before, end) ==
  LET lines == LinesBetween(oldest, end)
  IN  [found |-> TRUE, session |-> session,
       messages |-> Reverse(Messages(lines, lines \cup LookAhead(before))),
       cursor |-> NextCursor(oldest, CountMessages(lines))]

\* What the service answers; a cursor past the end of the file is not found.
Answers(before) ==
  LET end == IF before = Nothing THEN FileSize ELSE before
  IN  IF ~HasTranscript THEN {EmptyPage}
      ELSE IF end > FileSize THEN {Missing}
      ELSE {PageDownTo(oldest, before, end) : oldest \in {OldestOffset(end)}}
=============================================================================
