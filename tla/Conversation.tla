---------------------------- MODULE Conversation ----------------------------
(***************************************************************************)
(* A conversation on the screen of the web console, while its agent works. *)
(* The console polls the newest page and, where that does not reach what   *)
(* it has, the pages below it; a person scrolls up and an older page is    *)
(* loaded.  Polls overlap with each other and with the older page, answers *)
(* may come in any order, the transcript grows, and a retry --reset gives  *)
(* the node another transcript under the same path.                        *)
(***************************************************************************)
EXTENDS TranscriptPages

CONSTANTS
  Poll,            \* polls under way at a time
  MaxPolledPages,  \* MAX_POLLED_PAGES
  MaxLines,        \* bound: lines of a transcript
  MaxAccidents     \* bound: resets, sessions killed in a line, failed or slow requests

ASSUME ConsoleAssumption == MaxPolledPages \in Nat \ {0}

VARIABLES
  cache,     \* what is on the screen
  polls,     \* the polls under way
  older,     \* the request for an older page
  failed,    \* whether the last request failed
  launched,  \* sessions begun so far
  accidents  \* accidents so far

console == <<cache, polls, older, failed>>
agent == <<transcript, launched>>
vars == <<agent, console, accidents>>

NoCache == [session |-> NoSession, messages |-> <<>>, cursor |-> Nothing, loaded |-> FALSE]
NoPoll ==
  [stage |-> "idle", known |-> {}, session |-> NoSession, pages |-> <<>>, next |-> Nothing]
NoRequest == [before |-> Nothing, answer |-> <<>>]

Init ==
  /\ executor \in {"claude", "codex"}
  /\ session = 1 /\ launched = 1
  /\ file = <<>> /\ tail = 0
  /\ cache = NoCache
  /\ polls = [p \in Poll |-> NoPoll]
  /\ older = NoRequest
  /\ failed = FALSE
  /\ accidents = 0

Accident == accidents < MaxAccidents /\ accidents' = accidents + 1

-----------------------------------------------------------------------------
\* The agent.  A line is longer when it is a call, so that some span blocks.
Size(kind) == IF kind = "call" THEN Block + 1 ELSE 1

OpenCalls == {i \in DOMAIN file : file[i].kind = "call" /\ ~HasResult(i, DOMAIN file)}

AddLine(kind, of) ==
  file' = Append(file, [at |-> FileEnd, size |-> tail + Size(kind), kind |-> kind, of |-> of])

MayWrite == session # NoSession /\ Len(file) < MaxLines

Write ==
  /\ MayWrite
  /\ tail = 0
  /\ \/ \E kind \in {"say", "call"} : AddLine(kind, 0)
     \/ \E i \in OpenCalls : AddLine("result", i)
  /\ UNCHANGED <<executor, session, tail, console, launched, accidents>>

\* A session killed while it wrote leaves half a line, which the next one goes on.
KilledWriting ==
  /\ MayWrite
  /\ Accident
  /\ tail = 0
  /\ tail' = 1
  /\ UNCHANGED <<executor, session, file, console, launched>>

WriteOn ==
  /\ MayWrite
  /\ tail > 0
  /\ AddLine("noise", 0)
  /\ tail' = 0
  /\ UNCHANGED <<executor, session, console, launched, accidents>>

\* dagctl retry --reset forgets the resume token; the launch makes another.
Reset ==
  /\ session # NoSession
  /\ Accident
  /\ session' = NoSession /\ file' = <<>> /\ tail' = 0
  /\ UNCHANGED <<executor, console, launched>>

Launch ==
  /\ session = NoSession
  /\ launched' = launched + 1
  /\ session' = launched'
  /\ UNCHANGED <<executor, file, tail, console, accidents>>

-----------------------------------------------------------------------------
\* The console.
Ids(messages) == {messages[n].id : n \in DOMAIN messages}

PolledMessages(pages) == FlattenSeq([n \in DOMAIN pages |-> pages[n].messages])

NextPollCursor(known, known_session, pages) ==
  LET overlaps == Ids(PolledMessages(pages)) \cap known # {}
      may_overlap == known # {} /\ known_session = pages[1].session
      pages_left == Len(pages) < MaxPolledPages
  IN  IF overlaps \/ ~may_overlap \/ ~pages_left
      THEN Nothing
      ELSE Last(pages).cursor

CacheOf(page) ==
  [session |-> page.session, messages |-> Reverse(page.messages),
   cursor |-> page.cursor, loaded |-> TRUE]

LatestOf(message, polled) ==
  LET newer == {n \in DOMAIN polled : polled[n].id = message.id}
  IN  IF newer = {} THEN message ELSE polled[Max(newer)]

\* The polled messages above the newest one that is known.
NewMessages(polled) ==
  LET known == {n \in DOMAIN polled : polled[n].id \in Ids(cache.messages)}
  IN  SubSeq(polled, 1, (IF known = {} THEN Len(polled) ELSE Min(known) - 1))

OverlapsAnyway(pages) == cache.loaded /\ cache.session = pages[1].session
Overlaps(pages) ==
  /\ cache.loaded
  /\ cache.session = pages[1].session
  /\ Ids(PolledMessages(pages)) \cap Ids(cache.messages) # {}

MergePages(pages) ==
  LET polled == PolledMessages(pages)
      latest == [n \in DOMAIN cache.messages |-> LatestOf(cache.messages[n], polled)]
  IN  IF Overlaps(pages)
      THEN [cache EXCEPT !.messages = latest \o Reverse(NewMessages(polled))]
      ELSE CacheOf(pages[1])

PrependPage(page, before) ==
  IF cache.cursor # before THEN cache
  ELSE IF ~page.found \/ page.session # cache.session THEN NoCache
  ELSE [cache EXCEPT !.messages = Reverse(page.messages) \o @, !.cursor = page.cursor]

IdlePolls == {p \in Poll : polls[p].stage = "idle"}

\* The timer does not wait for the last poll, but one slower than the interval is rare.
\* A poll remembers the cache it began with.
StartPoll(p) ==
  /\ IdlePolls # {} /\ p = Min(IdlePolls)
  /\ \/ IdlePolls = Poll /\ UNCHANGED accidents
     \/ IdlePolls # Poll /\ Accident
  /\ polls' = [polls EXCEPT ![p] =
       [NoPoll EXCEPT !.stage = "asking", !.known = Ids(cache.messages),
                      !.session = cache.session]]
  /\ UNCHANGED <<agent, cache, older, failed>>

Answered(poll) == [poll EXCEPT !.stage = "answered", !.next = Nothing]

\* A poll asks on below the page it got, or is done.
WithPage(poll, page) ==
  LET pages == Append(poll.pages, page)
      next  == NextPollCursor(poll.known, poll.session, pages)
      asked == [poll EXCEPT !.pages = pages, !.next = next]
  IN  IF next = Nothing THEN Answered(asked) ELSE asked

AnswerPoll(p) ==
  /\ polls[p].stage = "asking"
  /\ \E page \in Answers(polls[p].next) :
       polls' = [polls EXCEPT ![p] = IF page.found THEN WithPage(@, page) ELSE Answered(@)]
  /\ UNCHANGED <<agent, cache, older, failed, accidents>>

\* One request of the poll fails: what it has so far is dropped.
FailPoll(p) ==
  /\ polls[p].stage = "asking"
  /\ Accident
  /\ polls' = [polls EXCEPT ![p] = NoPoll]
  /\ failed' = TRUE
  /\ UNCHANGED <<agent, cache, older>>

\* The answer is merged into the cache as it is by now.
MergePoll(p) ==
  /\ polls[p].stage = "answered"
  /\ cache' = MergePages(polls[p].pages)
  /\ polls' = [polls EXCEPT ![p] = NoPoll]
  /\ failed' = FALSE
  /\ UNCHANGED <<agent, older, accidents>>

\* A tab that is hidden drops its polls; when it is seen again it polls at once.
HideTab ==
  /\ Accident
  /\ polls' = [p \in Poll |-> NoPoll]
  /\ UNCHANGED <<agent, cache, older, failed>>

IsLoading == older # NoRequest

LoadOlder ==
  /\ ~IsLoading
  /\ ~failed
  /\ cache.cursor # Nothing
  /\ older' = [NoRequest EXCEPT !.before = cache.cursor]
  /\ UNCHANGED <<agent, cache, polls, failed, accidents>>

AnswerOlder ==
  /\ IsLoading
  /\ older.answer = <<>>
  /\ \E page \in Answers(older.before) : older' = [older EXCEPT !.answer = <<page>>]
  /\ UNCHANGED <<agent, cache, polls, failed, accidents>>

FailOlder ==
  /\ IsLoading
  /\ Accident
  /\ older' = NoRequest
  /\ failed' = TRUE
  /\ UNCHANGED <<agent, cache, polls>>

ReceiveOlder ==
  /\ older.answer # <<>>
  /\ cache' = PrependPage(older.answer[1], older.before)
  /\ older' = NoRequest
  /\ failed' = FALSE
  /\ UNCHANGED <<agent, polls, accidents>>

Agent == Write \/ KilledWriting \/ WriteOn \/ Reset \/ Launch

Next ==
  \/ Agent
  \/ \E p \in Poll : StartPoll(p) \/ AnswerPoll(p) \/ FailPoll(p) \/ MergePoll(p)
  \/ HideTab
  \/ LoadOlder \/ AnswerOlder \/ FailOlder \/ ReceiveOlder

\* The console polls on and its requests come back; its reader scrolls up.
Fairness ==
  /\ \A p \in Poll : WF_vars(StartPoll(p)) /\ WF_vars(AnswerPoll(p)) /\ WF_vars(MergePoll(p))
  /\ WF_vars(LoadOlder) /\ WF_vars(AnswerOlder) /\ WF_vars(ReceiveOlder)
  /\ WF_vars(Launch)

Spec == Init /\ [][Next]_vars
FairSpec == Spec /\ Fairness

-----------------------------------------------------------------------------
AllMessages == Messages(DOMAIN file, DOMAIN file)

IsMessage(m) ==
  /\ m.id \in Nat \X {1, 2}
  /\ m.session \in 1 .. launched
  /\ m.result \in BOOLEAN

IsPage(page) ==
  /\ page.session \in 0 .. launched
  /\ page.cursor = Nothing \/ page.cursor \in Nat \ {0}
  /\ \A n \in DOMAIN page.messages : IsMessage(page.messages[n])

\* Every message and every cursor the console holds is one a transcript has.  A page
\* that reaches the first byte has no cursor below it.
TypeOK ==
  /\ executor \in {"claude", "codex"}
  /\ session \in 0 .. launched
  /\ IsPage(cache)
  /\ \A p \in Poll : \A n \in DOMAIN polls[p].pages : IsPage(polls[p].pages[n])
  /\ older.before = Nothing \/ older.before \in Nat \ {0}
  /\ \A n \in DOMAIN older.answer : IsPage(older.answer[n])
  /\ failed \in BOOLEAN

IdSequence(messages) == [n \in DOMAIN messages |-> messages[n].id]

\* Of the session the node has now, the screen shows an unbroken part of the
\* transcript: from the cursor on, in order, no message twice and none left out,
\* whatever the order the answers of polls and of older pages come in.
ScreenIsUnbroken ==
  cache.session = session /\ cache.messages # <<>> =>
    LET below == {i \in DOMAIN file : file[i].at < cache.cursor}
        loaded == IdSequence(Messages(DOMAIN file \ below, {}))
    IN  IsPrefix(IdSequence(cache.messages), loaded)

\* The result of a call that follows it within as many lines as a page has messages
\* comes with the call, wherever the edges of the pages fall.
NearResultIsShown ==
  \A before \in {Nothing} \cup {file[i].at : i \in DOMAIN file} :
    \A page \in Answers(before) :
      \A n \in DOMAIN page.messages, i, j \in DOMAIN file :
        /\ file[i].at = page.messages[n].id[1]
        /\ IsCall(i, page.messages[n].id[2])
        /\ file[j].kind = "result" /\ file[j].of = i
        /\ j <= i + Limit
        => page.messages[n].result

\* When the agent rests, the whole conversation comes to be on the screen of a
\* reader who scrolls up, with every result of its newest page.
ShowsAll ==
  \E newest \in Answers(Nothing) :
    /\ cache.session = newest.session
    /\ cache.cursor = Nothing
    /\ IdSequence(cache.messages) = IdSequence(AllMessages)
    /\ IsSuffix(Reverse(newest.messages), cache.messages)

ScreenCatchesUp == <>[]ShowsAll

\* The screen shows the conversation as the transcript has it: unbroken, and every
\* call with the result that is near it.
ScreenIsTrue ==
  /\ TypeOK
  /\ ScreenIsUnbroken
  /\ NearResultIsShown

=============================================================================
