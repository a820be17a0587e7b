-------------------------- MODULE PullRequestWatch --------------------------
(***************************************************************************)
(* How news on the pull request of one node reaches its agent.             *)
(*                                                                         *)
(* DagRun says that a resting node may have news on any pass.  Here is     *)
(* where news comes from: comments, failing checks and conflicts on        *)
(* GitHub, read call by call; the marks that say how far each signal was   *)
(* acted on; and the wake, whose spawn and four writes are steps of their  *)
(* own, between any two of which the pass may die.                         *)
(***************************************************************************)
EXTENDS Naturals, Sequences, FiniteSets, FiniteSetsExt

CONSTANTS
  Endpoints,      \* the lists of artifacts, in the order they are fetched
  Check,          \* the names of the checks
  NodeWakes,      \* caps.node_wakes
  FollowsRunbook, \* does the recovery agent keep to the runbook's section?
  MaxComments,    \* bound: comments posted and edited
  MaxHead,        \* bound: head commits of the branch
  MaxNews,        \* bound: comments and pushes, and what is wrong or approved at once
  MaxLosses       \* bound: passes that die, verdicts

ASSUME WatchAssumption ==
  /\ Endpoints \in Seq(STRING) /\ Endpoints # <<>>
  /\ NodeWakes \in Nat
  /\ FollowsRunbook \in BOOLEAN
  /\ MaxComments \in Nat /\ MaxHead \in Nat \ {0}
  /\ MaxNews \in Nat /\ MaxLosses \in Nat

VARIABLES
  posted,      \* the comments of others than the agent: where and when last edited
  head,        \* the head commit of the branch
  failing,     \* the checks that failed on it
  conflicted,  \* whether it conflicts with the base
  approved,    \* whether the pull request is approved
  state,       \* nodes.state: "in_progress", "resting" or "stopped"
  wakes,       \* wakes since the latest launch or retry
  marks,       \* worktrees.marks: how far each signal was acted on
  latest,      \* the latest session's row: its trigger and marks_before
  alive,       \* whether that session's process lives
  fresh,       \* whether the process just spawned lives
  orphans,     \* live processes of sessions that are not the latest row's
  step,        \* where the pass or command that has the run lock is
  reading,     \* what it has read from GitHub
  asked,       \* the marks when the verdict under way was asked for
  told,        \* history: the news some session was started with
  repeats,     \* history: wakes that told a comment or a conflict again
  between,     \* history: comments that came to a list already fetched by a reading
               \* that had others still to fetch
  losses       \* passes that died and verdicts so far

github  == <<posted, head, failing, conflicted, approved>>
rows    == <<state, wakes, marks, latest>>
agents  == <<alive, fresh, orphans>>
history == <<told, repeats, between>>
vars == <<github, rows, agents, step, reading, asked, history, losses>>

Signals == {"comments", "checks", "conflict", "approval"}

NoMarks == [comments |-> 0, checks |-> <<0, {}>>, conflict |-> 0, approval |-> 0]
NoReading == [head |-> 0, failing |-> {}, conflicted |-> FALSE, approved |-> FALSE,
              comments |-> {}, fetched |-> 0]

Steps == {"idle", "reading", "spawned", "added", "saved", "recorded", "restored"}

TypeOK ==
  /\ posted \in Seq([where : {Endpoints[i] : i \in DOMAIN Endpoints}, at : Nat])
  /\ head \in 1 .. MaxHead /\ failing \in SUBSET Check
  /\ conflicted \in BOOLEAN /\ approved \in BOOLEAN
  /\ state \in {"in_progress", "resting", "stopped"}
  /\ wakes \in 0 .. NodeWakes
  /\ DOMAIN marks = Signals
  /\ latest.trigger \in {"launch", "wake", "retry", "recovery"}
  /\ alive \in BOOLEAN /\ fresh \in BOOLEAN /\ orphans \in Nat
  /\ step \in Steps
  /\ between \subseteq DOMAIN posted
  /\ losses \in 0 .. MaxLosses

\* The first session is at work; it has opened the pull request.
Init ==
  /\ posted = <<>> /\ head = 1 /\ failing = {}
  /\ conflicted = FALSE /\ approved = FALSE
  /\ state = "in_progress" /\ wakes = 0 /\ marks = NoMarks
  /\ latest = [trigger |-> "launch", before |-> NoMarks]
  /\ alive = TRUE /\ fresh = FALSE /\ orphans = 0
  /\ step = "idle" /\ reading = NoReading /\ asked = NoMarks
  /\ told = {} /\ repeats = 0 /\ between = {} /\ losses = 0

One(b) == IF b THEN 1 ELSE 0

Loss == losses < MaxLosses /\ losses' = losses + 1

-----------------------------------------------------------------------------
(* What the signals make of a reading.                                     *)

Times(cs) == {c.at : c \in cs}

\* Freshness forgetting the mark (a mutated form).
AllComments(r, m) == r.comments

FreshComments(r, m) == {c \in r.comments : c.at > m.comments}

Signature(r) == IF r.failing = {} THEN <<0, {}>> ELSE <<r.head, r.failing>>

HasFailures(r, m) == r.failing # {} /\ Signature(r) # m.checks

HasConflict(r, m) == r.conflicted /\ r.head # m.conflict

IsApproved(r, m) == r.approved /\ r.head # m.approval

\* The changes that wake the node, as news its session is told.
News(r, m) ==
  {<<"comments", c.id, c.at>> : c \in FreshComments(r, m)}
    \cup (IF HasFailures(r, m) THEN {<<"checks", r.head, r.failing>>} ELSE {})
    \cup (IF HasConflict(r, m) THEN {<<"conflict", r.head, {}>>} ELSE {})

\* The marks moved past every change.
Advanced(r, m) ==
  [comments |-> IF FreshComments(r, m) = {} THEN m.comments
                ELSE Max(Times(FreshComments(r, m))),
   checks   |-> IF HasFailures(r, m) THEN Signature(r) ELSE m.checks,
   conflict |-> IF HasConflict(r, m) THEN r.head ELSE m.conflict,
   approval |-> IF IsApproved(r, m) THEN r.head ELSE m.approval]

-----------------------------------------------------------------------------
(* People, checks and agents at the pull request.                          *)

Now == IF posted = <<>> THEN 0 ELSE Max({posted[k].at : k \in DOMAIN posted})

\* Room for more news on the pull request.
MayChange == Now + (head - 1) + One(failing # {}) + One(conflicted) + One(approved) < MaxNews

\* The pass has read this list and has another one to read.
BetweenCalls(list) ==
  /\ step = "reading" /\ reading.fetched < Len(Endpoints)
  /\ \A i \in DOMAIN Endpoints : Endpoints[i] = list => i <= reading.fetched

Dated(k, list) ==
  between' = IF BetweenCalls(list) THEN between \cup {k} ELSE between \ {k}

\* A comment is posted, or one is edited.  It bears the time this happens, which is
\* taken to be later than any before: see the README on comments in one second.
Comment ==
  /\ Now < MaxComments /\ MayChange
  /\ \/ \E i \in DOMAIN Endpoints :
          /\ posted' = Append(posted, [where |-> Endpoints[i], at |-> Now + 1])
          /\ Dated(Len(posted) + 1, Endpoints[i])
     \/ \E k \in DOMAIN posted :
          /\ posted' = [posted EXCEPT ![k].at = Now + 1]
          /\ Dated(k, posted[k].where)
  /\ UNCHANGED <<head, failing, conflicted, approved, rows, agents, step, reading, asked,
                 told, repeats, losses>>

ChecksReport ==
  /\ \E F \in SUBSET Check : F # failing /\ failing' = F
  /\ failing # {} \/ MayChange
  /\ UNCHANGED <<posted, head, conflicted, approved, rows, agents, step, reading, asked,
                 history, losses>>

BaseMoves ==
  /\ ~conflicted /\ MayChange
  /\ conflicted' = TRUE
  /\ UNCHANGED <<posted, head, failing, approved, rows, agents, step, reading, asked,
                 history, losses>>

Approve ==
  /\ ~approved /\ MayChange
  /\ approved' = TRUE
  /\ UNCHANGED <<posted, head, failing, conflicted, rows, agents, step, reading, asked,
                 history, losses>>

AgentPushes ==
  /\ alive \/ fresh \/ orphans > 0
  /\ head < MaxHead
  /\ head' = head + 1
  /\ failing' = {} /\ conflicted' = FALSE
  /\ UNCHANGED <<posted, approved, rows, agents, step, reading, asked, history, losses>>

SessionExits ==
  /\ \/ alive /\ alive' = FALSE /\ UNCHANGED <<fresh, orphans>>
     \/ fresh /\ fresh' = FALSE /\ UNCHANGED <<alive, orphans>>
     \/ orphans > 0 /\ orphans' = orphans - 1 /\ UNCHANGED <<alive, fresh>>
  /\ UNCHANGED <<github, rows, step, reading, asked, history, losses>>

-----------------------------------------------------------------------------
(* A pass over the node.                                                   *)

HasWakesLeft == wakes < NodeWakes

\* The session is over and the node rests on its pull request.
Settle ==
  /\ step = "idle" /\ state = "in_progress" /\ ~alive
  /\ state' = "resting"
  /\ UNCHANGED <<github, wakes, marks, latest, agents, step, reading, asked, history, losses>>

\* The session ran past its deadline: it is killed.
SettleOverdue ==
  /\ step = "idle" /\ state = "in_progress" /\ alive
  /\ state' = "resting" /\ alive' = FALSE
  /\ UNCHANGED <<github, wakes, marks, latest, fresh, orphans, step, reading, asked, history,
                 losses>>

\* The pull request is read first, the lists of its artifacts after it.
Observe ==
  /\ step = "idle" /\ state = "resting"
  /\ step' = "reading"
  /\ reading' = [head |-> head, failing |-> failing, conflicted |-> conflicted,
                 approved |-> approved, comments |-> {}, fetched |-> 0]
  /\ UNCHANGED <<github, rows, agents, asked, history, losses>>

ReadEndpoint(i) ==
  /\ step = "reading" /\ reading.fetched = i - 1
  /\ reading' = [reading EXCEPT
       !.comments = @ \cup {[id |-> k, at |-> posted[k].at] :
                          k \in {l \in DOMAIN posted : posted[l].where = Endpoints[i]}},
       !.fetched = i]
  /\ UNCHANGED <<github, rows, agents, step, asked, history, losses>>

\* A call fails, or the wake does, or no worker is free: the next pass reads
\* the pull request again.
LeaveForNextPass ==
  /\ step = "reading"
  /\ step' = "idle" /\ reading' = NoReading
  /\ UNCHANGED <<github, rows, agents, asked, history, losses>>

IsRead == step = "reading" /\ reading.fetched = Len(Endpoints)

\* No change but perhaps an approval: the marks move on and nobody is woken.
ReportOnly ==
  /\ IsRead /\ News(reading, marks) = {}
  /\ marks' = Advanced(reading, marks)
  /\ step' = "idle" /\ reading' = NoReading
  /\ UNCHANGED <<github, state, wakes, latest, agents, asked, history, losses>>

RunOutOfWakes ==
  /\ IsRead /\ News(reading, marks) # {} /\ ~HasWakesLeft
  /\ state' = "stopped"
  /\ step' = "idle" /\ reading' = NoReading
  /\ UNCHANGED <<github, wakes, marks, latest, agents, asked, history, losses>>

\* SpawnWake advancing the marks before the launcher answers (a mutated form).
SpawnWakeMarkingFirst ==
  /\ IsRead /\ News(reading, marks) # {} /\ HasWakesLeft
  /\ marks' = Advanced(reading, marks)
  /\ \/ told' = told \cup News(reading, marks) /\ fresh' = TRUE /\ step' = "spawned"
     \/ UNCHANGED <<told, fresh>> /\ step' = "idle"
  /\ UNCHANGED <<github, state, wakes, latest, alive, orphans, reading, asked, repeats, between,
                 losses>>

SpawnWake ==
  /\ IsRead /\ News(reading, marks) # {} /\ HasWakesLeft
  /\ told' = told \cup News(reading, marks)
  /\ repeats' = repeats + One(\E item \in News(reading, marks) \cap told : item[1] # "checks")
  /\ fresh' = TRUE
  /\ step' = "spawned"
  /\ UNCHANGED <<github, rows, alive, orphans, reading, asked, between, losses>>

AddSession ==
  /\ step = "spawned"
  /\ latest' = [trigger |-> "wake", before |-> marks]
  /\ wakes' = wakes + 1
  /\ alive' = fresh /\ fresh' = FALSE /\ orphans' = orphans + One(alive)
  /\ step' = "added"
  /\ UNCHANGED <<github, state, marks, reading, asked, history, losses>>

\* The row of the worktree is merged whole: with the head commit go the marks.
SaveHead ==
  /\ step = "added"
  /\ marks' = Advanced(reading, marks)
  /\ step' = "saved"
  /\ UNCHANGED <<github, state, wakes, latest, agents, reading, asked, history, losses>>

\* RecordResumed leaving the node resting (a mutated form).
LeaveResting ==
  /\ step = "saved"
  /\ step' = "recorded"
  /\ UNCHANGED <<github, rows, agents, reading, asked, history, losses>>

RecordResumed ==
  /\ step = "saved"
  /\ state' = "in_progress"
  /\ step' = "recorded"
  /\ UNCHANGED <<github, wakes, marks, latest, agents, reading, asked, history, losses>>

\* The marks of the reading are written once more, and the news is published.
AdvanceMarks ==
  /\ step = "recorded"
  /\ marks' = Advanced(reading, latest.before)
  /\ step' = "idle" /\ reading' = NoReading
  /\ UNCHANGED <<github, state, wakes, latest, agents, asked, history, losses>>

\* The pass or the command dies; the kernel frees the run lock.
Die ==
  /\ step # "idle" /\ Loss
  /\ step' = "idle" /\ reading' = NoReading
  /\ fresh' = FALSE /\ orphans' = orphans + One(fresh)
  /\ UNCHANGED <<github, rows, alive, asked, history>>

-----------------------------------------------------------------------------
(* What people and the recovery agent do about a node.                     *)

\* A retry of a stopped node and the pass that starts it.
Restart ==
  /\ step = "idle" /\ state = "stopped"
  /\ state' = "in_progress" /\ wakes' = 0
  /\ latest' = [trigger |-> "retry", before |-> marks]
  /\ alive' = TRUE /\ orphans' = orphans + One(alive)
  /\ UNCHANGED <<github, marks, fresh, step, reading, asked, history, losses>>

\* recover --restore-marks, once the latest session's process is gone.
RestoreMarks ==
  /\ step = "idle" /\ ~alive /\ Loss
  /\ latest.trigger # "launch"
  /\ FollowsRunbook => latest.trigger = "wake"
  /\ asked' = marks
  /\ marks' = latest.before
  /\ step' = "restored"
  /\ UNCHANGED <<github, state, wakes, latest, agents, reading, history>>

\* The node stays as it is, or waits, or is left to a human.
RecordVerdict ==
  /\ step = "restored"
  /\ step' = "idle"
  /\ state' \in {state} \cup (IF FollowsRunbook THEN {} ELSE {"stopped"})
  /\ UNCHANGED <<github, wakes, marks, latest, agents, reading, asked, history, losses>>

\* --wake in the same command; the session notes the marks read before the
\* restoration.
RecoverByWaking ==
  /\ ~FollowsRunbook /\ step = "restored" /\ state # "in_progress"
  /\ latest' = [trigger |-> "recovery", before |-> asked]
  /\ state' = "in_progress"
  /\ alive' = TRUE
  /\ step' = "idle"
  /\ UNCHANGED <<github, wakes, marks, fresh, orphans, reading, asked, history, losses>>

\* The node cannot be woken, or the launcher fails: no verdict is recorded.
RefuseToWake ==
  /\ ~FollowsRunbook /\ step = "restored"
  /\ step' = "idle"
  /\ UNCHANGED <<github, rows, agents, reading, asked, history, losses>>

-----------------------------------------------------------------------------
GitHub == Comment \/ ChecksReport \/ BaseMoves \/ Approve

Pass ==
  \/ Settle \/ SettleOverdue \/ Observe \/ LeaveForNextPass \/ ReportOnly \/ RunOutOfWakes
  \/ SpawnWake \/ AddSession \/ SaveHead \/ RecordResumed \/ AdvanceMarks
  \/ \E i \in DOMAIN Endpoints : ReadEndpoint(i)

People == Restart \/ RestoreMarks \/ RecordVerdict \/ RecoverByWaking \/ RefuseToWake

Next == GitHub \/ AgentPushes \/ SessionExits \/ Pass \/ Die \/ People

Spec == Init /\ [][Next]_vars

\* Passes come again and go on, sessions end (the deadline sees to that), and
\* neither does a call fail on every pass nor is every worker always busy.
Fairness ==
  /\ WF_vars(SessionExits)
  /\ WF_vars(Settle) /\ WF_vars(Observe)
  /\ \A i \in DOMAIN Endpoints : SF_vars(ReadEndpoint(i))
  /\ SF_vars(ReportOnly) /\ SF_vars(RunOutOfWakes) /\ SF_vars(SpawnWake)
  /\ WF_vars(AddSession \/ SaveHead \/ RecordResumed \/ AdvanceMarks)
  /\ WF_vars(RecordVerdict)

FairSpec == Spec /\ Fairness

-----------------------------------------------------------------------------
Told(k) == <<"comments", k, posted[k].at>> \in told

\* A comment that no session was told of is newer than the mark, so that some pass
\* finds it.  The README promises it; a reading of several calls breaks it
\* (GithubCodeRepo.get_review_artifacts under RestingNodeHandler._observe).
NoCommentIsLost == \A k \in DOMAIN posted : Told(k) \/ posted[k].at > marks.comments

\* The only comments the marks ever pass over untold are those that came between
\* two calls of one reading, to a list it had fetched already: no death, failed
\* wake, verdict or later edit loses any other (RestingNodeHandler._observe,
\* GithubCodeRepo.get_review_artifacts).
LostBetweenCallsOnly ==
  \A k \in DOMAIN posted \ between : Told(k) \/ posted[k].at > marks.comments

\* Every mark stands for news that some session was told (the writes of
\* RestingNodeHandler._wake come after the launcher answered).
MarkedNewsWasTold ==
  /\ marks.comments # 0 => \E k \in DOMAIN posted : <<"comments", k, marks.comments>> \in told
  /\ marks.checks[2] # {} => <<"checks", marks.checks[1], marks.checks[2]>> \in told
  /\ marks.conflict # 0 => <<"conflict", marks.conflict, {}>> \in told

\* The agent is told a comment or a conflict again only when a pass died between
\* the wake and its marks, or when the recovery agent had the marks restored: a retry,
\* with its new allowance of wakes, goes on from the marks (RetryCommandHandler).
NewsRepeatsOnlyAfterLosses == repeats <= losses

\* Two agents work for the node at once only if a pass died after it spawned
\* one and before it wrote the node's state (RestingNodeHandler._wake).
OneAgentUnlessAPassDied == One(alive) + One(fresh) + orphans <= 1 + losses

\* The comments no pass can find any more.
Lost == {k \in between : posted[k].at <= marks.comments}

AllTold == \A k \in DOMAIN posted \ Lost : Told(k)

\* Again and again every comment has reached the agent as it was last edited, or the
\* node is with a human: no pass forgets one it could not act on, unless it came
\* between two calls of a reading and the marks passed over it.
CommentsReachTheAgent == []<>(AllTold \/ state = "stopped")

\* What is marked was told, and told once but for what a death, a verdict or a retry
\* brings back (WakeSignals, RestingNodeHandler._wake, NodeRecoveryService).
NewsIsToldOnce ==
  /\ TypeOK
  /\ MarkedNewsWasTold
  /\ NewsRepeatsOnlyAfterLosses

=============================================================================
