----------------------- MODULE PullRequestWatchProofs -----------------------
(***************************************************************************)
(* Proofs, for any number of lists fetched one after another, that no      *)
(* comment is lost between GitHub and the agent but those that come        *)
(* between two of these calls (the run PullRequestTwoLists shows that such *)
(* a comment may be lost), and that news is told once and one agent works  *)
(* for a node, but for the deaths and verdicts that were counted.          *)
(***************************************************************************)
EXTENDS PullRequestWatch, SequenceTheorems, WellFoundedInduction, TLAPS

Posting == [where : {Endpoints[i] : i \in DOMAIN Endpoints}, at : 1 .. MaxComments]

\* A comment that did not come between two calls is told or newer than the mark.
Covers(m) == \A k \in DOMAIN posted \ between : Told(k) \/ posted[k].at > m.comments

\* What the reading holds beyond the mark was told.
ToldBeyond(m) ==
  \A c \in reading.comments : c.at > m.comments => <<"comments", c.id, c.at>> \in told

\* Some list with this name is still to be fetched.
Unread(list) == \E i \in DOMAIN Endpoints : i > reading.fetched /\ Endpoints[i] = list

\* A comment will be read or has been, or it came between two calls, or after the
\* last of them.
ReadingIsComplete ==
  \A k \in DOMAIN posted :
    \/ k \in between
    \/ Unread(posted[k].where)
    \/ [id |-> k, at |-> posted[k].at] \in reading.comments
    \/ reading.fetched = Len(Endpoints) /\ \A c \in reading.comments : c.at < posted[k].at

MarksCover == \A m \in {marks, latest.before, asked} : m.comments \in 0 .. Now /\ Covers(m)

IsReading ==
  /\ \A c \in reading.comments : c.at \in 1 .. Now
  /\ reading.fetched \in 0 .. Len(Endpoints)
  /\ ReadingIsComplete

IsWaking ==
  /\ step # "reading" => reading.fetched \in {0, Len(Endpoints)}
  /\ step \in {"spawned", "added", "saved", "recorded"} => reading.fetched = Len(Endpoints)
  /\ step \in {"spawned", "added"} => ToldBeyond(marks)
  /\ step \in {"added", "saved", "recorded"} => ToldBeyond(latest.before)

WatchInv == posted \in Seq(Posting) /\ MarksCover /\ IsReading /\ IsWaking

-----------------------------------------------------------------------------
(* The latest of some times.                                               *)

\* A set of numbers up to n that is not empty has a greatest member.
LEMMA MaxIsGreatest ==
  ASSUME NEW n \in Nat, NEW S \in SUBSET (0 .. n), S # {}
  PROVE  Max(S) \in S /\ \A t \in S : t <= Max(S)
<1> DEFINE R == OpToRel(<, Nat)
           T == {n - t : t \in S}
<1>0. \A t \in S : t \in Nat /\ t <= n
  OBVIOUS
<1>1. T \subseteq Nat /\ T # {}
  <2>1. \A t \in S : n - t \in Nat
    BY <1>0
  <2> QED BY <2>1
<1>2. PICK y \in T : \A z \in T : ~(<<z, y>> \in R)
  <2> HIDE DEF R, T
  <2> QED BY <1>1, NatLessThanWellFounded, WFMin DEF R
<1>3. PICK s \in S : y = n - s
  OBVIOUS
<1>4. \A t \in S : t <= s
  <2> TAKE t \in S
  <2>1. n - t \in T /\ n - t \in Nat /\ y \in Nat
    BY <1>1
  <2>2. ~(n - t < y)
    BY <1>2, <2>1 DEF OpToRel
  <2> QED BY <2>2, <1>0, <1>3
<1> QED BY <1>3, <1>4 DEF Max

\* Every comment bears a time.
LEMMA PostedAreTimed ==
  ASSUME NEW p \in Seq(Posting)
  PROVE  \A k \in DOMAIN p :
           p[k].where \in {Endpoints[i] : i \in DOMAIN Endpoints} /\ p[k].at \in 1 .. MaxComments
<1> TAKE k \in DOMAIN p
<1>1. p[k] \in Posting
  BY ElementOfSeq
<1> QED BY <1>1 DEF Posting

\* The latest time of the comments of a sequence is no earlier than any of them.
LEMMA LatestTime ==
  ASSUME NEW p \in Seq(Posting),
         NEW n, n = IF p = <<>> THEN 0 ELSE Max({p[k].at : k \in DOMAIN p})
  PROVE  n \in 0 .. MaxComments /\ \A k \in DOMAIN p : p[k].at <= n
<1> DEFINE S == {p[k].at : k \in DOMAIN p}
<1>1. \A k \in DOMAIN p : p[k].at \in 1 .. MaxComments
  BY PostedAreTimed
<1>2. CASE p = <<>>
  BY <1>2, WatchAssumption
<1>3. CASE p # <<>>
  <2>1. S # {} /\ S \in SUBSET (0 .. MaxComments) /\ MaxComments \in Nat
    <3>1. 1 \in DOMAIN p
      BY <1>3
    <3> QED BY <3>1, <1>1, WatchAssumption
  <2>2. n = Max(S)
    BY <1>3
  <2> QED BY <2>1, <2>2, MaxIsGreatest
<1> QED BY <1>2, <1>3

\* Now is no earlier than any comment, before a step and after it.
LEMMA NowIsLatest ==
  /\ posted \in Seq(Posting) =>
       Now \in 0 .. MaxComments /\ \A k \in DOMAIN posted : posted[k].at <= Now
  /\ posted' \in Seq(Posting) =>
       Now' \in 0 .. MaxComments /\ \A k \in DOMAIN posted' : posted'[k].at <= Now'
  BY LatestTime DEF Now

\* There are so many lists.
LEMMA LengthIsNat == Len(Endpoints) \in Nat /\ DOMAIN Endpoints = 1 .. Len(Endpoints)
  BY WatchAssumption, LenProperties

\* A step that leaves the comments and the reading alone leaves it complete.
LEMMA ReadingStays ==
  ASSUME IsReading, UNCHANGED <<posted, between, reading>>
  PROVE  IsReading'
<1>1. Now' = Now
  BY DEF Now
<1> QED BY <1>1 DEF IsReading, ReadingIsComplete, Unread

\* And one that drops the reading.
LEMMA ReadingDropped ==
  ASSUME posted \in Seq(Posting), UNCHANGED posted, reading' = NoReading
  PROVE  IsReading'
<1>1. reading'.fetched = 0 /\ reading'.comments = {} /\ Len(Endpoints) \in Nat
  BY LengthIsNat DEF NoReading
<1>2. \A k \in DOMAIN posted' : \E i \in DOMAIN Endpoints : i > 0 /\ Endpoints[i] = posted'[k].where
  BY PostedAreTimed, LengthIsNat
<1> QED BY <1>1, <1>2 DEF IsReading, ReadingIsComplete, Unread

\* The marks moved past what was told still cover every comment.
LEMMA AdvancedCovers ==
  ASSUME posted \in Seq(Posting), IsReading, reading.fetched = Len(Endpoints),
         NEW m, m.comments \in 0 .. Now, Covers(m), ToldBeyond(m)
  PROVE  LET moved == Advanced(reading, m)
         IN  moved.comments \in 0 .. Now /\ Covers(moved)
<1> DEFINE F == FreshComments(reading, m)
           moved == Advanced(reading, m)
<1>0. Now \in Nat /\ \A k \in DOMAIN posted : posted[k].at \in Nat
  <2>1. posted \in Seq(Posting)
    OBVIOUS
  <2> QED BY <2>1, NowIsLatest, PostedAreTimed, WatchAssumption
<1>1. CASE F = {}
  BY <1>1 DEF Advanced, Covers
<1>2. CASE F # {}
  <2>1. Times(F) # {} /\ Times(F) \in SUBSET (0 .. Now)
    BY <1>2, <1>0 DEF Times, FreshComments, IsReading
  <2>2. moved.comments = Max(Times(F))
    BY <1>2 DEF Advanced
  <2>3. moved.comments \in Times(F) /\ \A t \in Times(F) : t <= moved.comments
    BY <2>1, <2>2, <1>0, MaxIsGreatest
  <2>4. PICK latestRead \in reading.comments : latestRead.at = moved.comments
    BY <2>3 DEF Times, FreshComments
  <2>5. ASSUME NEW k \in DOMAIN posted \ between, ~(posted[k].at > moved.comments)
        PROVE  Told(k)
    <3>1. ~Unread(posted[k].where)
      BY LengthIsNat DEF Unread
    <3>2. [id |-> k, at |-> posted[k].at] \in reading.comments
      BY <2>4, <2>5, <2>1, <2>3, <1>0, <3>1 DEF IsReading, ReadingIsComplete
    <3> QED BY <3>2 DEF Covers, ToldBeyond, Told
  <2> QED BY <2>1, <2>3, <2>5 DEF Covers
<1> QED BY <1>1, <1>2

-----------------------------------------------------------------------------
(* Each step keeps the invariant.                                          *)

\* Nothing is posted at first, so nothing is lost.
LEMMA InitWatchInv == Init => WatchInv
<1> SUFFICES ASSUME Init PROVE WatchInv
  OBVIOUS
<1> USE DEF Init
<1>1. posted \in Seq(Posting) /\ DOMAIN posted = {}
  OBVIOUS
<1>2. Now = 0
  BY DEF Now
<1>3. MarksCover
  BY <1>1, <1>2 DEF MarksCover, Covers, NoMarks
<1>4. IsReading
  BY <1>1, LengthIsNat DEF IsReading, ReadingIsComplete, NoReading
<1>5. IsWaking
  BY LengthIsNat DEF IsWaking, NoReading
<1> QED BY <1>1, <1>3, <1>4, <1>5 DEF WatchInv

\* A step after which the comments, what was told and the reading are the same,
\* or the reading is dropped, and whose marks were already covered.
LEMMA QuietStep ==
  ASSUME WatchInv, UNCHANGED <<posted, told, between>>,
         \/ UNCHANGED reading /\ (step = "reading" => step' = step)
         \/ reading' = NoReading /\ step' = "idle",
         step' \in {step, "idle", "restored"},
         marks' \in {marks, latest.before},
         asked' \in {marks, asked},
         latest'.before \in {latest.before, marks, asked},
         step' = step /\ step # "idle" => UNCHANGED <<marks, latest>>
  PROVE  WatchInv'
<1> USE DEF WatchInv
<1>1. MarksCover'
  BY DEF MarksCover, Covers, Told, Now
<1>2. IsReading'
  BY ReadingStays, ReadingDropped
<1>3. IsWaking'
  <2>1. CASE UNCHANGED reading /\ (step = "reading" => step' = step)
    <3>1. step' # "reading" => reading'.fetched \in {0, Len(Endpoints)}
      BY <2>1 DEF IsWaking
    <3>2. CASE step' = step /\ step # "idle"
      BY <2>1, <3>1, <3>2 DEF IsWaking, ToldBeyond
    <3>3. CASE step' \in {"idle", "restored"}
      BY <3>1, <3>3 DEF IsWaking
    <3> QED BY <3>2, <3>3
  <2>2. CASE reading' = NoReading /\ step' = "idle"
    BY <2>2 DEF IsWaking, NoReading
  <2> QED BY <2>1, <2>2
<1> QED BY <1>1, <1>2, <1>3

\* The one comment that is posted or edited is later than any other; the others, and
\* the places of all, stay.
LEMMA CommentIsLatest ==
  ASSUME posted \in Seq(Posting), Comment, NEW at, at = Now + 1
  PROVE  /\ Now \in Nat /\ at \in 1 .. MaxComments
         /\ posted' \in Seq(Posting)
         /\ \E c \in DOMAIN posted' :
              /\ posted'[c].at = at /\ Dated(c, posted'[c].where)
              /\ \A k \in DOMAIN posted' \ {c} : k \in DOMAIN posted /\ posted'[k] = posted[k]
         /\ \A k \in DOMAIN posted : k \in DOMAIN posted' /\ posted'[k].where = posted[k].where
<1>0. DOMAIN posted = 1 .. Len(posted) /\ Len(posted) \in Nat
  BY LenProperties
<1>1. Now \in Nat /\ at \in 1 .. MaxComments /\ MaxComments \in Nat
  BY NowIsLatest, WatchAssumption DEF Comment
<1>2. CASE \E i \in DOMAIN Endpoints :
             /\ posted' = Append(posted, [where |-> Endpoints[i], at |-> at])
             /\ Dated(Len(posted) + 1, Endpoints[i])
  <2>1. PICK i \in DOMAIN Endpoints :
               /\ posted' = Append(posted, [where |-> Endpoints[i], at |-> at])
               /\ Dated(Len(posted) + 1, Endpoints[i])
    BY <1>2
  <2> DEFINE new == [where |-> Endpoints[i], at |-> at]
  <2>2. new \in Posting /\ new.at = at /\ new.where = Endpoints[i]
    BY <1>1 DEF Posting
  <2> HIDE DEF new
  <2>3. /\ posted' \in Seq(Posting) /\ Len(posted') = Len(posted) + 1
        /\ \A k \in 1 .. Len(posted) : posted'[k] = posted[k]
        /\ posted'[Len(posted) + 1] = new
    BY <2>1, <2>2, AppendProperties DEF new
  <2>4. DOMAIN posted' = 1 .. Len(posted) + 1
    BY <2>3, LenProperties
  <2>5. \A k \in DOMAIN posted' \ {Len(posted) + 1} : k \in DOMAIN posted /\ posted'[k] = posted[k]
    BY <1>0, <2>3, <2>4
  <2>6. /\ Len(posted) + 1 \in DOMAIN posted' /\ posted'[Len(posted) + 1].at = at
        /\ Dated(Len(posted) + 1, posted'[Len(posted) + 1].where)
    BY <1>0, <2>1, <2>2, <2>3, <2>4
  <2>7. \A k \in DOMAIN posted : k \in DOMAIN posted' /\ posted'[k].where = posted[k].where
    BY <1>0, <2>3, <2>4
  <2> QED BY <1>1, <2>3, <2>5, <2>6, <2>7
<1>3. CASE \E k \in DOMAIN posted :
             posted' = [posted EXCEPT ![k].at = at] /\ Dated(k, posted[k].where)
  <2>1. PICK k \in DOMAIN posted :
               posted' = [posted EXCEPT ![k].at = at] /\ Dated(k, posted[k].where)
    BY <1>3
  <2> DEFINE new == [posted[k] EXCEPT !.at = at]
  <2>2. posted[k] \in Posting
    BY ElementOfSeq
  <2>3. new \in Posting /\ new.at = at /\ new.where = posted[k].where
    BY <2>2, <1>1 DEF Posting
  <2>4. posted' = [posted EXCEPT ![k] = new]
    BY <2>1
  <2> HIDE DEF new
  <2>5. /\ posted' \in Seq(Posting) /\ Len(posted') = Len(posted)
        /\ \A l \in 1 .. Len(posted) : posted'[l] = IF l = k THEN new ELSE posted[l]
    BY <1>0, <2>3, <2>4, ExceptSeq
  <2>6. DOMAIN posted' = DOMAIN posted
    BY <2>4
  <2>7. posted'[k] = new /\ k \in DOMAIN posted'
    BY <1>0, <2>5, <2>6
  <2>8. posted'[k].at = at /\ Dated(k, posted'[k].where)
    BY <2>1, <2>3, <2>7
  <2>9. \A l \in DOMAIN posted' \ {k} : l \in DOMAIN posted /\ posted'[l] = posted[l]
    BY <1>0, <2>5, <2>6
  <2>10. \A l \in DOMAIN posted : l \in DOMAIN posted' /\ posted'[l].where = posted[l].where
    BY <1>0, <2>3, <2>5, <2>6
  <2> QED BY <1>1, <2>5, <2>7, <2>8, <2>9, <2>10
<1> QED BY <1>2, <1>3 DEF Comment

\* A comment that is posted or edited is later than every mark and every reading, or
\* it came between two calls.
LEMMA CommentKeepsInv ==
  ASSUME WatchInv, Comment
  PROVE  WatchInv'
<1> USE DEF WatchInv
<1>0. PICK at : at = Now + 1 /\ Now < MaxComments
  BY DEF Comment
<1>1. Now \in Nat /\ at \in 1 .. MaxComments /\ MaxComments \in Nat /\ posted' \in Seq(Posting)
  BY <1>0, CommentIsLatest, WatchAssumption
<1>2. PICK c \in DOMAIN posted' :
             /\ posted'[c].at = at /\ Dated(c, posted'[c].where)
             /\ \A k \in DOMAIN posted' \ {c} : k \in DOMAIN posted /\ posted'[k] = posted[k]
  BY <1>0, CommentIsLatest
<1>3. at <= Now' /\ Now' \in Nat
  <2>1. Now' \in 0 .. MaxComments /\ \A k \in DOMAIN posted' : posted'[k].at <= Now'
    BY <1>1, NowIsLatest
  <2> QED BY <2>1, <1>2, <1>1
<1>4. \A k \in DOMAIN posted' \ {c} : k \in between' <=> k \in between
  BY <1>2 DEF Dated
<1>5. UNCHANGED <<marks, latest, asked, told, reading, step>>
  BY DEF Comment, rows
<1>6. MarksCover'
  <2>1. ASSUME NEW m \in {marks, latest.before, asked}
        PROVE  /\ m.comments \in 0 .. Now'
               /\ \A k \in DOMAIN posted' \ between' :
                    <<"comments", k, posted'[k].at>> \in told \/ posted'[k].at > m.comments
    <3>1. m.comments \in 0 .. Now /\ Covers(m)
      BY <2>1 DEF MarksCover
    <3>2. m.comments < at
      BY <1>0, <1>1, <3>1
    <3>3. ASSUME NEW k \in DOMAIN posted' \ between'
          PROVE  <<"comments", k, posted'[k].at>> \in told \/ posted'[k].at > m.comments
      <4>1. CASE k = c
        BY <4>1, <1>2, <3>1, <3>2, <1>1
      <4>2. CASE k # c
        BY <4>2, <1>2, <1>4, <3>1 DEF Covers, Told
      <4> QED BY <4>1, <4>2
    <3> QED BY <1>0, <1>1, <1>3, <3>1, <3>3
  <2> QED BY <1>5, <2>1 DEF MarksCover, Covers, Told
<1>7. IsReading'
  <2>1. \A d \in reading.comments : d.at \in 1 .. Now /\ d.at < at
    BY <1>0, <1>1 DEF IsReading
  <2>2. ASSUME NEW d \in reading.comments PROVE d.at \in 1 .. Now'
    <3>1. d.at \in 1 .. Now /\ d.at < at
      BY <2>1
    <3> QED BY <1>0, <1>1, <1>3, <3>1
  <2>3. ASSUME NEW k \in DOMAIN posted'
        PROVE  \/ k \in between'
               \/ Unread(posted'[k].where)
               \/ [id |-> k, at |-> posted'[k].at] \in reading.comments
               \/ reading.fetched = Len(Endpoints) /\ \A d \in reading.comments : d.at < posted'[k].at
    <3>1. CASE k # c
      <4>1. k \in DOMAIN posted /\ posted'[k] = posted[k] /\ (k \in between' <=> k \in between)
        BY <1>2, <1>4, <3>1
      <4> QED BY <4>1 DEF IsReading, ReadingIsComplete
    <3>2. CASE k = c /\ BetweenCalls(posted'[c].where)
      BY <1>2, <3>2 DEF Dated
    <3>3. CASE k = c /\ ~BetweenCalls(posted'[c].where)
      <4>1. posted'[c].where \in {Endpoints[i] : i \in DOMAIN Endpoints}
        BY <1>1, PostedAreTimed
      <4>2. reading.fetched \in 0 .. Len(Endpoints) /\ (step # "reading" => reading.fetched \in {0, Len(Endpoints)})
        BY DEF IsReading, IsWaking
      <4>3. Unread(posted'[c].where) \/ reading.fetched = Len(Endpoints)
        <5>1. CASE reading.fetched = 0
          BY <4>1, <5>1, LengthIsNat DEF Unread
        <5>2. CASE step = "reading" /\ reading.fetched < Len(Endpoints)
          BY <3>3, <4>2, <5>2, LengthIsNat DEF BetweenCalls, Unread
        <5> QED BY <4>2, <5>1, <5>2, LengthIsNat
      <4> QED BY <1>2, <2>1, <3>3, <4>3
    <3> QED BY <3>1, <3>2, <3>3
  <2> QED BY <1>5, <2>2, <2>3 DEF IsReading, ReadingIsComplete, Unread
<1>8. IsWaking'
  BY <1>5 DEF IsWaking, ToldBeyond
<1> QED BY <1>1, <1>6, <1>7, <1>8

\* The call that reads a list reads every comment in it.
LEMMA ReadEndpointKeepsInv ==
  ASSUME WatchInv, NEW i \in DOMAIN Endpoints, ReadEndpoint(i)
  PROVE  WatchInv'
<1> USE DEF WatchInv, ReadEndpoint
<1>1. UNCHANGED <<posted, told, between, marks, latest, asked, step>> /\ step = "reading"
  BY DEF github, rows, history
<1>2. Now' = Now /\ i \in 1 .. Len(Endpoints) /\ Len(Endpoints) \in Nat
  BY <1>1, LengthIsNat DEF Now
<1> DEFINE read == {[id |-> k, at |-> posted[k].at] : k \in {l \in DOMAIN posted : posted[l].where = Endpoints[i]}}
<1>3. reading.fetched = i - 1 /\ reading'.fetched = i /\ reading'.comments = reading.comments \cup read
  OBVIOUS
<1>4. \A c \in read : c.at \in 1 .. Now
  <2>1. \A k \in DOMAIN posted : posted[k].at \in 1 .. Now
    BY PostedAreTimed, NowIsLatest, WatchAssumption
  <2> QED BY <2>1
<1>5. MarksCover'
  BY <1>1, <1>2 DEF MarksCover, Covers, Told
<1>6. IsReading'
  <2>1. ASSUME NEW k \in DOMAIN posted
        PROVE  \/ k \in between
               \/ \E j \in DOMAIN Endpoints : j > i /\ Endpoints[j] = posted[k].where
               \/ [id |-> k, at |-> posted[k].at] \in reading.comments \cup read
    <3>1. CASE Unread(posted[k].where)
      <4>1. PICK j \in DOMAIN Endpoints : j > i - 1 /\ Endpoints[j] = posted[k].where
        BY <1>3, <3>1 DEF Unread
      <4>2. CASE j = i
        BY <4>1, <4>2
      <4>3. CASE j # i
        BY <4>1, <4>3, <1>2, LengthIsNat
      <4> QED BY <4>2, <4>3
    <3>2. reading.fetched # Len(Endpoints)
      BY <1>2, <1>3
    <3> QED BY <3>1, <3>2 DEF IsReading, ReadingIsComplete
  <2> HIDE DEF read
  <2>2. \A c \in reading'.comments : c.at \in 1 .. Now'
    BY <1>2, <1>3, <1>4 DEF IsReading
  <2>3. ReadingIsComplete'
    BY <1>1, <1>3, <2>1 DEF ReadingIsComplete, Unread
  <2> QED BY <1>2, <1>3, <2>2, <2>3 DEF IsReading
<1>7. IsWaking'
  BY <1>1 DEF IsWaking
<1> QED BY <1>1, <1>5, <1>6, <1>7

\* The marks move on past a reading whose news was told.
LEMMA MarksMoveOn ==
  ASSUME WatchInv, UNCHANGED <<posted, told, between, asked>>,
         NEW m \in {marks, latest.before}, ToldBeyond(m), reading.fetched = Len(Endpoints),
         marks' = Advanced(reading, m), latest' = latest,
         \/ step' = "idle" /\ reading' = NoReading
         \/ step' = "saved" /\ step = "added" /\ UNCHANGED reading
  PROVE  WatchInv'
<1> USE DEF WatchInv
<1>1. Now' = Now
  BY DEF Now
<1>2. m.comments \in 0 .. Now /\ Covers(m)
  BY DEF MarksCover
<1>3. marks'.comments \in 0 .. Now /\ Covers(marks')
  BY <1>2, AdvancedCovers
<1>4. MarksCover'
  BY <1>1, <1>3 DEF MarksCover, Covers, Told
<1>5. IsReading'
  BY ReadingStays, ReadingDropped
<1>6. IsWaking'
  <2>1. CASE UNCHANGED reading /\ step' = "saved" /\ step = "added"
    BY <2>1 DEF IsWaking, ToldBeyond
  <2>2. CASE reading' = NoReading /\ step' = "idle"
    BY <2>2 DEF IsWaking, NoReading
  <2> QED BY <2>1, <2>2
<1> QED BY <1>4, <1>5, <1>6

\* An agent that is spawned is told what the reading holds beyond the marks.
LEMMA SpawnWakeKeepsInv ==
  ASSUME WatchInv, SpawnWake
  PROVE  WatchInv'
<1> USE DEF WatchInv, SpawnWake
<1>1. UNCHANGED <<posted, between, marks, latest, asked, reading>> /\ told \subseteq told'
  BY DEF github, rows
<1>2. reading.fetched = Len(Endpoints)
  BY DEF IsRead
<1>3. Now' = Now
  BY <1>1 DEF Now
<1>4. MarksCover'
  BY <1>1, <1>3 DEF MarksCover, Covers, Told
<1>5. IsReading'
  BY <1>1, ReadingStays
<1>6. ToldBeyond(marks)'
  <2>1. \A c \in reading.comments : c.at > marks.comments => c \in FreshComments(reading, marks)
    BY DEF FreshComments
  <2>2. \A c \in FreshComments(reading, marks) :
          <<"comments", c.id, c.at>> \in News(reading, marks)
    BY DEF News
  <2>3. told' = told \cup News(reading, marks)
    OBVIOUS
  <2> QED BY <1>1, <2>1, <2>2, <2>3 DEF ToldBeyond
<1>7. IsWaking'
  BY <1>1, <1>2, <1>6 DEF IsWaking
<1> QED BY <1>1, <1>4, <1>5, <1>7

\* Its session remembers the marks of before, and what was read beyond them was
\* told.
LEMMA AddSessionKeepsInv ==
  ASSUME WatchInv, AddSession
  PROVE  WatchInv'
<1> USE DEF WatchInv, AddSession
<1>1. UNCHANGED <<posted, told, between, marks, asked, reading>> /\ latest'.before = marks
  BY DEF github, history
<1>2. Now' = Now
  BY <1>1 DEF Now
<1>3. MarksCover'
  BY <1>1, <1>2 DEF MarksCover, Covers, Told
<1>4. IsReading'
  BY <1>1, ReadingStays
<1>5. IsWaking'
  BY <1>1 DEF IsWaking, ToldBeyond
<1> QED BY <1>1, <1>3, <1>4, <1>5

\* Recording the node as resumed moves no mark.
LEMMA RecordResumedKeepsInv ==
  ASSUME WatchInv, RecordResumed
  PROVE  WatchInv'
<1> USE DEF WatchInv, RecordResumed
<1>1. UNCHANGED <<posted, told, between, marks, latest, asked, reading>>
  BY DEF github, history
<1>2. Now' = Now
  BY <1>1 DEF Now
<1>3. MarksCover' /\ IsReading'
  BY <1>1, <1>2, ReadingStays DEF MarksCover, Covers, Told
<1>4. IsWaking'
  BY <1>1 DEF IsWaking, ToldBeyond
<1> QED BY <1>1, <1>3, <1>4

\* So every step of a pass keeps the invariant.
LEMMA PassKeepsInv ==
  ASSUME WatchInv, Pass
  PROVE  WatchInv'
<1> USE DEF github, rows, history
<1>1. CASE Settle \/ SettleOverdue
  BY <1>1, QuietStep DEF Settle, SettleOverdue
<1>2. CASE Observe
  <2> USE DEF WatchInv
  <2>1. UNCHANGED <<posted, told, between, marks, latest, asked>> /\ step' = "reading"
        /\ reading'.fetched = 0 /\ reading'.comments = {} /\ Len(Endpoints) \in Nat
    BY <1>2, LengthIsNat DEF Observe
  <2>2. Now' = Now
    BY <2>1 DEF Now
  <2>3. MarksCover' /\ IsWaking'
    BY <2>1, <2>2 DEF MarksCover, Covers, Told, IsWaking
  <2>4. \A k \in DOMAIN posted' : \E i \in DOMAIN Endpoints : i > 0 /\ Endpoints[i] = posted'[k].where
    BY <2>1, PostedAreTimed, LengthIsNat
  <2>5. IsReading'
    BY <2>1, <2>4 DEF IsReading, ReadingIsComplete, Unread
  <2> QED BY <2>1, <2>3, <2>5
<1>3. CASE LeaveForNextPass
  BY <1>3, QuietStep DEF LeaveForNextPass
<1>4. CASE ReportOnly
  <2>1. ToldBeyond(marks)
    BY <1>4 DEF ReportOnly, News, FreshComments, ToldBeyond
  <2>2. reading.fetched = Len(Endpoints)
    BY <1>4 DEF ReportOnly, IsRead
  <2> QED BY <1>4, <2>1, <2>2, MarksMoveOn DEF ReportOnly
<1>5. CASE RunOutOfWakes
  BY <1>5, QuietStep DEF RunOutOfWakes
<1>6. CASE SpawnWake
  BY <1>6, SpawnWakeKeepsInv
<1>7. CASE AddSession
  BY <1>7, AddSessionKeepsInv
<1>8. CASE SaveHead
  BY <1>8, MarksMoveOn DEF SaveHead, WatchInv, IsWaking
<1>9. CASE RecordResumed
  BY <1>9, RecordResumedKeepsInv
<1>10. CASE AdvanceMarks
  BY <1>10, MarksMoveOn DEF AdvanceMarks, WatchInv, IsWaking
<1>11. CASE \E i \in DOMAIN Endpoints : ReadEndpoint(i)
  BY <1>11, ReadEndpointKeepsInv
<1> QED BY <1>1, <1>2, <1>3, <1>4, <1>5, <1>6, <1>7, <1>8, <1>9, <1>10, <1>11 DEF Pass

\* And every step of the people, the agents and the operator beside it.
LEMMA NextKeepsInv ==
  ASSUME WatchInv, [Next]_vars
  PROVE  WatchInv'
<1> USE DEF github, rows, history
<1>1. CASE Comment
  BY <1>1, CommentKeepsInv
<1>2. CASE ChecksReport \/ BaseMoves \/ Approve \/ AgentPushes \/ SessionExits
  BY <1>2, QuietStep DEF ChecksReport, BaseMoves, Approve, AgentPushes, SessionExits
<1>3. CASE Pass
  BY <1>3, PassKeepsInv
<1>4. CASE Die
  BY <1>4, QuietStep DEF Die
<1>5. CASE Restart
  BY <1>5, QuietStep DEF Restart
<1>6. CASE RestoreMarks
  BY <1>6, QuietStep DEF RestoreMarks
<1>7. CASE RecordVerdict \/ RefuseToWake
  BY <1>7, QuietStep DEF RecordVerdict, RefuseToWake
<1>8. CASE RecoverByWaking
  BY <1>8, QuietStep DEF RecoverByWaking
<1>9. CASE UNCHANGED vars
  BY <1>9, QuietStep DEF vars
<1> QED BY <1>1, <1>2, <1>3, <1>4, <1>5, <1>6, <1>7, <1>8, <1>9 DEF Next, GitHub, People

-----------------------------------------------------------------------------
\* For every cap, any lists of artifacts and any number of comments, edits, deaths and
\* verdicts: a comment is told, or newer than the mark, or came between two calls of one
\* reading (RestingNodeHandler._observe, _wake, NodeRecoveryService._restore_marks).
THEOREM LostBetweenCallsTheorem == Spec => []LostBetweenCallsOnly
<1>1. Init => WatchInv
  BY InitWatchInv
<1>2. WatchInv /\ [Next]_vars => WatchInv'
  BY NextKeepsInv
<1>3. WatchInv => LostBetweenCallsOnly
  BY DEF WatchInv, MarksCover, Covers, LostBetweenCallsOnly
<1> QED BY <1>1, <1>2, <1>3, PTL DEF Spec

-----------------------------------------------------------------------------
(* What is told, and how often, whatever the lists of artifacts.           *)

IsMark(m) == DOMAIN m = Signals /\ m.comments \in Nat

\* A mark stands for news that was told, of comments that are posted.
Marked(m, comments, news) ==
  /\ m.comments # 0 => \E k \in DOMAIN comments : <<"comments", k, m.comments>> \in news
  /\ m.checks[2] # {} => <<"checks", m.checks[1], m.checks[2]>> \in news
  /\ m.conflict # 0 => <<"conflict", m.conflict, {}>> \in news

MarksInv == \A m \in {marks, latest.before, asked} : IsMark(m) /\ Marked(m, posted, told)

\* Where the pass is, and what it has told and written by then.
StepInv ==
  /\ step \in {"reading", "spawned", "added", "saved"} => state = "resting"
  /\ step = "recorded" => state = "in_progress"
  /\ step = "spawned" => wakes < NodeWakes
  /\ step \in {"spawned", "added", "saved", "recorded"} => reading.fetched = Len(Endpoints)
  /\ step \in {"spawned", "added"} => News(reading, marks) \subseteq told
  /\ step = "added" => latest.before = marks
  /\ step \in {"saved", "recorded"} => marks = Advanced(reading, latest.before)

\* What was told is on the pull request, or was.
ToldInv ==
  \A item \in told :
    /\ item[1] = "comments" => item[2] \in DOMAIN posted /\ item[3] \in 1 .. posted[item[2]].at
    /\ item[1] = "conflict" => item[2] \in 1 .. head /\ (item[2] = head => conflicted)

\* The reading finds again what was told and is still there.
ReadingInv ==
  step \notin {"idle", "restored"} =>
    /\ reading.head \in 1 .. head /\ (reading.conflicted /\ reading.head = head => conflicted)
    /\ reading.fetched \in 0 .. Len(Endpoints)
    /\ \A c \in reading.comments : c.id \in DOMAIN posted /\ c.at \in 1 .. posted[c.id].at
    /\ \A item \in told :
         /\ item[1] = "conflict" =>
              item[2] <= reading.head /\ (item[2] = reading.head => reading.conflicted)
         /\ item[1] = "comments" /\ (\E i \in 1 .. reading.fetched : Endpoints[i] = posted[item[2]].where) =>
              \E c \in reading.comments : c.id = item[2] /\ c.at >= item[3]

\* The head commit that the marks are compared with.
SeenHead == IF step \in {"idle", "restored"} THEN head ELSE reading.head

\* Some news was told that the marks do not stand for, so that it may be told again.
Ahead ==
  \E item \in told :
    \/ item[1] = "comments" /\ item[3] > marks.comments
    \/ item[1] = "conflict" /\ item[2] = SeenHead /\ item[2] # marks.conflict

\* A death or a verdict pays for what may be told again, before it is.
RepeatInv ==
  repeats \in Nat /\ repeats + One(step \notin {"spawned", "added"} /\ Ahead) <= losses

\* So does it for a second agent: an orphan, or one at work on a node at rest.
AgentsInv ==
  /\ fresh => step = "spawned"
  /\ step = "restored" => ~alive
  /\ orphans + One(alive /\ state # "in_progress" /\ step \notin {"added", "saved"}) <= losses

NewsInv ==
  /\ posted \in Seq(Posting) /\ TypeOK
  /\ MarksInv /\ StepInv /\ ToldInv /\ ReadingInv /\ RepeatInv /\ AgentsInv

\* The news of a reading.
LEMMA NewsItems ==
  ASSUME NEW r, NEW m, NEW item \in News(r, m)
  PROVE  \/ \E c \in r.comments : item = <<"comments", c.id, c.at>> /\ c.at > m.comments
         \/ item = <<"checks", r.head, r.failing>>
         \/ item = <<"conflict", r.head, {}>> /\ r.conflicted /\ r.head # m.conflict
BY DEF News, FreshComments, HasConflict

\* No posting is later than now.
LEMMA NowIsTimed ==
  ASSUME posted \in Seq(Posting)
  PROVE  /\ Now \in Nat
         /\ \A k \in DOMAIN posted :
              /\ posted[k].where \in {Endpoints[i] : i \in DOMAIN Endpoints}
              /\ posted[k].at \in Nat /\ posted[k].at \in 1 .. Now
<1>1. Now \in Nat
  BY NowIsLatest, WatchAssumption
<1>2. ASSUME NEW k \in DOMAIN posted
      PROVE  /\ posted[k].where \in {Endpoints[i] : i \in DOMAIN Endpoints}
             /\ posted[k].at \in Nat /\ posted[k].at \in 1 .. Now
  <2>1. posted[k].at \in 1 .. MaxComments /\ posted[k].at <= Now
    BY NowIsLatest, PostedAreTimed
  <2> QED BY <1>1, <2>1, PostedAreTimed, WatchAssumption
<1> QED BY <1>1, <1>2

\* A mark that moves on is the latest of the reading's comments, or stays; it is
\* a mark for what the reading's news tells.
LEMMA AdvancedMark ==
  ASSUME posted \in Seq(Posting), NEW m, IsMark(m),
         \A c \in reading.comments : c.id \in DOMAIN posted /\ c.at \in 1 .. posted[c.id].at
  PROVE  LET moved == Advanced(reading, m)
         IN  /\ IsMark(moved)
             /\ m.comments <= moved.comments
             /\ \A c \in reading.comments : c.at <= moved.comments
             /\ Marked(m, posted, told) /\ News(reading, m) \subseteq told => Marked(moved, posted, told)
<1> DEFINE moved == Advanced(reading, m)
           F == FreshComments(reading, m)
<1>1. DOMAIN moved = Signals
  BY DEF Advanced, Signals
<1>2. Now \in Nat /\ \A c \in reading.comments : c.at \in 1 .. Now /\ c.at \in Nat
  <2>1. ASSUME NEW c \in reading.comments
        PROVE  c.at \in 1 .. Now /\ c.at \in Nat
    <3>1. c.at \in 1 .. posted[c.id].at /\ posted[c.id].at \in 1 .. Now /\ Now \in Nat
      BY NowIsTimed
    <3> QED BY <3>1
  <2> QED BY <2>1, NowIsTimed
<1>3. m.comments \in Nat
  BY DEF IsMark
<1>4. /\ moved.comments \in Nat /\ m.comments <= moved.comments
      /\ \A c \in reading.comments : c.at <= moved.comments
      /\ moved.comments = m.comments \/ \E c \in F : moved.comments = c.at
  <2>1. CASE F = {}
    <3>1. moved.comments = m.comments
      BY <2>1 DEF Advanced
    <3>2. \A c \in reading.comments : c.at <= m.comments
      BY <1>2, <1>3, <2>1 DEF FreshComments
    <3> QED BY <1>3, <3>1, <3>2
  <2>2. CASE F # {}
    <3>1. Times(F) # {} /\ Times(F) \in SUBSET (0 .. Now)
      BY <1>2, <2>2 DEF Times, FreshComments
    <3>2. moved.comments = Max(Times(F))
      BY <2>2 DEF Advanced
    <3>3. moved.comments \in Times(F) /\ \A s \in Times(F) : s <= moved.comments
      BY <1>2, <3>1, <3>2, MaxIsGreatest
    <3>4. PICK c \in F : c.at = moved.comments
      BY <3>3 DEF Times
    <3>5. c.at \in Nat /\ m.comments <= c.at
      BY <1>2, <1>3 DEF FreshComments
    <3>6. ASSUME NEW d \in reading.comments
          PROVE  d.at <= moved.comments
      <4>1. d \in F \/ d.at <= m.comments
        BY <1>2, <1>3 DEF FreshComments
      <4>2. d \in F => d.at <= moved.comments
        BY <3>3 DEF Times
      <4> QED BY <1>2, <1>3, <3>4, <3>5, <4>1, <4>2
    <3> QED BY <3>4, <3>5, <3>6
  <2> QED BY <2>1, <2>2
<1>5. ASSUME Marked(m, posted, told), News(reading, m) \subseteq told
      PROVE  Marked(moved, posted, told)
  <2>1. moved.comments # 0 => \E k \in DOMAIN posted : <<"comments", k, moved.comments>> \in told
    <3>1. CASE moved.comments = m.comments
      BY <1>5, <3>1 DEF Marked
    <3>2. CASE \E c \in F : moved.comments = c.at
      <4>1. PICK c \in F : moved.comments = c.at
        BY <3>2
      <4>2. <<"comments", c.id, c.at>> \in News(reading, m) /\ c.id \in DOMAIN posted
        BY DEF News, FreshComments
      <4> QED BY <1>5, <4>1, <4>2
    <3> QED BY <1>4, <3>1, <3>2
  <2>2. moved.checks[2] # {} => <<"checks", moved.checks[1], moved.checks[2]>> \in told
    <3>1. CASE HasFailures(reading, m)
      <4>1. moved.checks = <<reading.head, reading.failing>>
        BY <3>1 DEF Advanced, HasFailures, Signature
      <4>2. <<"checks", reading.head, reading.failing>> \in News(reading, m)
        BY <3>1 DEF News
      <4> QED BY <1>5, <4>1, <4>2
    <3>2. CASE ~HasFailures(reading, m)
      BY <1>5, <3>2 DEF Advanced, Marked
    <3> QED BY <3>1, <3>2
  <2>3. moved.conflict # 0 => <<"conflict", moved.conflict, {}>> \in told
    <3>1. CASE HasConflict(reading, m)
      <4>1. moved.conflict = reading.head /\ <<"conflict", reading.head, {}>> \in News(reading, m)
        BY <3>1 DEF Advanced, News
      <4> QED BY <1>5, <4>1
    <3>2. CASE ~HasConflict(reading, m)
      BY <1>5, <3>2 DEF Advanced, Marked
    <3> QED BY <3>1, <3>2
  <2> QED BY <2>1, <2>2, <2>3 DEF Marked
<1> QED BY <1>1, <1>4, <1>5 DEF IsMark

\* Comments stay where they are and only get later; what was told stays told.
LEMMA CommentsStay ==
  ASSUME NewsInv, [Next]_vars
  PROVE  /\ posted' \in Seq(Posting) /\ told \subseteq told'
         /\ \A k \in DOMAIN posted :
              /\ k \in DOMAIN posted' /\ posted'[k].where = posted[k].where
              /\ posted[k].at <= posted'[k].at /\ posted[k].at \in Nat /\ posted'[k].at \in Nat
<1> USE DEF github, history
<1>1. CASE Comment
  <2>1. posted \in Seq(Posting)
    BY DEF NewsInv
  <2>2. PICK at : at = Now + 1
    OBVIOUS
  <2>3. /\ posted' \in Seq(Posting) /\ Now \in Nat
        /\ \A k \in DOMAIN posted :
             /\ k \in DOMAIN posted' /\ posted'[k].where = posted[k].where
             /\ posted'[k].at = at \/ posted'[k].at = posted[k].at
    <3>1. \E c \in DOMAIN posted' :
             /\ posted'[c].at = at
             /\ \A k \in DOMAIN posted' \ {c} : k \in DOMAIN posted /\ posted'[k] = posted[k]
      BY <1>1, <2>1, <2>2, CommentIsLatest
    <3>2. /\ posted' \in Seq(Posting) /\ Now \in Nat
          /\ \A k \in DOMAIN posted : k \in DOMAIN posted' /\ posted'[k].where = posted[k].where
      BY <1>1, <2>1, <2>2, CommentIsLatest
    <3> QED BY <3>1, <3>2
  <2>4. \A k \in DOMAIN posted : posted[k].at \in Nat /\ posted[k].at < at
    BY <2>1, <2>2, <2>3, NowIsTimed
  <2>5. told' = told
    BY <1>1 DEF Comment
  <2> QED BY <2>2, <2>3, <2>4, <2>5
<1>2. CASE ~Comment
  <2>1. UNCHANGED posted /\ told \subseteq told'
    BY <1>2 DEF Next, GitHub, ChecksReport, BaseMoves, Approve, AgentPushes, SessionExits, Pass, Settle,
                SettleOverdue, Observe, ReadEndpoint, LeaveForNextPass, ReportOnly, RunOutOfWakes, SpawnWake,
                AddSession, SaveHead, RecordResumed, AdvanceMarks, Die, People, Restart, RestoreMarks,
                RecordVerdict, RecoverByWaking, RefuseToWake, vars
  <2>2. \A k \in DOMAIN posted : posted[k].at \in Nat
    BY NowIsTimed DEF NewsInv
  <2> QED BY <2>1, <2>2 DEF NewsInv
<1> QED BY <1>1, <1>2

\* A mark is an earlier one, or one that moved past a reading whose news was told.
LEMMA MarksMove ==
  ASSUME NewsInv, [Next]_vars, NEW m \in {marks', latest'.before, asked'}
  PROVE  \/ m \in {marks, latest.before, asked}
         \/ /\ m = Advanced(reading, marks) /\ News(reading, marks) \subseteq told
            /\ step \notin {"idle", "restored"}
<1> USE DEF github, rows, history
<1>1. CASE ReportOnly \/ SaveHead \/ AddSession
  BY <1>1 DEF ReportOnly, SaveHead, AddSession, IsRead, NewsInv, StepInv
<1>2. CASE AdvanceMarks
  BY <1>2 DEF AdvanceMarks, NewsInv, StepInv
<1>3. CASE Restart \/ RestoreMarks \/ RecordVerdict \/ RecoverByWaking \/ RefuseToWake
  BY <1>3 DEF Restart, RestoreMarks, RecordVerdict, RecoverByWaking, RefuseToWake
<1> QED
  BY <1>1, <1>2, <1>3
     DEF Next, GitHub, Comment, ChecksReport, BaseMoves, Approve, AgentPushes, SessionExits, Pass, Settle,
         SettleOverdue, Observe, ReadEndpoint, LeaveForNextPass, RunOutOfWakes, SpawnWake, RecordResumed, Die,
         People, vars

\* Every mark a step writes, or puts back, stands for news that was told
\* (_advance_marks, _restore_marks).
LEMMA MarksKept ==
  ASSUME NewsInv, [Next]_vars
  PROVE  MarksInv'
<1>1. ASSUME NEW m \in {marks', latest'.before, asked'}
      PROVE  IsMark(m) /\ Marked(m, posted, told)
  <2>1. CASE m \in {marks, latest.before, asked}
    BY <2>1 DEF NewsInv, MarksInv
  <2>2. CASE m = Advanced(reading, marks) /\ News(reading, marks) \subseteq told /\ step \notin {"idle", "restored"}
    <3>1. IsMark(marks) /\ Marked(marks, posted, told)
      BY DEF NewsInv, MarksInv
    <3>2. \A c \in reading.comments : c.id \in DOMAIN posted /\ c.at \in 1 .. posted[c.id].at
      BY <2>2 DEF NewsInv, ReadingInv
    <3> QED BY <2>2, <3>1, <3>2, AdvancedMark DEF NewsInv
  <2> QED BY <2>1, <2>2, MarksMove
<1>2. ASSUME NEW m, Marked(m, posted, told)
      PROVE  Marked(m, posted', told')
  BY <1>2, CommentsStay DEF Marked
<1> QED BY <1>1, <1>2 DEF MarksInv, IsMark

\* The types of the watch.
LEMMA TypesKept ==
  ASSUME NewsInv, [Next]_vars
  PROVE  TypeOK'
<1>0. /\ TypeOK /\ NodeWakes \in Nat /\ MaxLosses \in Nat /\ MaxHead \in Nat /\ wakes \in Nat /\ losses \in Nat
      /\ orphans \in Nat
  BY WatchAssumption DEF NewsInv, TypeOK
<1>1. posted' \in Seq([where : {Endpoints[i] : i \in DOMAIN Endpoints}, at : Nat])
  <2>1. posted' \in Seq(Posting)
    BY CommentsStay
  <2>2. Posting \subseteq [where : {Endpoints[i] : i \in DOMAIN Endpoints}, at : Nat]
    BY WatchAssumption DEF Posting
  <2> QED BY <2>1, <2>2, SeqMonotonic
<1>2. DOMAIN marks' = Signals
  BY MarksKept DEF MarksInv, IsMark
<1>3. head' \in 1 .. MaxHead /\ failing' \in SUBSET Check /\ conflicted' \in BOOLEAN /\ approved' \in BOOLEAN
  <2>0. head \in 1 .. MaxHead /\ failing \in SUBSET Check /\ conflicted \in BOOLEAN /\ approved \in BOOLEAN
    BY <1>0 DEF TypeOK
  <2>1. CASE AgentPushes
    <3>1. head' = head + 1 /\ head < MaxHead /\ failing' = {} /\ conflicted' = FALSE /\ approved' = approved
      BY <2>1 DEF AgentPushes
    <3>2. head' \in 1 .. MaxHead
      BY <1>0, <2>0, <3>1
    <3> QED BY <2>0, <3>1, <3>2
  <2>2. CASE GitHub
    BY <2>0, <2>2 DEF GitHub, Comment, ChecksReport, BaseMoves, Approve
  <2>3. CASE UNCHANGED github
    BY <2>0, <2>3 DEF github
  <2> QED
    BY <2>1, <2>2, <2>3
       DEF Next, SessionExits, Pass, Settle, SettleOverdue, Observe, ReadEndpoint, LeaveForNextPass, ReportOnly,
           RunOutOfWakes, SpawnWake, AddSession, SaveHead, RecordResumed, AdvanceMarks, Die, People, Restart,
           RestoreMarks, RecordVerdict, RecoverByWaking, RefuseToWake, vars
<1>4. /\ state' \in {"in_progress", "resting", "stopped"} /\ wakes' \in 0 .. NodeWakes
      /\ latest'.trigger \in {"launch", "wake", "retry", "recovery"}
  <2>0. /\ state \in {"in_progress", "resting", "stopped"} /\ wakes \in 0 .. NodeWakes
        /\ latest.trigger \in {"launch", "wake", "retry", "recovery"}
    BY <1>0 DEF TypeOK
  <2>1. CASE AddSession
    BY <1>0, <2>0, <2>1 DEF AddSession, NewsInv, StepInv
  <2>2. CASE Settle \/ SettleOverdue \/ RunOutOfWakes \/ RecordResumed
    BY <2>0, <2>2 DEF Settle, SettleOverdue, RunOutOfWakes, RecordResumed
  <2>3. CASE People
    BY <1>0, <2>0, <2>3 DEF People, Restart, RestoreMarks, RecordVerdict, RecoverByWaking, RefuseToWake, rows
  <2>4. CASE UNCHANGED <<state, wakes, latest>>
    BY <2>0, <2>4
  <2> QED
    BY <2>1, <2>2, <2>3, <2>4
       DEF Next, GitHub, Comment, ChecksReport, BaseMoves, Approve, AgentPushes, SessionExits, Pass, Observe,
           ReadEndpoint, LeaveForNextPass, ReportOnly, SpawnWake, SaveHead, AdvanceMarks, Die, vars, rows
<1>5. alive' \in BOOLEAN /\ fresh' \in BOOLEAN
  <2>0. alive \in BOOLEAN /\ fresh \in BOOLEAN
    BY <1>0 DEF TypeOK
  <2>1. CASE SessionExits \/ SettleOverdue \/ SpawnWake \/ AddSession \/ Die \/ Restart \/ RecoverByWaking
    BY <2>0, <2>1 DEF SessionExits, SettleOverdue, SpawnWake, AddSession, Die, Restart, RecoverByWaking
  <2>2. CASE UNCHANGED <<alive, fresh>>
    BY <2>0, <2>2
  <2> QED
    BY <2>1, <2>2
       DEF Next, GitHub, Comment, ChecksReport, BaseMoves, Approve, AgentPushes, Pass, Settle, Observe,
           LeaveForNextPass, ReportOnly, RunOutOfWakes, SaveHead, RecordResumed, AdvanceMarks, ReadEndpoint, People,
           RestoreMarks, RecordVerdict, RefuseToWake, vars, agents
<1>6. orphans' \in Nat /\ losses' \in 0 .. MaxLosses
  <2>0. losses \in 0 .. MaxLosses /\ One(alive) \in Nat /\ One(fresh) \in Nat
    BY <1>0 DEF TypeOK, One
  <2>1. CASE SessionExits
    BY <1>0, <2>0, <2>1 DEF SessionExits
  <2>2. CASE AddSession \/ Restart
    <3>1. orphans' = orphans + One(alive) /\ UNCHANGED losses
      BY <2>2 DEF AddSession, Restart
    <3> QED BY <1>0, <2>0, <3>1
  <2>3. CASE Die \/ RestoreMarks
    <3>1. orphans' \in {orphans, orphans + One(fresh)} /\ losses' = losses + 1 /\ losses < MaxLosses
      BY <2>3 DEF Die, RestoreMarks, Loss, agents
    <3> QED BY <1>0, <2>0, <3>1
  <2>4. CASE UNCHANGED <<orphans, losses>>
    BY <1>0, <2>0, <2>4
  <2> QED
    BY <2>1, <2>2, <2>3, <2>4
       DEF Next, GitHub, Comment, ChecksReport, BaseMoves, Approve, AgentPushes, Pass, Settle, SettleOverdue, Observe,
           LeaveForNextPass, ReportOnly, RunOutOfWakes, SpawnWake, SaveHead, RecordResumed, AdvanceMarks,
           ReadEndpoint, People, RecordVerdict, RecoverByWaking, RefuseToWake, vars, agents
<1>7. step' \in Steps
  BY <1>0
     DEF TypeOK, Next, GitHub, Comment, ChecksReport, BaseMoves, Approve, AgentPushes, SessionExits, Pass, Settle,
         SettleOverdue, Observe, ReadEndpoint, LeaveForNextPass, ReportOnly, RunOutOfWakes, SpawnWake, AddSession,
         SaveHead, RecordResumed, AdvanceMarks, Die, People, Restart, RestoreMarks, RecordVerdict,
         RecoverByWaking, RefuseToWake, vars, Steps
<1>8. between' \subseteq DOMAIN posted'
  <2>1. between \subseteq DOMAIN posted /\ DOMAIN posted \subseteq DOMAIN posted'
    BY <1>0, CommentsStay DEF TypeOK
  <2>2. CASE Comment
    <3>1. PICK at : at = Now + 1
      OBVIOUS
    <3>2. PICK c \in DOMAIN posted' : Dated(c, posted'[c].where)
      BY <2>2, <3>1, CommentIsLatest DEF NewsInv
    <3> QED BY <2>1, <3>2 DEF Dated
  <2>3. CASE UNCHANGED between
    BY <2>1, <2>3
  <2> QED
    BY <2>2, <2>3
       DEF Next, GitHub, ChecksReport, BaseMoves, Approve, AgentPushes, SessionExits, Pass, Settle, SettleOverdue,
           Observe, ReadEndpoint, LeaveForNextPass, ReportOnly, RunOutOfWakes, SpawnWake, AddSession, SaveHead,
           RecordResumed, AdvanceMarks, Die, People, Restart, RestoreMarks, RecordVerdict, RecoverByWaking,
           RefuseToWake, vars, history
<1> QED BY <1>1, <1>2, <1>3, <1>4, <1>5, <1>6, <1>7, <1>8 DEF TypeOK

\* The pass goes on from what it has written.
LEMMA StepsKept ==
  ASSUME NewsInv, [Next]_vars
  PROVE  StepInv'
<1>0. StepInv /\ Len(Endpoints) \in Nat /\ wakes \in Nat
  BY WatchAssumption DEF NewsInv, TypeOK
<1> USE DEF github, rows, agents, history
<1>1. CASE UNCHANGED <<step, state, wakes, marks, latest, told, reading>>
  BY <1>0, <1>1 DEF StepInv
<1>2. CASE step' \in {"idle", "restored"}
  BY <1>2 DEF StepInv
<1>3. CASE Observe \/ \E i \in DOMAIN Endpoints : ReadEndpoint(i)
  <2>1. state' = "resting" /\ step' = "reading"
    BY <1>0, <1>3 DEF Observe, ReadEndpoint, StepInv
  <2> QED BY <2>1 DEF StepInv
<1>4. CASE SpawnWake
  BY <1>0, <1>4 DEF SpawnWake, IsRead, HasWakesLeft, StepInv
<1>5. CASE AddSession
  BY <1>0, <1>5 DEF AddSession, StepInv
<1>6. CASE SaveHead
  BY <1>0, <1>6 DEF SaveHead, StepInv
<1>7. CASE RecordResumed
  BY <1>0, <1>7 DEF RecordResumed, StepInv
<1>8. CASE Settle \/ SettleOverdue \/ Restart
  BY <1>2, <1>8 DEF Settle, SettleOverdue, Restart
<1> QED
  BY <1>1, <1>2, <1>3, <1>4, <1>5, <1>6, <1>7, <1>8
     DEF Next, GitHub, Comment, ChecksReport, BaseMoves, Approve, AgentPushes, SessionExits, Pass,
         LeaveForNextPass, ReportOnly, RunOutOfWakes, AdvanceMarks, Die, People, RestoreMarks, RecordVerdict,
         RecoverByWaking, RefuseToWake, vars

\* A second agent was paid for.
LEMMA AgentsKept ==
  ASSUME NewsInv, [Next]_vars
  PROVE  AgentsInv'
<1>0. /\ AgentsInv /\ StepInv /\ orphans \in Nat /\ losses \in Nat /\ alive \in BOOLEAN /\ fresh \in BOOLEAN
      /\ One(TRUE) = 1 /\ One(FALSE) = 0
  BY WatchAssumption DEF NewsInv, TypeOK, One
<1>1. CASE GitHub \/ AgentPushes
  BY <1>0, <1>1 DEF GitHub, Comment, ChecksReport, BaseMoves, Approve, AgentPushes, AgentsInv, agents, rows, One
<1>2. CASE SessionExits
  BY <1>0, <1>2 DEF SessionExits, AgentsInv, rows, One
<1>3. CASE Settle \/ SettleOverdue \/ Observe \/ LeaveForNextPass \/ ReportOnly \/ RunOutOfWakes
           \/ \E i \in DOMAIN Endpoints : ReadEndpoint(i)
  <2>1. /\ UNCHANGED <<fresh, orphans, losses>> /\ step' \in {"idle", "reading"}
        /\ step \in {"idle", "reading"}
        /\ alive' => alive /\ state # "in_progress"
    <3>1. CASE Settle \/ SettleOverdue
      <4>1. UNCHANGED <<fresh, orphans, losses, step>> /\ step = "idle" /\ ~alive'
        BY <3>1 DEF Settle, SettleOverdue, agents
      <4> QED BY <4>1
    <3>2. CASE Observe \/ \E i \in DOMAIN Endpoints : ReadEndpoint(i)
      <4>1. UNCHANGED <<alive, fresh, orphans, losses>> /\ step' = "reading" /\ step \in {"idle", "reading"}
        BY <3>2 DEF Observe, ReadEndpoint, agents
      <4>2. state = "resting"
        BY <1>0, <3>2 DEF Observe, ReadEndpoint, StepInv
      <4> QED BY <4>1, <4>2
    <3>3. CASE LeaveForNextPass \/ ReportOnly \/ RunOutOfWakes
      BY <1>0, <3>3 DEF LeaveForNextPass, ReportOnly, RunOutOfWakes, IsRead, StepInv, agents
    <3> QED BY <1>3, <3>1, <3>2, <3>3
  <2>2. alive' => alive /\ state # "in_progress" /\ step \notin {"added", "saved"}
    BY <1>0, <2>1
  <2> QED BY <1>0, <2>1, <2>2 DEF AgentsInv, One
<1>4. CASE SpawnWake \/ AddSession
  <2>1. CASE SpawnWake
    BY <1>0, <2>1 DEF SpawnWake, IsRead, AgentsInv, StepInv, rows, One
  <2>2. CASE AddSession
    <3>1. /\ orphans' = orphans + One(alive) /\ fresh' = FALSE /\ step' = "added" /\ UNCHANGED losses
          /\ step = "spawned" /\ state = "resting"
      BY <1>0, <2>2 DEF AddSession, history, StepInv
    <3>2. orphans + One(alive) <= losses
      BY <1>0, <3>1 DEF AgentsInv, One
    <3>3. One(alive' /\ state' # "in_progress" /\ step' \notin {"added", "saved"}) = 0
      BY <3>1 DEF One
    <3>4. orphans' + 0 <= losses'
      BY <1>0, <3>1, <3>2 DEF One
    <3> QED BY <3>1, <3>3, <3>4 DEF AgentsInv
  <2> QED BY <1>4, <2>1, <2>2
<1>5. CASE SaveHead \/ RecordResumed \/ AdvanceMarks
  BY <1>0, <1>5 DEF SaveHead, RecordResumed, AdvanceMarks, AgentsInv, StepInv, agents, rows, One
<1>6. CASE Die
  BY <1>0, <1>6 DEF Die, Loss, AgentsInv, StepInv, rows, One
<1>7. CASE People
  BY <1>0, <1>7
     DEF People, Restart, RestoreMarks, RecordVerdict, RecoverByWaking, RefuseToWake, Loss, AgentsInv, agents, rows,
         One
<1>8. CASE UNCHANGED vars
  BY <1>0, <1>8 DEF vars, AgentsInv, agents, rows
<1> QED BY <1>1, <1>2, <1>3, <1>4, <1>5, <1>6, <1>7, <1>8 DEF Next, Pass

\* The head only moves on, and a conflict stays until it does.
LEMMA HeadMoves ==
  ASSUME NewsInv, [Next]_vars
  PROVE  /\ head \in Nat /\ head' \in Nat
         /\ \/ head' = head /\ (conflicted => conflicted')
            \/ head' = head + 1 /\ UNCHANGED <<told, step, reading>>
<1>1. head \in Nat
  BY WatchAssumption DEF NewsInv, TypeOK
<1>2. CASE AgentPushes
  BY <1>1, <1>2 DEF AgentPushes, history
<1>3. CASE GitHub
  BY <1>1, <1>3 DEF GitHub, Comment, ChecksReport, BaseMoves, Approve
<1>4. CASE UNCHANGED github
  BY <1>1, <1>4 DEF github
<1> QED
  BY <1>2, <1>3, <1>4
     DEF Next, SessionExits, Pass, Settle, SettleOverdue, Observe, ReadEndpoint, LeaveForNextPass, ReportOnly,
         RunOutOfWakes, SpawnWake, AddSession, SaveHead, RecordResumed, AdvanceMarks, Die, People, Restart,
         RestoreMarks, RecordVerdict, RecoverByWaking, RefuseToWake, vars

\* Only a wake tells anything, and what its reading found.
LEMMA ToldMoves ==
  ASSUME NewsInv, [Next]_vars, NEW item \in told', item \notin told
  PROVE  /\ SpawnWake
         /\ \/ \E c \in reading.comments : item = <<"comments", c.id, c.at>> /\ c.at > marks.comments
            \/ item = <<"checks", reading.head, reading.failing>>
            \/ item = <<"conflict", reading.head, {}>> /\ reading.conflicted
<1>1. SpawnWake
  BY DEF Next, GitHub, Comment, ChecksReport, BaseMoves, Approve, AgentPushes, SessionExits, Pass, Settle,
         SettleOverdue, Observe, ReadEndpoint, LeaveForNextPass, ReportOnly, RunOutOfWakes, AddSession, SaveHead,
         RecordResumed, AdvanceMarks, Die, People, Restart, RestoreMarks, RecordVerdict, RecoverByWaking,
         RefuseToWake, vars, history
<1>2. item \in News(reading, marks)
  BY <1>1 DEF SpawnWake
<1> QED BY <1>1, <1>2, NewsItems

\* What was told is of comments that are posted and of conflicts that were
\* there.
LEMMA ToldKept ==
  ASSUME NewsInv, [Next]_vars
  PROVE  ToldInv'
<1>0. ToldInv /\ ReadingInv /\ head \in Nat
  BY HeadMoves DEF NewsInv
<1> SUFFICES ASSUME NEW item \in told'
             PROVE  /\ item[1] = "comments" =>
                         item[2] \in DOMAIN posted' /\ item[3] \in 1 .. posted'[item[2]].at
                    /\ item[1] = "conflict" => item[2] \in 1 .. head' /\ (item[2] = head' => conflicted')
  BY DEF ToldInv
<1>1. /\ item[1] = "comments" => item[2] \in DOMAIN posted /\ item[3] \in 1 .. posted[item[2]].at
      /\ item[1] = "conflict" => item[2] \in 1 .. head /\ (item[2] = head => conflicted)
  <2>1. CASE item \in told
    BY <1>0, <2>1 DEF ToldInv
  <2>2. CASE item \notin told
    <3>1. SpawnWake /\ step = "reading"
      BY <2>2, ToldMoves DEF SpawnWake, IsRead
    <3>2. CASE \E c \in reading.comments : item = <<"comments", c.id, c.at>>
      BY <1>0, <3>1, <3>2 DEF ReadingInv
    <3>3. CASE item = <<"checks", reading.head, reading.failing>>
      BY <3>3
    <3>4. CASE item = <<"conflict", reading.head, {}>> /\ reading.conflicted
      BY <1>0, <3>1, <3>4 DEF ReadingInv
    <3> QED BY <2>2, <3>2, <3>3, <3>4, ToldMoves
  <2> QED BY <2>1, <2>2
<1>2. item[1] = "comments" => item[2] \in DOMAIN posted' /\ item[3] \in 1 .. posted'[item[2]].at
  BY <1>1, CommentsStay
<1>3. item[1] = "conflict" => item[2] \in 1 .. head' /\ (item[2] = head' => conflicted')
  BY <1>1, HeadMoves
<1> QED BY <1>2, <1>3

\* What the pass keeps of a reading, as GitHub moves on.
LEMMA ReadingKept ==
  ASSUME NewsInv, [Next]_vars
  PROVE  ReadingInv'
<1>0. ToldInv /\ ReadingInv /\ Len(Endpoints) \in Nat /\ DOMAIN Endpoints = 1 .. Len(Endpoints)
  BY WatchAssumption, LenProperties DEF NewsInv
<1>1. CASE Observe
  <2>1. /\ reading'.head = head /\ reading'.conflicted = conflicted /\ reading'.comments = {}
        /\ reading'.fetched = 0 /\ UNCHANGED <<head, conflicted, told>>
    BY <1>1 DEF Observe, github, history
  <2>2. head \in 1 .. head
    BY DEF NewsInv, TypeOK
  <2> QED BY <1>0, <2>1, <2>2 DEF ReadingInv, ToldInv
<1>2. CASE \E i \in DOMAIN Endpoints : ReadEndpoint(i)
  <2>1. PICK i \in DOMAIN Endpoints : ReadEndpoint(i)
    BY <1>2
  <2> DEFINE fresher == {[id |-> k, at |-> posted[k].at] :
                           k \in {l \in DOMAIN posted : posted[l].where = Endpoints[i]}}
  <2>2. /\ step = "reading" /\ reading.fetched = i - 1
        /\ UNCHANGED <<head, conflicted, told, posted>>
    BY <2>1 DEF ReadEndpoint, github, history
  <2>3. /\ reading'.head = reading.head /\ reading'.conflicted = reading.conflicted
        /\ reading'.fetched = i /\ reading'.comments = reading.comments \cup fresher
    BY <2>1 DEF ReadEndpoint
  <2>4. \A c \in fresher : c.id \in DOMAIN posted /\ c.at \in 1 .. posted[c.id].at
    BY NowIsTimed DEF NewsInv
  <2>5. ASSUME NEW item \in told, item[1] = "comments",
               NEW j \in 1 .. i, Endpoints[j] = posted[item[2]].where
        PROVE  \E c \in reading.comments \cup fresher : c.id = item[2] /\ c.at >= item[3]
    <3>1. CASE j = i
      <4> DEFINE d == [id |-> item[2], at |-> posted[item[2]].at]
      <4>1. item[2] \in DOMAIN posted /\ item[3] \in 1 .. posted[item[2]].at
        BY <1>0, <2>5 DEF ToldInv
      <4>2. d \in fresher
        BY <2>5, <3>1, <4>1
      <4>3. posted[item[2]].at \in Nat
        BY <4>1, NowIsTimed DEF NewsInv
      <4>4. d.id = item[2] /\ d.at >= item[3]
        BY <4>1, <4>3
      <4> QED BY <4>2, <4>4
    <3>2. CASE j # i
      <4>1. j \in 1 .. reading.fetched
        BY <1>0, <2>2, <3>2
      <4> QED BY <1>0, <2>2, <2>5, <4>1 DEF ReadingInv
    <3> QED BY <3>1, <3>2
  <2>6. i \in 0 .. Len(Endpoints)
    BY <1>0
  <2> HIDE DEF fresher
  <2>7. \A c \in reading'.comments : c.id \in DOMAIN posted' /\ c.at \in 1 .. posted'[c.id].at
    BY <1>0, <2>2, <2>3, <2>4 DEF ReadingInv
  <2>8. \A item \in told' :
           item[1] = "comments" /\ (\E j \in 1 .. reading'.fetched : Endpoints[j] = posted'[item[2]].where) =>
             \E c \in reading'.comments : c.id = item[2] /\ c.at >= item[3]
    BY <2>2, <2>3, <2>5
  <2> QED BY <1>0, <2>2, <2>3, <2>6, <2>7, <2>8 DEF ReadingInv
<1>3. CASE UNCHANGED reading /\ step \notin {"idle", "restored"}
  <2>1. \A c \in reading.comments : c.id \in DOMAIN posted' /\ c.at \in 1 .. posted'[c.id].at
    <3> SUFFICES ASSUME NEW c \in reading.comments
                 PROVE  c.id \in DOMAIN posted' /\ c.at \in 1 .. posted'[c.id].at
      OBVIOUS
    <3>1. c.id \in DOMAIN posted /\ c.at \in 1 .. posted[c.id].at
      BY <1>0, <1>3 DEF ReadingInv
    <3> QED BY <3>1, CommentsStay
  <2>2. reading.head \in 1 .. head' /\ (reading.conflicted /\ reading.head = head' => conflicted')
    BY <1>0, <1>3, HeadMoves DEF ReadingInv
  <2>3. ASSUME NEW item \in told', item[1] = "conflict"
        PROVE  item[2] <= reading.head /\ (item[2] = reading.head => reading.conflicted)
    <3>1. CASE item \in told
      BY <1>0, <1>3, <2>3, <3>1 DEF ReadingInv
    <3>2. CASE item \notin told
      BY <2>2, <2>3, <3>2, ToldMoves
    <3> QED BY <3>1, <3>2
  <2>4. ASSUME NEW item \in told', item[1] = "comments",
               NEW i \in 1 .. reading.fetched, Endpoints[i] = posted'[item[2]].where
        PROVE  \E c \in reading.comments : c.id = item[2] /\ c.at >= item[3]
    <3>1. CASE item \in told
      <4>1. item[2] \in DOMAIN posted /\ posted'[item[2]].where = posted[item[2]].where
        BY <1>0, <2>4, <3>1, CommentsStay DEF ToldInv
      <4> QED BY <1>0, <1>3, <2>4, <3>1, <4>1 DEF ReadingInv
    <3>2. CASE item \notin told
      <4>1. PICK c \in reading.comments : item = <<"comments", c.id, c.at>>
        BY <2>4, <3>2, ToldMoves
      <4>2. c.at \in Nat
        BY <2>1
      <4>3. c.id = item[2] /\ c.at = item[3]
        BY <4>1
      <4> QED BY <4>2, <4>3
    <3> QED BY <3>1, <3>2
  <2> QED BY <1>0, <1>3, <2>1, <2>2, <2>3, <2>4 DEF ReadingInv
<1>4. CASE step' \in {"idle", "restored"}
  BY <1>4 DEF ReadingInv
<1> QED
  BY <1>1, <1>2, <1>3, <1>4
     DEF Next, GitHub, Comment, ChecksReport, BaseMoves, Approve, AgentPushes, SessionExits, Pass, Settle,
         SettleOverdue, LeaveForNextPass, ReportOnly, RunOutOfWakes, SpawnWake, IsRead, AddSession, SaveHead,
         RecordResumed, AdvanceMarks, Die, People, Restart, RestoreMarks, RecordVerdict, RecoverByWaking,
         RefuseToWake, vars

\* The head that the marks are compared with moves on only, and no conflict was
\* told at a later one.
LEMMA SeenHeadMoves ==
  ASSUME NewsInv, [Next]_vars
  PROVE  /\ SeenHead \in Nat /\ SeenHead' \in Nat /\ SeenHead <= SeenHead'
         /\ \A item \in told : item[1] = "conflict" => item[2] \in Nat /\ item[2] <= SeenHead
<1>1. /\ head \in Nat /\ head' \in Nat /\ head <= head'
      /\ step \notin {"idle", "restored"} => reading.head \in Nat /\ reading.head <= head
  BY HeadMoves DEF NewsInv, ReadingInv
<1>2. \/ step \in {"idle", "restored"} /\ step' \in {"idle", "restored"}
      \/ step \notin {"idle", "restored"} /\ step' \in {"idle", "restored"}
      \/ step \in {"idle", "restored"} /\ step' \notin {"idle", "restored"} /\ reading'.head = head
      \/ step \notin {"idle", "restored"} /\ step' \notin {"idle", "restored"} /\ reading'.head = reading.head
  <2>1. CASE \E i \in DOMAIN Endpoints : ReadEndpoint(i)
    BY <2>1 DEF ReadEndpoint
  <2>2. CASE Observe
    BY <2>2 DEF Observe
  <2> QED
    BY <2>1, <2>2
       DEF Next, GitHub, Comment, ChecksReport, BaseMoves, Approve, AgentPushes, SessionExits, Pass, Settle,
           SettleOverdue, LeaveForNextPass, ReportOnly, RunOutOfWakes, SpawnWake, IsRead, AddSession, SaveHead,
           RecordResumed, AdvanceMarks, Die, People, Restart, RestoreMarks, RecordVerdict, RecoverByWaking,
           RefuseToWake, vars
<1>3. SeenHead \in Nat /\ SeenHead' \in Nat /\ SeenHead <= SeenHead'
  BY <1>1, <1>2 DEF SeenHead
<1>4. \A item \in told : item[1] = "conflict" => item[2] \in Nat /\ item[2] <= SeenHead
  BY <1>1 DEF NewsInv, ToldInv, ReadingInv, SeenHead
<1> QED BY <1>3, <1>4

\* Nothing more may be told again where nothing is told and no mark goes back.
LEMMA AheadStays ==
  ASSUME NewsInv, [Next]_vars, UNCHANGED told, marks'.comments = marks.comments,
         marks'.conflict = marks.conflict, Ahead'
  PROVE  Ahead
<1>1. PICK item \in told :
        \/ item[1] = "comments" /\ item[3] > marks.comments
        \/ item[1] = "conflict" /\ item[2] = SeenHead' /\ item[2] # marks.conflict
  BY DEF Ahead
<1>2. item[1] = "conflict" /\ item[2] = SeenHead' => item[2] = SeenHead
  BY SeenHeadMoves
<1> QED BY <1>1, <1>2 DEF Ahead

\* Once the marks have moved past a reading, nothing it tells is ahead of them.
LEMMA NothingAhead ==
  ASSUME NewsInv, SaveHead
  PROVE  ~Ahead'
<1>1. /\ step = "added" /\ step' = "saved" /\ marks' = Advanced(reading, marks)
      /\ UNCHANGED <<reading, told, posted>>
  BY DEF SaveHead, history, github
<1>2. reading.fetched = Len(Endpoints) /\ ToldInv /\ ReadingInv /\ IsMark(marks) /\ posted \in Seq(Posting)
  BY <1>1 DEF NewsInv, StepInv, MarksInv
<1>3. /\ marks'.comments \in Nat /\ \A c \in reading.comments : c.at <= marks'.comments /\ c.at \in Nat
  <2>1. \A c \in reading.comments : c.id \in DOMAIN posted /\ c.at \in 1 .. posted[c.id].at
    BY <1>1, <1>2 DEF ReadingInv
  <2>2. \A c \in reading.comments : c.at \in Nat
    BY <1>2, <2>1, NowIsTimed
  <2> QED BY <1>1, <1>2, <2>1, <2>2, AdvancedMark DEF IsMark
<1>4. ASSUME NEW item \in told, item[1] = "comments"
      PROVE  ~(item[3] > marks'.comments)
  <2>1. item[2] \in DOMAIN posted /\ item[3] \in 1 .. posted[item[2]].at /\ posted[item[2]].at \in Nat
    BY <1>2, <1>4, NowIsTimed DEF ToldInv
  <2>2. \E i \in 1 .. reading.fetched : Endpoints[i] = posted[item[2]].where
    BY <1>2, <2>1, NowIsTimed, WatchAssumption, LenProperties
  <2>3. PICK c \in reading.comments : c.id = item[2] /\ c.at >= item[3]
    BY <1>1, <1>2, <1>4, <2>2 DEF ReadingInv
  <2> QED BY <1>3, <2>1, <2>3
<1>5. ASSUME NEW item \in told, item[1] = "conflict", item[2] = reading.head
      PROVE  item[2] = marks'.conflict
  <2>1. reading.conflicted
    BY <1>1, <1>2, <1>5 DEF ReadingInv
  <2> QED BY <1>1, <1>5, <2>1 DEF Advanced, HasConflict
<1> QED BY <1>1, <1>4, <1>5 DEF Ahead, SeenHead

\* News is told again only after a death or a verdict left the marks behind
\* what was told, and each of those accounts for one repeat.
LEMMA RepeatsKept ==
  ASSUME NewsInv, [Next]_vars
  PROVE  RepeatInv'
<1>0. /\ repeats \in Nat /\ losses \in Nat /\ RepeatInv /\ One(TRUE) = 1 /\ One(FALSE) = 0
      /\ repeats <= losses
      /\ step \notin {"spawned", "added"} /\ Ahead => repeats + 1 <= losses
  BY WatchAssumption DEF NewsInv, RepeatInv, TypeOK, One
<1> USE DEF github, rows, history
<1>1. ASSUME repeats' = repeats, losses' = losses,
             Ahead' /\ step' \notin {"spawned", "added"} => Ahead /\ step \notin {"spawned", "added"}
      PROVE  RepeatInv'
  BY <1>0, <1>1 DEF RepeatInv, One
<1>2. CASE Die \/ RestoreMarks
  <2>1. repeats' = repeats /\ losses' = losses + 1
    BY <1>2 DEF Die, RestoreMarks, Loss
  <2> QED BY <1>0, <2>1 DEF RepeatInv, One
<1>3. CASE SpawnWake
  <2>1. /\ step = "reading" /\ step' = "spawned" /\ losses' = losses
        /\ repeats' = repeats + One(\E item \in News(reading, marks) \cap told : item[1] # "checks")
    BY <1>3 DEF SpawnWake, IsRead
  <2>2. CASE \E item \in News(reading, marks) \cap told : item[1] # "checks"
    <3>1. PICK item \in told : item \in News(reading, marks) /\ item[1] # "checks"
      BY <2>2
    <3>2. \/ item[1] = "comments" /\ item[3] > marks.comments
          \/ item[1] = "conflict" /\ item[2] = reading.head /\ item[2] # marks.conflict
      BY <3>1, NewsItems
    <3>3. SeenHead = reading.head
      BY <2>1 DEF SeenHead
    <3>4. Ahead
      BY <3>1, <3>2, <3>3 DEF Ahead
    <3>5. repeats' = repeats + 1
      BY <2>1, <2>2 DEF One
    <3> QED BY <1>0, <2>1, <3>4, <3>5 DEF RepeatInv, One
  <2>3. CASE ~\E item \in News(reading, marks) \cap told : item[1] # "checks"
    <3>1. repeats' = repeats
      BY <1>0, <2>1, <2>3 DEF One
    <3> QED BY <1>0, <2>1, <3>1 DEF RepeatInv, One
  <2> QED BY <2>2, <2>3
<1>4. CASE AddSession
  BY <1>1, <1>4 DEF AddSession
<1>5. CASE SaveHead
  BY <1>1, <1>5, NothingAhead DEF SaveHead
<1>6. CASE ReportOnly
  <2>1. /\ UNCHANGED <<repeats, losses, told>> /\ step = "reading"
        /\ marks' = Advanced(reading, marks) /\ News(reading, marks) = {}
    BY <1>6 DEF ReportOnly, IsRead
  <2>2. marks'.comments = marks.comments /\ marks'.conflict = marks.conflict
    BY <2>1 DEF Advanced, News
  <2> QED BY <1>1, <2>1, <2>2, AheadStays
<1>7. CASE AdvanceMarks
  <2>1. UNCHANGED <<repeats, losses, told, marks>> /\ step = "recorded"
    BY <1>7 DEF AdvanceMarks, NewsInv, StepInv
  <2> QED BY <1>1, <2>1, AheadStays
<1>8. CASE GitHub \/ AgentPushes \/ SessionExits \/ UNCHANGED vars
  <2>1. UNCHANGED <<repeats, losses, told, marks, step>>
    BY <1>8 DEF GitHub, Comment, ChecksReport, BaseMoves, Approve, AgentPushes, SessionExits, vars
  <2> QED BY <1>1, <2>1, AheadStays
<1>9. CASE \/ Settle \/ SettleOverdue \/ Observe \/ LeaveForNextPass \/ RunOutOfWakes \/ RecordResumed
           \/ \E i \in DOMAIN Endpoints : ReadEndpoint(i)
  <2>1. UNCHANGED <<repeats, losses, told, marks>> /\ step \notin {"spawned", "added"}
    BY <1>9 DEF Settle, SettleOverdue, Observe, LeaveForNextPass, RunOutOfWakes, IsRead, RecordResumed, ReadEndpoint
  <2> QED BY <1>1, <2>1, AheadStays
<1>10. CASE Restart \/ RecordVerdict \/ RecoverByWaking \/ RefuseToWake
  <2>1. UNCHANGED <<repeats, losses, told, marks>> /\ step \notin {"spawned", "added"}
    BY <1>10 DEF Restart, RecordVerdict, RecoverByWaking, RefuseToWake
  <2> QED BY <1>1, <2>1, AheadStays
<1> QED BY <1>2, <1>3, <1>4, <1>5, <1>6, <1>7, <1>8, <1>9, <1>10 DEF Next, Pass, People

\* The invariant holds before the first reading.
LEMMA NewsStart == Init => NewsInv
<1> SUFFICES ASSUME Init PROVE NewsInv
  OBVIOUS
<1> USE DEF Init
<1>1. posted \in Seq(Posting) /\ posted \in Seq([where : {Endpoints[i] : i \in DOMAIN Endpoints}, at : Nat])
  OBVIOUS
<1>2. TypeOK
  <2>1. head \in 1 .. MaxHead /\ wakes \in 0 .. NodeWakes /\ orphans \in Nat /\ losses \in 0 .. MaxLosses
    BY WatchAssumption
  <2>2. DOMAIN marks = Signals
    BY DEF NoMarks, Signals
  <2> QED BY <1>1, <2>1, <2>2 DEF TypeOK, Steps
<1>3. MarksInv
  BY DEF MarksInv, IsMark, Marked, NoMarks, Signals
<1>4. StepInv /\ ToldInv /\ ReadingInv
  BY DEF StepInv, ToldInv, ReadingInv
<1>5. ~Ahead
  BY DEF Ahead
<1>6. RepeatInv /\ AgentsInv
  BY <1>5 DEF RepeatInv, AgentsInv, One
<1> QED BY <1>1, <1>2, <1>3, <1>4, <1>6 DEF NewsInv

\* The inductive invariant, for any number of lists.
THEOREM NewsInductive == Spec => []NewsInv
<1>1. NewsInv /\ [Next]_vars => NewsInv'
  BY CommentsStay, TypesKept, MarksKept, StepsKept, ToldKept, ReadingKept, RepeatsKept, AgentsKept DEF NewsInv
<1> QED BY <1>1, NewsStart, PTL DEF Spec

\* For every cap, any lists of artifacts and any number of comments, heads, deaths
\* and verdicts: a mark stands for news that was told, and what was told is told
\* again only after a death or a verdict (WakeSignals, RestingNodeHandler._wake,
\* NodeRecoveryService).
THEOREM ToldOnceTheorem == Spec => []NewsIsToldOnce
<1>1. NewsInv => NewsIsToldOnce
  <2> SUFFICES ASSUME NewsInv PROVE NewsIsToldOnce
    OBVIOUS
  <2>1. TypeOK
    BY DEF NewsInv
  <2>2. MarkedNewsWasTold
    BY DEF NewsInv, MarksInv, Marked, MarkedNewsWasTold
  <2>3. NewsRepeatsOnlyAfterLosses
    <3>1. repeats \in Nat /\ losses \in Nat
      BY <2>1, WatchAssumption DEF NewsInv, RepeatInv, TypeOK
    <3> QED BY <3>1 DEF NewsInv, RepeatInv, NewsRepeatsOnlyAfterLosses, One
  <2> QED BY <2>1, <2>2, <2>3 DEF NewsIsToldOnce
<1> QED BY <1>1, NewsInductive, PTL

\* As many agents as passes have died, and one, are at work on a node at once
\* (RestingNodeHandler._wake, InProgressNodeHandler._advance).
THEOREM OneAgentTheorem == Spec => []OneAgentUnlessAPassDied
<1>1. NewsInv => OneAgentUnlessAPassDied
  <2> SUFFICES ASSUME NewsInv PROVE OneAgentUnlessAPassDied
    OBVIOUS
  <2>1. orphans \in Nat /\ losses \in Nat /\ alive \in BOOLEAN /\ fresh \in BOOLEAN /\ AgentsInv /\ StepInv
    BY WatchAssumption DEF NewsInv, TypeOK
  <2>2. CASE fresh
    BY <2>1, <2>2 DEF AgentsInv, StepInv, One, OneAgentUnlessAPassDied
  <2>3. CASE ~fresh
    BY <2>1, <2>3 DEF AgentsInv, StepInv, One, OneAgentUnlessAPassDied
  <2> QED BY <2>1, <2>2, <2>3
<1> QED BY <1>1, NewsInductive, PTL
=============================================================================
