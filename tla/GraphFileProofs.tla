--------------------------- MODULE GraphFileProofs ---------------------------
(***************************************************************************)
(* Proofs that a pass keeps to the graph file, whatever is done to the     *)
(* file, the nodes and the clock: only a graph is taken, no node starts    *)
(* within its cooldown, the console shows the start the pass keeps to, and *)
(* a wait is told of once.                                                 *)
(***************************************************************************)
EXTENDS GraphFile, FiniteSetTheorems, WellFoundedInduction, TLAPS

States == {"absent", "pending", "in_progress", "merged", "skipped"}

\* The shapes of the rows and of the notes.
ShapeInv ==
  /\ row \in [Id -> [state : States, updated : Nat, resume : Nat]]
  /\ \A id \in Id : row[id].updated <= clock
  /\ noted \in [Id -> Seq(Nat \X Nat)]

\* Each note of a node tells of a wait that began later than the one before it told
\* of, and its row is younger than them all.
NotedInv ==
  \A id \in Id :
    /\ \A i \in DOMAIN noted[id] : noted[id][i][1] < row[id].updated
    /\ \A i, j \in DOMAIN noted[id] : i < j => noted[id][i][1] < noted[id][j][1]

GraphFileInv == TypeOK /\ ShapeInv /\ NotedInv

-----------------------------------------------------------------------------
(* The latest of several times.                                            *)

\* A bounded set of times has a latest one.
LEMMA MaxIsLatest ==
  ASSUME NEW bound \in Nat, NEW S \in SUBSET (0 .. bound), S # {}
  PROVE  Max(S) \in S /\ Max(S) \in Nat /\ \A t \in S : t <= Max(S)
<1> DEFINE T == {bound - t : t \in S}
<1>1. \A t \in S : t \in Nat /\ t <= bound
  OBVIOUS
<1>2. T \subseteq Nat /\ T # {}
  <2>1. \A t \in S : bound - t \in Nat
    BY <1>1
  <2> QED
    BY <2>1
<1>3. PICK y \in T : \A z \in T : ~(<<z, y>> \in OpToRel(<, Nat))
  <2> HIDE DEF T
  <2> QED
    BY <1>2, NatLessThanWellFounded, WFMin
<1>4. PICK s \in S : y = bound - s
  OBVIOUS
<1>5. ASSUME NEW t \in S PROVE s >= t
  <2>1. bound - t \in T /\ bound - t \in Nat /\ y \in Nat
    BY <1>2
  <2>2. ~(bound - t < y)
    BY <1>3, <2>1 DEF OpToRel
  <2> QED
    BY <1>1, <1>4, <2>2
<1>6. Max(S) \in S /\ \A t \in S : Max(S) >= t
  BY <1>5 DEF Max
<1> QED
  BY <1>1, <1>6

-----------------------------------------------------------------------------
(* The file.                                                               *)

\* The entry of a name is one of the file that bears it.
LEMMA EntryBearsTheName ==
  ASSUME TypeOK, NEW id \in Ids
  PROVE  /\ id \in Id
         /\ EntryOf(id) \in DOMAIN file.nodes
         /\ file.nodes[EntryOf(id)] \in Entry
         /\ file.nodes[EntryOf(id)].id = id
         /\ DependsOn[id] \in SUBSET Id
         /\ Cooldown(id) \in Nat
<1> DEFINE I == {i \in 1 .. Len(file.nodes) : file.nodes[i].id = id}
<1>1. file.nodes \in Seq(Entry) /\ Len(file.nodes) \in Nat
  BY DEF TypeOK, File
<1>2. PICK i \in DOMAIN file.nodes : file.nodes[i].id = id
  BY DEF Ids, Entries
<1>3. i \in I /\ I \subseteq 0 .. Len(file.nodes)
  BY <1>1, <1>2
<1>4. EntryOf(id) = Max(I)
  BY <1>3 DEF EntryOf, SelectLastInSeq
<1>5. Max(I) \in I
  <2> HIDE DEF I
  <2> QED
    BY <1>1, <1>3, MaxIsLatest
<1>6. /\ EntryOf(id) \in DOMAIN file.nodes
      /\ file.nodes[EntryOf(id)] \in Entry
      /\ file.nodes[EntryOf(id)].id = id
  <2>1. EntryOf(id) \in 1 .. Len(file.nodes) /\ file.nodes[EntryOf(id)].id = id
    BY <1>4, <1>5
  <2>2. DOMAIN file.nodes = 1 .. Len(file.nodes)
    BY <1>1
  <2> QED
    BY <1>1, <2>1, <2>2
<1> HIDE DEF I
<1>7. DependsOn[id] = file.nodes[EntryOf(id)].deps /\ Cooldown(id) \in Cooldowns
  BY <1>6 DEF DependsOn, Cooldown, Entry
<1> QED
  BY <1>6, <1>7, GraphFileAssumption DEF Entry

\* f is the elimination of the nodes S, with the dependencies D, over n rounds.
IsElimination(f, S, D, n) ==
  f = [k \in 0 .. n |->
         IF k = 0 THEN S ELSE {x \in f[k - 1] : D[x] \cap f[k - 1] # {}}]

\* The elimination has a value for every number of rounds: it begins with all nodes
\* and each round is made of the round before.
LEMMA EliminationIsDefined ==
  ASSUME NEW S, NEW D, NEW n \in Nat
  PROVE  \E f : IsElimination(f, S, D, n)
<1> DEFINE P(m) == \E f : IsElimination(f, S, D, m)
           B == {m \in Nat : ~P(m)}
<1> SUFFICES ASSUME B # {} PROVE FALSE
  OBVIOUS
<1>1. PICK m \in B : \A z \in B : ~(<<z, m>> \in OpToRel(<, Nat))
  <2>1. B \subseteq Nat
    OBVIOUS
  <2> HIDE DEF B
  <2> QED
    BY <2>1, NatLessThanWellFounded, WFMin
<1>2. P(0)
  <2>1. [k \in 0 .. 0 |-> S] = [k \in 0 .. 0 |->
           IF k = 0 THEN S ELSE {x \in [j \in 0 .. 0 |-> S][k - 1] : D[x] \cap [j \in 0 .. 0 |-> S][k - 1] # {}}]
    OBVIOUS
  <2>2. IsElimination([k \in 0 .. 0 |-> S], S, D, 0)
    BY <2>1 DEF IsElimination
  <2> QED
    BY <2>2
<1>3. m # 0 /\ m \in Nat /\ ~P(m)
  <2>1. m \in Nat /\ ~P(m)
    OBVIOUS
  <2> HIDE DEF P, B
  <2> QED
    BY <1>2, <2>1
<1>4. m - 1 \in Nat /\ m - 1 < m
  BY <1>3
<1>5. P(m - 1)
  <2>1. m - 1 \notin B
    BY <1>1, <1>3, <1>4 DEF OpToRel
  <2> QED
    BY <1>4, <2>1
<1>6. PICK f : f = [k \in 0 .. m - 1 |->
                      IF k = 0 THEN S ELSE {x \in f[k - 1] : D[x] \cap f[k - 1] # {}}]
  BY <1>5 DEF IsElimination
<1> DEFINE g == [k \in 0 .. m |-> IF k = m THEN {x \in f[m - 1] : D[x] \cap f[m - 1] # {}} ELSE f[k]]
<1>7. ASSUME NEW k \in 0 .. m
      PROVE  g[k] = IF k = 0 THEN S ELSE {x \in g[k - 1] : D[x] \cap g[k - 1] # {}}
  <2>1. CASE k = m
    <3>1. g[k - 1] = f[m - 1]
      BY <1>3, <2>1
    <3>2. g[k] = {x \in f[m - 1] : D[x] \cap f[m - 1] # {}}
      BY <1>3, <2>1
    <3> QED
      BY <1>3, <2>1, <3>1, <3>2
  <2>2. CASE k = 0
    <3>1. g[k] = f[0]
      BY <1>3, <2>2
    <3>2. f[0] = S
      BY <1>3, <1>4, <1>6
    <3> QED
      BY <2>2, <3>1, <3>2
  <2>3. CASE k # m /\ k # 0
    <3>1. k \in 0 .. m - 1 /\ k - 1 \in 0 .. m - 1 /\ k - 1 \in 0 .. m /\ k - 1 # m
      BY <1>3, <2>3
    <3>2. f[k] = {x \in f[k - 1] : D[x] \cap f[k - 1] # {}}
      BY <1>6, <2>3, <3>1
    <3>3. g[k] = f[k] /\ g[k - 1] = f[k - 1]
      BY <2>3, <3>1
    <3> QED
      BY <2>3, <3>2, <3>3
  <2> QED
    BY <2>1, <2>2, <2>3
<1>8. g = [k \in 0 .. m |-> g[k]]
  OBVIOUS
<1> HIDE DEF g
<1>9. g = [k \in 0 .. m |-> IF k = 0 THEN S ELSE {x \in g[k - 1] : D[x] \cap g[k - 1] # {}}]
  BY <1>7, <1>8
<1>10. P(m)
  <2>1. IsElimination(g, S, D, m)
    BY <1>9 DEF IsElimination
  <2> QED
    BY <2>1
<1> QED
  BY <1>3, <1>10

\* A set of nodes each of which waits for one of them survives the elimination
\* (the cycle validator finds every cycle).
LEMMA CyclesSurvive ==
  ASSUME IsFiniteSet(Ids),
         NEW S \in SUBSET Ids, \A id \in S : DependsOn[id] \cap S # {}
  PROVE  S \subseteq CycleMembers
<1> DEFINE N == Cardinality(Ids)
           Left == CHOOSE f : f = [k \in 0 .. N |->
                     IF k = 0 THEN Ids ELSE {x \in f[k - 1] : DependsOn[x] \cap f[k - 1] # {}}]
           Bad == {k \in 0 .. N : ~(S \subseteq Left[k])}
<1>1. N \in Nat
  BY FS_CardinalityType
<1>2. CycleMembers = Left[N]
  BY DEF CycleMembers
<1>3. Left = [k \in 0 .. N |->
               IF k = 0 THEN Ids ELSE {x \in Left[k - 1] : DependsOn[x] \cap Left[k - 1] # {}}]
  <2>1. Left = CHOOSE f : IsElimination(f, Ids, DependsOn, N)
    BY Zenon DEF IsElimination
  <2>2. \E f : IsElimination(f, Ids, DependsOn, N)
    <3> HIDE DEF N
    <3> QED
      BY <1>1, EliminationIsDefined
  <2>3. IsElimination(Left, Ids, DependsOn, N)
    <3> HIDE DEF N, Left
    <3> QED
      BY <2>1, <2>2
  <2> HIDE DEF N, Left
  <2> QED
    BY <2>3 DEF IsElimination
<1> HIDE DEF N, Left
<1>4. Bad = {}
  <2> SUFFICES ASSUME Bad # {} PROVE FALSE
    OBVIOUS
  <2>1. Bad \subseteq Nat
    BY <1>1
  <2>2. PICK k \in Bad : \A z \in Bad : ~(<<z, k>> \in OpToRel(<, Nat))
    <3> HIDE DEF Bad
    <3> QED
      BY <2>1, NatLessThanWellFounded, WFMin
  <2>3. k \in 0 .. N /\ ~(S \subseteq Left[k])
    OBVIOUS
  <2>4. k # 0
    BY <1>1, <1>3, <2>3
  <2>5. k - 1 \in 0 .. N /\ k - 1 < k /\ k - 1 \in Nat /\ k \in Nat
    BY <1>1, <2>3, <2>4
  <2>6. S \subseteq Left[k - 1]
    <3>1. k - 1 \notin Bad
      BY <2>2, <2>5 DEF OpToRel
    <3> QED
      BY <2>5, <3>1
  <2>7. Left[k] = {x \in Left[k - 1] : DependsOn[x] \cap Left[k - 1] # {}}
    BY <1>3, <2>3, <2>4
  <2> QED
    BY <2>3, <2>6, <2>7
<1>5. N \in 0 .. N
  BY <1>1
<1> QED
  BY <1>2, <1>4, <1>5

\* A file that passes the validators is a graph: every node is named once, waits for
\* nodes of the file, and some node of any set waits for none of it.
LEMMA AcceptedIsAGraph ==
  ASSUME TypeOK
  PROVE  AcceptedFileIsAGraph
<1> SUFFICES ASSUME Accepted PROVE
      /\ Cardinality(Ids) = Len(file.nodes)
      /\ DependsOn \in [Ids -> SUBSET Ids]
      /\ \A S \in SUBSET Ids : S # {} => \E id \in S : DependsOn[id] \cap S = {}
  BY DEF AcceptedFileIsAGraph
<1>1. /\ DuplicatedIds = {} /\ UnknownDependencies = {} /\ CycleMembers = {}
      /\ file.nodes \in Seq(Entry) /\ Len(file.nodes) \in Nat
      /\ DOMAIN file.nodes = 1 .. Len(file.nodes)
  BY DEF Accepted, NoFindings, TypeOK, File
<1>2. IsFiniteSet(Ids) /\ Cardinality(Ids) = Len(file.nodes)
  <2> DEFINE name == [i \in 1 .. Len(file.nodes) |-> file.nodes[i].id]
  <2>1. Ids = {file.nodes[i].id : i \in 1 .. Len(file.nodes)}
    BY <1>1 DEF Ids, Entries
  <2>2. name \in Surjection(1 .. Len(file.nodes), Ids)
    BY <2>1 DEF Surjection
  <2>3. name \in Injection(1 .. Len(file.nodes), Ids)
    <3>1. ASSUME NEW i \in 1 .. Len(file.nodes), NEW j \in 1 .. Len(file.nodes),
                 name[i] = name[j]
          PROVE  i = j
      BY <1>1, <2>1, <3>1 DEF DuplicatedIds
    <3> QED
      BY <2>1, <3>1 DEF Injection, IsInjective
  <2>4. IsFiniteSet(1 .. Len(file.nodes)) /\ Cardinality(1 .. Len(file.nodes)) = Len(file.nodes)
    <3>1. 1 \in Int /\ Len(file.nodes) \in Int
      BY <1>1
    <3>2. Cardinality(1 .. Len(file.nodes)) =
            IF 1 > Len(file.nodes) THEN 0 ELSE Len(file.nodes) - 1 + 1
      BY <3>1, FS_Interval
    <3> QED
      BY <1>1, <3>1, <3>2, FS_Interval
  <2> HIDE DEF name
  <2> QED
    BY <2>2, <2>3, <2>4, FS_Surjection
<1>3. DependsOn \in [Ids -> SUBSET Ids]
  <2> SUFFICES ASSUME NEW id \in Ids PROVE DependsOn[id] \in SUBSET Ids
    BY DEF DependsOn
  <2>1. file.nodes[EntryOf(id)] \in Entries /\ DependsOn[id] = file.nodes[EntryOf(id)].deps
    BY EntryBearsTheName DEF Entries, DependsOn
  <2> QED
    BY <1>1, <2>1 DEF UnknownDependencies
<1>4. ASSUME NEW S \in SUBSET Ids, S # {}, \A id \in S : DependsOn[id] \cap S # {}
      PROVE  FALSE
  BY <1>1, <1>2, <1>4, CyclesSurvive
<1> QED
  BY <1>2, <1>3, <1>4


-----------------------------------------------------------------------------
(* The start time.                                                         *)

\* What a pass sweeps is a node of a graph.
LEMMA SweptIsInTheFile ==
  ASSUME TypeOK, NEW state, NEW id \in Swept(state)
  PROVE  Accepted /\ id \in Ids /\ id \in Id /\ row[id].state = state
<1>1. Accepted /\ id \in Ids /\ row[id].state = state
  BY DEF Swept
<1> QED
  BY <1>1, EntryBearsTheName

\* A node's dependencies are nodes of the file, and one that the file states is
\* there unless it is skipped.
LEMMA DependenciesAreKnown ==
  ASSUME TypeOK, Accepted, NEW id \in Ids
  PROVE  /\ Dependencies(id) \subseteq Ids
         /\ Ids \subseteq Id
         /\ DependsOn[id] \subseteq Ids
         /\ DependsOn[id] \ InState("skipped") \subseteq Dependencies(id)
<1>1. DependsOn \in [Ids -> SUBSET Ids]
  BY AcceptedIsAGraph DEF AcceptedFileIsAGraph
<1>2. Ids \subseteq Id
  BY EntryBearsTheName
<1> QED
  BY <1>1, <1>2 DEF Dependencies, G!EffectiveDependencies, G!ResolvedDependencies, G!ResolvedWithin

\* The nodes handed in that count for the cooldown of a node: those that ended.
Ended(id, nodes) ==
  {n \in nodes : /\ n \in DependsOn[id] \cup Dependencies(id)
                 /\ row[n].state \in {"merged", "skipped"}}

\* The start time is no earlier than the time to resume at, nor than the cooldown
\* after the end of any dependency that is handed in (start_time of a pending node).
LEMMA StartTimeIsLatest ==
  ASSUME GraphFileInv, NEW id \in Ids, NEW nodes \in SUBSET Id
  PROVE  /\ StartTime(id, nodes) \in Nat
         /\ id \in nodes => row[id].resume <= StartTime(id, nodes)
         /\ Cooldown(id) # 0 =>
              \A n \in Ended(id, nodes) : row[n].updated + Cooldown(id) <= StartTime(id, nodes)
<1> DEFINE U == {row[n].updated : n \in Ended(id, nodes)}
           C == CooldownStart(id, nodes)
           R == {row[n].resume : n \in nodes \cap {id}}
           bound == clock + Cooldown(id) + row[id].resume
<1>1. id \in Id /\ Cooldown(id) \in Nat /\ clock \in Nat
  BY EntryBearsTheName, GraphFileAssumption DEF GraphFileInv, TypeOK
<1>2. \A n \in Id : row[n].updated \in Nat /\ row[n].resume \in Nat /\ row[n].updated <= clock
  BY DEF GraphFileInv, ShapeInv
<1>3. bound \in Nat /\ R \subseteq {row[id].resume}
  BY <1>1, <1>2
<1>4. U \subseteq 0 .. clock
  BY <1>1, <1>2 DEF Ended
<1>5. U # {} => Max(U) \in U /\ Max(U) \in 0 .. clock /\ \A t \in U : t <= Max(U)
  <2> HIDE DEF U
  <2> QED
    BY <1>1, <1>4, MaxIsLatest
<1>6. C = IF Cooldown(id) = 0 \/ Ended(id, nodes) = {} THEN {} ELSE {Max(U) + Cooldown(id)}
  BY DEF CooldownStart, Ended
<1>7. StartTime(id, nodes) = Max({0} \cup C \cup R)
  BY DEF StartTime, Never
<1>8. C \subseteq 0 .. bound
  <2>1. CASE C = {}
    BY <2>1
  <2>2. CASE C = {Max(U) + Cooldown(id)} /\ U # {}
    <3> HIDE DEF U, C
    <3>1. Max(U) \in Nat /\ Max(U) <= clock
      BY <1>5, <2>2
    <3> QED
      BY <1>1, <1>2, <2>2, <3>1
  <2>3. Ended(id, nodes) # {} => U # {}
    OBVIOUS
  <2> HIDE DEF U, C
  <2> QED
    BY <1>6, <2>1, <2>2, <2>3
<1>9. {0} \cup C \cup R \subseteq 0 .. bound
  <2> HIDE DEF C, R
  <2>1. row[id].resume \in 0 .. bound /\ 0 \in 0 .. bound
    BY <1>1, <1>2
  <2> HIDE DEF bound
  <2> QED
    BY <1>3, <1>8, <2>1
<1>10. /\ StartTime(id, nodes) \in Nat
       /\ \A t \in {0} \cup C \cup R : t <= StartTime(id, nodes)
  <2> HIDE DEF C, R, bound
  <2> QED
    BY <1>3, <1>7, <1>9, MaxIsLatest
<1>11. ASSUME id \in nodes PROVE row[id].resume <= StartTime(id, nodes)
  <2>1. row[id].resume \in R
    BY <1>11
  <2> HIDE DEF R
  <2> QED
    BY <1>10, <2>1
<1>12. ASSUME Cooldown(id) # 0, NEW n \in Ended(id, nodes)
       PROVE  row[n].updated + Cooldown(id) <= StartTime(id, nodes)
  <2>1. row[n].updated \in U /\ n \in Id
    BY DEF Ended
  <2> HIDE DEF U, C, R
  <2>2. row[n].updated <= Max(U) /\ Max(U) \in Nat /\ row[n].updated \in Nat
    BY <1>2, <1>5, <2>1
  <2>3. Max(U) + Cooldown(id) <= StartTime(id, nodes)
    BY <1>6, <1>10, <1>12
  <2> QED
    BY <1>1, <1>10, <2>2, <2>3
<1> QED
  BY <1>10, <1>11, <1>12

\* The nodes a pass hands in hold every dependency that ended.
LEMMA PassNodesHoldTheEnded ==
  ASSUME TypeOK, Accepted, NEW id \in Ids
  PROVE  /\ PassNodes(id) \in SUBSET Id
         /\ id \in PassNodes(id)
         /\ \A d \in DependsOn[id] \cup Dependencies(id) :
              row[d].state \in {"merged", "skipped"} => d \in Ended(id, PassNodes(id))
<1>1. /\ Dependencies(id) \subseteq Ids
      /\ Ids \subseteq Id
      /\ DependsOn[id] \subseteq Ids
      /\ DependsOn[id] \ InState("skipped") \subseteq Dependencies(id)
  BY DependenciesAreKnown
<1> QED
  BY <1>1 DEF PassNodes, InState, Ended

\* The start time the console shows is the one the pass keeps to: the nodes the two
\* hand in hold the same dependencies that ended.
LEMMA ConsoleShowsIt ==
  ASSUME GraphFileInv
  PROVE  ConsoleShowsTheStart
<1> SUFFICES ASSUME NEW id \in Swept("pending")
             PROVE  ConsoleStart(id) = StartTime(id, PassNodes(id))
  BY DEF ConsoleShowsTheStart
<1>1. TypeOK
  BY DEF GraphFileInv
<1>2. Accepted /\ id \in Ids /\ id \in Id /\ row[id].state = "pending"
  BY <1>1, SweptIsInTheFile
<1>3. /\ PassNodes(id) \in SUBSET Id
      /\ id \in PassNodes(id)
      /\ \A d \in DependsOn[id] \cup Dependencies(id) :
           row[d].state \in {"merged", "skipped"} => d \in Ended(id, PassNodes(id))
  BY <1>1, <1>2, PassNodesHoldTheEnded
<1>4. id \in ConsoleNodes(id)
  BY <1>2 DEF ConsoleNodes, Absent
<1>5. Ended(id, ConsoleNodes(id)) = Ended(id, PassNodes(id))
  <2>1. Ended(id, ConsoleNodes(id)) \subseteq Ended(id, PassNodes(id))
    BY <1>3 DEF Ended
  <2>2. ASSUME NEW n \in Ended(id, PassNodes(id)) PROVE n \in ConsoleNodes(id)
    BY <1>3 DEF Ended, ConsoleNodes, Absent
  <2> QED
    BY <2>1, <2>2 DEF Ended
<1>6. CooldownStart(id, ConsoleNodes(id)) = CooldownStart(id, PassNodes(id))
  <2>1. ASSUME NEW nodes
        PROVE  CooldownStart(id, nodes) =
                 IF Cooldown(id) = 0 \/ Ended(id, nodes) = {} THEN {}
                 ELSE {Max({row[n].updated : n \in Ended(id, nodes)}) + Cooldown(id)}
    BY DEF CooldownStart, Ended
  <2> QED
    BY <1>5, <2>1
<1>7. ConsoleNodes(id) \cap {id} = PassNodes(id) \cap {id}
  BY <1>3, <1>4
<1> QED
  BY <1>6, <1>7 DEF ConsoleStart, StartTime

-----------------------------------------------------------------------------
(* The invariant and the steps.                                            *)

\* A row is only ever written with the time of the write.
LEMMA RecordKeeps ==
  ASSUME GraphFileInv, NEW id \in Id, NEW state \in States, NEW resume \in 0 .. MaxTime,
         resume # 0 => state = "pending",
         Record(id, state, resume), UNCHANGED <<file, clock>>
  PROVE  /\ TypeOK'
         /\ row' \in [Id -> [state : States, updated : Nat, resume : Nat]]
         /\ \A n \in Id : row'[n].updated <= clock'
         /\ \A n \in Id : n # id => row'[n] = row[n]
         /\ row'[id].updated = clock
<1> USE GraphFileAssumption
<1>1. clock \in Nat /\ clock \in 1 .. MaxTime /\ resume \in Nat
  BY DEF GraphFileInv, TypeOK
<1>2. StateRow(id, state, resume) \in [state : States, updated : Nat, resume : Nat]
  BY <1>1 DEF StateRow
<1>3. /\ row' \in [Id -> [state : States, updated : Nat, resume : Nat]]
      /\ \A n \in Id : n # id => row'[n] = row[n]
      /\ row'[id] = StateRow(id, state, resume)
  BY <1>2 DEF Record, GraphFileInv, ShapeInv
<1>4. row'[id].state = state /\ row'[id].updated = clock /\ row'[id].resume = resume
  BY <1>3 DEF StateRow
<1>5. ASSUME NEW n \in Id
      PROVE  /\ row'[n].state \in States
             /\ row'[n].updated \in 0 .. clock
             /\ row'[n].resume # 0 => row'[n].state = "pending" /\ row'[n].resume \in 1 .. MaxTime
  <2>1. CASE n = id
    BY <1>1, <1>4, <2>1
  <2>2. CASE n # id
    BY <1>3, <2>2 DEF GraphFileInv, TypeOK, States, Never
  <2> QED
    BY <2>1, <2>2
<1>6. TypeOK'
  <2>1. file' \in File /\ clock' \in 1 .. MaxTime
    BY <1>1 DEF GraphFileInv, TypeOK
  <2>2. \A n \in Id :
          /\ row'[n].state \in {"absent", "pending", "in_progress", "merged", "skipped"}
          /\ row'[n].updated \in 0 .. clock'
          /\ row'[n].resume # Never =>
               row'[n].state = "pending" /\ row'[n].resume \in 1 .. MaxTime
    BY <1>5 DEF States, Never
  <2> QED
    BY <2>1, <2>2 DEF TypeOK
<1>7. \A n \in Id : row'[n].updated <= clock'
  BY <1>1, <1>5
<1> QED
  BY <1>3, <1>4, <1>6, <1>7

\* A step that writes a row and notes nothing keeps the invariant.
LEMMA RecordKeepsAll ==
  ASSUME GraphFileInv, NEW id \in Id, NEW state \in States, NEW resume \in 0 .. MaxTime,
         resume # 0 => state = "pending",
         Record(id, state, resume), UNCHANGED <<file, clock, noted>>
  PROVE  GraphFileInv'
<1>1. /\ TypeOK'
      /\ row' \in [Id -> [state : States, updated : Nat, resume : Nat]]
      /\ \A n \in Id : row'[n].updated <= clock'
      /\ \A n \in Id : n # id => row'[n] = row[n]
      /\ row'[id].updated = clock
  BY RecordKeeps
<1>2. ShapeInv'
  BY <1>1 DEF GraphFileInv, ShapeInv
<1>3. ASSUME NEW n \in Id PROVE row[n].updated <= row'[n].updated
  <2>1. row[n].updated \in Nat /\ row[n].updated <= clock
    BY DEF GraphFileInv, ShapeInv
  <2>2. CASE n = id
    BY <1>1, <2>1, <2>2
  <2>3. CASE n # id
    <3>1. row'[n] = row[n]
      BY <1>1, <2>3
    <3> QED
      BY <2>1, <3>1
  <2> QED
    BY <2>2, <2>3
<1>4. NotedInv'
  <2> SUFFICES ASSUME NEW n \in Id, NEW i \in DOMAIN noted[n]
               PROVE  noted[n][i][1] < row'[n].updated
    BY DEF GraphFileInv, NotedInv
  <2>1. noted[n][i] \in Nat \X Nat
    BY DEF GraphFileInv, ShapeInv
  <2>2. noted[n][i][1] \in Nat /\ row[n].updated \in Nat /\ row'[n].updated \in Nat
    BY <1>1, <2>1 DEF GraphFileInv, ShapeInv
  <2> QED
    BY <1>3, <2>2 DEF GraphFileInv, NotedInv
<1> QED
  BY <1>1, <1>2, <1>4 DEF GraphFileInv

\* The notes with one more at their end.
LEMMA NoteAppended ==
  ASSUME NEW S, NEW s \in Seq(S), NEW e \in S
  PROVE  /\ Len(s) \in Nat
         /\ DOMAIN Append(s, e) = DOMAIN s \cup {Len(s) + 1}
         /\ Append(s, e)[Len(s) + 1] = e
         /\ \A i \in DOMAIN s : i \in Nat /\ i < Len(s) + 1 /\ Append(s, e)[i] = s[i]
OBVIOUS

\* A note is of a wait that began later than what was noted before.
LEMMA NoteKeepsAll ==
  ASSUME GraphFileInv, NEW id \in Id, NoteWait(id)
  PROVE  GraphFileInv'
<1> USE GraphFileAssumption
<1> DEFINE start == StartTime(id, PassNodes(id))
           from == start - Cooldown(id)
           note == <<from, start>>
<1>1. TypeOK
  BY DEF GraphFileInv
<1>2. Accepted /\ id \in Ids
  BY <1>1, SweptIsInTheFile DEF NoteWait
<1>3. start \in Nat /\ Cooldown(id) \in Nat
  BY <1>1, <1>2, StartTimeIsLatest, PassNodesHoldTheEnded, EntryBearsTheName
<1>4. /\ Record(id, "pending", 0) /\ UNCHANGED <<file, clock>>
      /\ row[id].updated <= from /\ from < clock
      /\ noted' = [noted EXCEPT ![id] = Append(@, note)]
  <2>1. row[id].updated <= from
    BY DEF NoteWait, MayNote
  <2>2. clock > from /\ clock \in Nat
    BY DEF NoteWait, GraphFileInv, TypeOK
  <2>3. from \in Int
    BY <1>3
  <2>4. Record(id, "pending", 0) /\ UNCHANGED <<file, clock>>
        /\ noted' = [noted EXCEPT ![id] = Append(@, note)]
    BY DEF NoteWait, Never
  <2> HIDE DEF from
  <2> QED
    BY <2>1, <2>2, <2>3, <2>4
<1>5. /\ row[id].updated \in Nat /\ clock \in Nat /\ noted[id] \in Seq(Nat \X Nat)
      /\ noted \in [Id -> Seq(Nat \X Nat)]
  BY DEF GraphFileInv, ShapeInv, TypeOK
<1>6. from \in Nat /\ note \in Nat \X Nat /\ note[1] = from
  BY <1>3, <1>4, <1>5
<1> HIDE DEF note, from, start
<1>7. /\ TypeOK'
      /\ row' \in [Id -> [state : States, updated : Nat, resume : Nat]]
      /\ \A n \in Id : row'[n].updated <= clock'
      /\ \A n \in Id : n # id => row'[n] = row[n]
      /\ row'[id].updated = clock
  BY <1>4, RecordKeeps DEF States
<1>8. /\ noted' \in [Id -> Seq(Nat \X Nat)]
      /\ \A n \in Id : n # id => noted'[n] = noted[n]
      /\ noted'[id] = Append(noted[id], note)
  BY <1>4, <1>5, <1>6
<1>9. /\ Len(noted[id]) \in Nat
      /\ DOMAIN noted'[id] = DOMAIN noted[id] \cup {Len(noted[id]) + 1}
      /\ noted'[id][Len(noted[id]) + 1] = note
      /\ \A i \in DOMAIN noted[id] :
           i \in Nat /\ i < Len(noted[id]) + 1 /\ noted'[id][i] = noted[id][i]
  BY <1>5, <1>6, <1>8, NoteAppended
<1>10. ASSUME NEW i \in DOMAIN noted[id] PROVE noted[id][i][1] \in Nat /\ noted[id][i][1] < from
  <2>1. noted[id][i] \in Nat \X Nat
    BY <1>5
  <2>2. noted[id][i][1] < row[id].updated
    BY DEF GraphFileInv, NotedInv
  <2> QED
    BY <1>4, <1>5, <1>6, <2>1, <2>2
<1>11. ASSUME NEW n \in Id
       PROVE  /\ \A i \in DOMAIN noted'[n] : noted'[n][i][1] < row'[n].updated
              /\ \A i, j \in DOMAIN noted'[n] : i < j => noted'[n][i][1] < noted'[n][j][1]
  <2>1. CASE n # id
    BY <1>7, <1>8, <2>1 DEF GraphFileInv, NotedInv
  <2>2. CASE n = id
    <3>1. ASSUME NEW i \in DOMAIN noted'[n] PROVE noted'[n][i][1] < row'[n].updated
      <4>1. CASE i \in DOMAIN noted[id]
        BY <1>4, <1>5, <1>6, <1>7, <1>9, <1>10, <2>2, <4>1
      <4>2. CASE i = Len(noted[id]) + 1
        BY <1>4, <1>6, <1>7, <1>9, <2>2, <4>2
      <4> QED
        BY <1>9, <2>2, <4>1, <4>2
    <3>2. ASSUME NEW i \in DOMAIN noted'[n], NEW j \in DOMAIN noted'[n], i < j
          PROVE  noted'[n][i][1] < noted'[n][j][1]
      <4>1. CASE j \in DOMAIN noted[id]
        <5>1. i \in DOMAIN noted[id]
          BY <1>9, <2>2, <3>2, <4>1
        <5> QED
          BY <1>9, <2>2, <3>2, <4>1, <5>1 DEF GraphFileInv, NotedInv
      <4>2. CASE j = Len(noted[id]) + 1
        <5>1. i \in DOMAIN noted[id]
          BY <1>9, <2>2, <3>2, <4>2
        <5> QED
          BY <1>6, <1>9, <1>10, <2>2, <4>2, <5>1
      <4> QED
        BY <1>9, <2>2, <4>1, <4>2
    <3> QED
      BY <3>1, <3>2
  <2> QED
    BY <2>1, <2>2
<1>12. NotedInv' /\ ShapeInv'
  BY <1>7, <1>8, <1>11 DEF NotedInv, ShapeInv
<1> QED
  BY <1>7, <1>12 DEF GraphFileInv

\* A person's edit leaves a file of entries.
LEMMA EditedIsAFile ==
  ASSUME TypeOK, Edit
  PROVE  file' \in File
<1>1. file \in File /\ file.nodes \in Seq(Entry) /\ file.root \in BOOLEAN
  BY DEF TypeOK, File
<1>2. CASE file' = [file EXCEPT !.root = ~@]
  BY <1>1, <1>2 DEF File
<1>3. ASSUME NEW i \in DOMAIN file.nodes, file' = [file EXCEPT !.nodes = RemoveAt(@, i)]
      PROVE  file' \in File
  <2>1. RemoveAt(file.nodes, i) \in Seq(Entry)
    <3>1. i \in 1 .. Len(file.nodes) /\ Len(file.nodes) \in Nat
      BY <1>1
    <3>2. SubSeq(file.nodes, 1, i - 1) \in Seq(Entry)
      BY <1>1, <3>1
    <3>3. SubSeq(file.nodes, i + 1, Len(file.nodes)) \in Seq(Entry)
      BY <1>1, <3>1
    <3> QED
      BY <3>2, <3>3 DEF RemoveAt
  <2> QED
    BY <1>1, <1>3, <2>1 DEF File
<1>4. ASSUME NEW i \in DOMAIN file.nodes, NEW entry \in EditedEntries(file.nodes[i]),
             file' = [file EXCEPT !.nodes[i] = entry]
      PROVE  file' \in File
  <2>1. file.nodes[i] \in Entry
    BY <1>1
  <2>2. entry \in Entry
    BY <2>1 DEF EditedEntries, Entry
  <2>3. [file.nodes EXCEPT ![i] = entry] \in Seq(Entry)
    BY <1>1, <2>2
  <2> QED
    BY <1>1, <1>4, <2>3 DEF File
<1> QED
  BY <1>2, <1>3, <1>4 DEF Edit

\* Every step keeps the invariant.
LEMMA GraphFileStep ==
  ASSUME GraphFileInv, [Next]_vars
  PROVE  GraphFileInv'
<1> USE GraphFileAssumption
<1>1. CASE UNCHANGED vars
  BY <1>1 DEF vars, GraphFileInv, TypeOK, ShapeInv, NotedInv
<1>2. CASE EnsureRows
  <2>1. clock \in Nat /\ clock \in 1 .. MaxTime /\ UNCHANGED <<file, clock, noted>>
    BY <1>2 DEF EnsureRows, GraphFileInv, TypeOK
  <2>2. StateRow("x", "pending", 0) = [state |-> "pending", updated |-> clock, resume |-> 0]
        /\ StateRow("x", "pending", 0) \in [state : States, updated : Nat, resume : Nat]
    BY <2>1 DEF StateRow, States
  <2>3. row' = [id \in Id |-> IF id \in Ids /\ row[id] = Absent
                              THEN StateRow("x", "pending", 0) ELSE row[id]]
    BY <1>2 DEF EnsureRows, StateRow, Never
  <2>4. row' \in [Id -> [state : States, updated : Nat, resume : Nat]]
    <3> HIDE DEF StateRow
    <3> QED
      BY <2>2, <2>3 DEF GraphFileInv, ShapeInv
  <2>5. ASSUME NEW n \in Id
        PROVE  /\ row'[n].state \in States
               /\ row'[n].updated \in 0 .. clock
               /\ row[n].updated <= row'[n].updated
               /\ row'[n].resume # 0 =>
                    row'[n].state = "pending" /\ row'[n].resume \in 1 .. MaxTime
    <3>1. CASE row'[n] = StateRow("x", "pending", 0) /\ row[n] = Absent
      BY <2>1, <2>2, <3>1 DEF Absent, Never, States
    <3>2. CASE row'[n] = row[n]
      BY <2>1, <3>2 DEF GraphFileInv, TypeOK, ShapeInv, States, Never
    <3> QED
      BY <2>3, <3>1, <3>2
  <2>6. TypeOK'
    <3>1. file' \in File /\ clock' \in 1 .. MaxTime
      BY <2>1 DEF GraphFileInv, TypeOK
    <3>2. \A n \in Id :
            /\ row'[n].state \in {"absent", "pending", "in_progress", "merged", "skipped"}
            /\ row'[n].updated \in 0 .. clock'
            /\ row'[n].resume # Never =>
                 row'[n].state = "pending" /\ row'[n].resume \in 1 .. MaxTime
      BY <2>1, <2>5 DEF States, Never
    <3> QED
      BY <3>1, <3>2 DEF TypeOK
  <2>7. ShapeInv'
    BY <2>1, <2>4, <2>5 DEF GraphFileInv, ShapeInv
  <2>8. NotedInv'
    <3> SUFFICES ASSUME NEW n \in Id, NEW i \in DOMAIN noted[n]
                 PROVE  noted[n][i][1] < row'[n].updated
      BY <2>1 DEF GraphFileInv, NotedInv
    <3>1. noted[n][i] \in Nat \X Nat
      BY DEF GraphFileInv, ShapeInv
    <3>2. noted[n][i][1] \in Nat /\ row[n].updated \in Nat /\ row'[n].updated \in Nat
      BY <2>4, <3>1 DEF GraphFileInv, ShapeInv
    <3> QED
      BY <2>5, <3>2 DEF GraphFileInv, NotedInv
  <2> QED
    BY <2>6, <2>7, <2>8 DEF GraphFileInv
<1>3. CASE Tick
  <2>1. /\ clock' = clock + 1 /\ clock \in Nat /\ clock' \in 1 .. MaxTime
        /\ UNCHANGED <<file, row, noted>>
    BY <1>3 DEF Tick, GraphFileInv, TypeOK
  <2>2. \A n \in Id : row[n].updated \in 0 .. clock' /\ row[n].updated <= clock'
    BY <2>1 DEF GraphFileInv, TypeOK
  <2>3. TypeOK'
    BY <2>1, <2>2 DEF GraphFileInv, TypeOK
  <2>4. ShapeInv' /\ NotedInv'
    BY <2>1, <2>2 DEF GraphFileInv, ShapeInv, NotedInv
  <2> QED
    BY <2>3, <2>4 DEF GraphFileInv
<1>4. CASE Edit
  <2>1. file' \in File /\ UNCHANGED <<row, clock, noted>>
    BY <1>4, EditedIsAFile DEF GraphFileInv, Edit
  <2> QED
    BY <2>1 DEF GraphFileInv, TypeOK, ShapeInv, NotedInv
<1>5. ASSUME NEW id \in Id, Start(id) PROVE GraphFileInv'
  BY <1>5, RecordKeepsAll DEF Start, States, Never
<1>6. ASSUME NEW id \in Id, NoteWait(id) PROVE GraphFileInv'
  BY <1>6, NoteKeepsAll
<1>7. ASSUME NEW id \in Id, Merge(id) PROVE GraphFileInv'
  BY <1>7, RecordKeepsAll DEF Merge, States, Never
<1>8. ASSUME NEW id \in Id, PutOff(id) PROVE GraphFileInv'
  <2>1. clock + 1 \in 0 .. MaxTime
    BY <1>8 DEF PutOff, GraphFileInv, TypeOK
  <2> QED
    BY <1>8, <2>1, RecordKeepsAll DEF PutOff, States
<1>9. ASSUME NEW id \in Id, Skip(id) PROVE GraphFileInv'
  BY <1>9, RecordKeepsAll DEF Skip, States, Never
<1> QED
  BY <1>1, <1>2, <1>3, <1>4, <1>5, <1>6, <1>7, <1>8, <1>9 DEF Next

\* A run begins with a file of entries and no rows.
LEMMA GraphFileStart == Init => GraphFileInv
<1> SUFFICES ASSUME Init PROVE GraphFileInv
  OBVIOUS
<1> USE GraphFileAssumption
<1>1. file \in File /\ clock = 1 /\ row = [id \in Id |-> Absent] /\ noted = [id \in Id |-> <<>>]
  BY DEF Init
<1>2. Absent \in [state : States, updated : Nat, resume : Nat]
  BY DEF Absent, States, Never
<1>3. TypeOK
  BY <1>1 DEF TypeOK, Absent, Never
<1>4. ShapeInv
  <2>1. row \in [Id -> [state : States, updated : Nat, resume : Nat]]
    BY <1>1, <1>2
  <2>2. \A id \in Id : row[id].updated <= clock
    BY <1>1 DEF Absent, Never
  <2> QED
    BY <1>1, <2>1, <2>2 DEF ShapeInv
<1>5. NotedInv
  BY <1>1 DEF NotedInv
<1> QED
  BY <1>3, <1>4, <1>5 DEF GraphFileInv

-----------------------------------------------------------------------------
(* The theorems.                                                           *)

\* The invariant of the file and its rows holds in every state of every run.
THEOREM GraphFileInductive == Spec => []GraphFileInv
BY GraphFileStart, GraphFileStep, PTL DEF Spec

\* Whatever a person edits, skips or leaves to the clock: a pass takes only a file
\* that is a graph (graph validators), tells of a wait once (the cooldown note of a
\* pending node), and starts a node when the console says it will (start_time).
THEOREM KeepsToTheFileTheorem == Spec => []RunKeepsToTheFile
<1>1. ASSUME GraphFileInv PROVE WaitIsNotedOnce
  <2> SUFFICES ASSUME NEW id \in Id, NEW i \in DOMAIN noted[id], NEW j \in DOMAIN noted[id],
                      noted[id][i] = noted[id][j], i # j
               PROVE  FALSE
    BY DEF WaitIsNotedOnce, IsInjective
  <2>1. noted[id] \in Seq(Nat \X Nat)
    BY <1>1 DEF GraphFileInv, ShapeInv
  <2>2. i \in Nat /\ j \in Nat /\ noted[id][i] \in Nat \X Nat
    BY <2>1
  <2>3. noted[id][i][1] \in Nat
    BY <2>2
  <2>4. CASE i < j
    <3>1. noted[id][i][1] < noted[id][j][1]
      BY <1>1, <2>4 DEF GraphFileInv, NotedInv
    <3> QED
      BY <2>3, <3>1
  <2>5. CASE j < i
    <3>1. noted[id][j][1] < noted[id][i][1]
      BY <1>1, <2>5 DEF GraphFileInv, NotedInv
    <3> QED
      BY <2>3, <3>1
  <2> QED
    BY <2>2, <2>4, <2>5
<1>2. GraphFileInv => RunKeepsToTheFile
  BY <1>1, AcceptedIsAGraph, ConsoleShowsIt DEF GraphFileInv, RunKeepsToTheFile
<1> QED
  BY <1>2, GraphFileInductive, PTL

\* No node starts within its cooldown of the end of a dependency the file states, or
\* of one it has in place of a skipped node, nor before it is to resume: the start
\* time of a pending node is the latest of them (CooldownIsKept).
THEOREM CooldownTheorem == Spec => CooldownIsKept
<1>1. ASSUME GraphFileInv, [Next]_vars, NEW id \in Id, Starts(id)
      PROVE  Start(id)
  <2>1. row[id].state = "pending" /\ row'[id].state = "in_progress"
    BY <1>1 DEF Starts
  <2>2. ASSUME NEW n \in Id, NEW state, NEW resume, Record(n, state, resume),
               state # "in_progress" \/ n # id
        PROVE  FALSE
    BY <1>1, <2>1, <2>2 DEF Record, StateRow, GraphFileInv, ShapeInv
  <2>3. ~(UNCHANGED row)
    BY <2>1
  <2>4. ~EnsureRows
    BY <2>1 DEF EnsureRows, StateRow
  <2>5. ASSUME NEW n \in Id PROVE ~NoteWait(n) /\ ~Merge(n) /\ ~PutOff(n) /\ ~Skip(n)
    BY <2>2 DEF NoteWait, Merge, PutOff, Skip
  <2>6. ASSUME NEW n \in Id, Start(n) PROVE n = id
    BY <2>2, <2>6 DEF Start
  <2> QED
    BY <1>1, <2>3, <2>4, <2>5, <2>6 DEF Next, vars, Tick, Edit
<1>2. ASSUME GraphFileInv, NEW id \in Id, Start(id)
      PROVE  /\ row[id].resume <= clock
             /\ \A d \in DependsOn[id] \cup Dependencies(id) :
                  row[d].state \in {"merged", "skipped"} =>
                    row[d].updated + Cooldown(id) <= clock
  <2>1. TypeOK /\ id \in Swept("pending")
    BY <1>2 DEF GraphFileInv, Start
  <2>2. Accepted /\ id \in Ids
    BY <2>1, SweptIsInTheFile
  <2>3. /\ PassNodes(id) \in SUBSET Id
        /\ id \in PassNodes(id)
        /\ \A d \in DependsOn[id] \cup Dependencies(id) :
             row[d].state \in {"merged", "skipped"} => d \in Ended(id, PassNodes(id))
    BY <2>1, <2>2, PassNodesHoldTheEnded
  <2> DEFINE start == StartTime(id, PassNodes(id))
  <2>4. /\ start \in Nat
        /\ row[id].resume <= start
        /\ Cooldown(id) # 0 =>
             \A n \in Ended(id, PassNodes(id)) : row[n].updated + Cooldown(id) <= start
    BY <1>2, <2>2, <2>3, StartTimeIsLatest
  <2>5. start <= clock /\ clock \in Nat /\ Cooldown(id) \in Nat /\ row[id].resume \in Nat
    BY <1>2, <2>1, <2>2, EntryBearsTheName, GraphFileAssumption DEF Start, TypeOK, GraphFileInv, ShapeInv
  <2> HIDE DEF start
  <2>6. ASSUME NEW d \in DependsOn[id] \cup Dependencies(id), row[d].state \in {"merged", "skipped"}
        PROVE  row[d].updated + Cooldown(id) <= clock
    <3>1. d \in Ended(id, PassNodes(id)) /\ d \in Id
      BY <2>3, <2>6 DEF Ended
    <3>2. row[d].updated \in Nat /\ row[d].updated <= clock
      BY <1>2, <3>1 DEF GraphFileInv, ShapeInv
    <3>3. CASE Cooldown(id) = 0
      BY <2>5, <3>2, <3>3
    <3>4. CASE Cooldown(id) # 0
      <4>1. row[d].updated + Cooldown(id) <= start
        BY <2>4, <3>1, <3>4
      <4> QED
        BY <2>4, <2>5, <3>2, <4>1
    <3> QED
      BY <3>3, <3>4
  <2>7. row[id].resume <= clock
    BY <2>4, <2>5
  <2> QED
    BY <2>6, <2>7
<1>3. GraphFileInv /\ [Next]_vars =>
        [\A id \in Id : Starts(id) =>
           /\ row[id].resume <= clock
           /\ \A d \in DependsOn[id] \cup Dependencies(id) :
                row[d].state \in {"merged", "skipped"} =>
                  row[d].updated + Cooldown(id) <= clock]_vars
  BY <1>1, <1>2
<1> QED
  BY <1>3, GraphFileInductive, PTL DEF Spec, CooldownIsKept
=============================================================================
