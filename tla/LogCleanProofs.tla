--------------------------- MODULE LogCleanProofs --------------------------
(***************************************************************************)
(* The types of the log cleaner's model and what it promises of logs: that *)
(* a job's log holds its own output, that no cleaner takes the log of an   *)
(* unfinished job it knows of, and that a plan takes the right logs.       *)
(***************************************************************************)
EXTENDS LogClean, Integers, FiniteSetTheorems, WellFoundedInduction, TLAPS

RowSet == [status : Status, started : BOOLEAN, at : 0..MaxTime]
SeenSet == [Ids -> [status : {"none", "unfinished", "ended"}, at : 0..MaxTime]]
Plans == Seq(Ids)
HookLists == Seq(Hooks)
HandleSet == [Ids -> {"none", "unopened", "linked", "lost"}]
CleanerSet == [at : {"idle", "lists", "deletes"}, seen : SeenSet, known : SUBSET Ids, plan : Plans]

(* The parts of TypeOK, and that databases are numbered by ends of the daemon. *)
RowsOK ==
    /\ row \in [Ids -> RowSet] /\ nextId \in 1..(MaxId + 1) /\ generation \in 0..MaxStops
    /\ \A j \in Ids : j >= nextId => row[j] = NoRow
LogsOK == log \in [Ids -> File] /\ kept \in [Ids -> SUBSET (0..MaxStops)]
HandlesOK ==
    /\ handle \in HandleSet
    /\ \A j \in Ids : handle[j] # "none" <=> row[j].status = "running"
    /\ \A j \in Ids : handle[j] = "linked" => j \in Files
HooksOK == hooks \in [Ids -> HookLists]
CleanersOK ==
    /\ cleaner \in [Cleaners -> CleanerSet]
    /\ \A c \in Cleaners : cleaner[c].at = "deletes" <=> cleaner[c].plan # <<>>
NumbersOK == now \in 0..MaxTime /\ stops \in 0..MaxStops /\ generation <= stops /\ opened \subseteq Ids

Typed == RowsOK /\ LogsOK /\ HandlesOK /\ HooksOK /\ CleanersOK /\ NumbersOK

LEMMA TypedIsTypeOK == Typed => TypeOK
    BY DEF Typed, RowsOK, LogsOK, HandlesOK, HooksOK, CleanersOK, NumbersOK, TypeOK, RowSet, SeenSet, Plans,
           HookLists, HandleSet, CleanerSet

----------------------------------------------------------------------------
(* The order in which logs are taken                                       *)

LEMMA AgeIs ==
    ASSUME LogCleanOK, NEW seen \in SeenSet, LogsOK, NEW j \in Ids
    PROVE  Age(seen, j) \in Nat
<1>1. seen[j].at \in 0..MaxTime /\ log[j].mtime \in 0..MaxTime
    BY DEF SeenSet, LogsOK, File
<1>2. seen[j].at \in Nat /\ log[j].mtime \in Nat
    BY <1>1
<1> QED BY <1>2 DEF Age

(* Older is a strict order of the logs in which any two can be compared. *)
LEMMA OlderIs ==
    ASSUME LogCleanOK, NEW seen \in SeenSet, LogsOK
    PROVE  /\ \A i, j \in Ids : i = j \/ Older(seen, i, j) \/ Older(seen, j, i)
           /\ \A i, j \in Ids : Older(seen, i, j) => ~Older(seen, j, i) /\ i # j
           /\ \A i, j, k \in Ids : Older(seen, i, j) /\ Older(seen, j, k) => Older(seen, i, k)
<1>1. \A j \in Ids : j \in Nat
    BY DEF Ids, LogCleanOK
<1>2. ASSUME NEW i \in Ids, NEW j \in Ids
      PROVE  /\ i = j \/ Older(seen, i, j) \/ Older(seen, j, i)
             /\ Older(seen, i, j) => ~Older(seen, j, i) /\ i # j
    <2>1. PICK a \in Nat, b \in Nat : a = Age(seen, i) /\ b = Age(seen, j)
        BY AgeIs
    <2> QED BY <1>1, <2>1 DEF Older
<1>3. ASSUME NEW i \in Ids, NEW j \in Ids, NEW k \in Ids, Older(seen, i, j), Older(seen, j, k)
      PROVE  Older(seen, i, k)
    <2>1. PICK a \in Nat, b \in Nat, d \in Nat : a = Age(seen, i) /\ b = Age(seen, j) /\ d = Age(seen, k)
        BY AgeIs
    <2> QED BY <1>1, <1>3, <2>1 DEF Older
<1> QED BY <1>2, <1>3

(* OldestFirst lists exactly its files, each once, no log before an older one. *)
LEMMA OldestFirstIs ==
    ASSUME LogCleanOK, NEW seen \in SeenSet, LogsOK, NEW S \in SUBSET Ids
    PROVE  /\ OldestFirst(seen, S) \in [1..Cardinality(S) -> S] /\ Cardinality(S) \in Nat
           /\ \A m, n \in 1..Cardinality(S) :
                m < n => Older(seen, OldestFirst(seen, S)[m], OldestFirst(seen, S)[n])
<1> DEFINE Before(j) == {i \in S : Older(seen, i, j)}
           place == [j \in S |-> Cardinality(Before(j)) + 1]
<1>1. IsFiniteSet(S)
    <2>1. IsFiniteSet(Ids)
        BY FS_Interval DEF Ids, LogCleanOK
    <2> QED BY <2>1, FS_Subset
<1>2. PICK size \in Nat : size = Cardinality(S)
    BY <1>1, FS_CardinalityType
<1>3. \A j \in S : IsFiniteSet(Before(j)) /\ Cardinality(Before(j)) \in Nat
    BY <1>1, FS_Subset, FS_CardinalityType
<1>4. ASSUME NEW j \in S PROVE Cardinality(Before(j)) <= size - 1
    <2>1. Before(j) \subseteq S \ {j}
        BY OlderIs
    <2>2. IsFiniteSet(S \ {j}) /\ Cardinality(S \ {j}) = size - 1
        BY <1>1, <1>2, FS_RemoveElement
    <2> QED BY <2>1, <2>2, FS_Subset
<1>5. ASSUME NEW i \in S, NEW j \in S, Older(seen, i, j)
      PROVE  place[i] < place[j]
    <2>1. Before(i) \cup {i} \subseteq Before(j) /\ i \notin Before(i)
        BY <1>5, OlderIs
    <2>2. Cardinality(Before(i) \cup {i}) = Cardinality(Before(i)) + 1
        BY <1>3, <2>1, FS_AddElement
    <2>3. Cardinality(Before(i) \cup {i}) <= Cardinality(Before(j))
        BY <1>3, <2>1, FS_Subset
    <2>4. Cardinality(Before(i)) + 1 <= Cardinality(Before(j))
        BY <2>2, <2>3
    <2>5. Cardinality(Before(i)) \in Nat /\ Cardinality(Before(j)) \in Nat
        BY <1>3
    <2> HIDE DEF Before
    <2> QED BY <2>4, <2>5
<1>6. \A j \in S : place[j] \in 1..size
    <2> SUFFICES ASSUME NEW j \in S PROVE Cardinality(Before(j)) + 1 \in 1..size
        OBVIOUS
    <2>1. Cardinality(Before(j)) \in Nat /\ Cardinality(Before(j)) <= size - 1
        BY <1>3, <1>4
    <2> HIDE DEF Before
    <2> QED BY <2>1
<1>7. place \in [S -> 1..size]
    BY <1>6
<1> HIDE DEF place
<1>8. ASSUME NEW i \in S, NEW j \in S, i # j PROVE place[i] # place[j]
    <2>1. place[i] < place[j] \/ place[j] < place[i]
        BY <1>5, <1>8, OlderIs
    <2> QED BY <1>6, <2>1
<1>9. place \in Injection(S, 1..size)
    BY <1>7, <1>8 DEF Injection, IsInjective
<1>10. IsFiniteSet(1..size) /\ Cardinality(1..size) = size
    <2>1. 1 \in Int /\ size \in Int
        OBVIOUS
    <2>2. IsFiniteSet(1..size) /\ Cardinality(1..size) = IF 1 > size THEN 0 ELSE size - 1 + 1
        BY <2>1, FS_Interval
    <2>3. (IF 1 > size THEN 0 ELSE size - 1 + 1) = size
        OBVIOUS
    <2> QED BY <2>2, <2>3
<1>11. place \in Surjection(S, 1..size)
    BY <1>2, <1>9, <1>10, FS_Injection
<1> DEFINE order == [n \in 1..size |-> CHOOSE j \in S : place[j] = n]
<1>12. \A n \in 1..size : order[n] \in S /\ place[order[n]] = n
    <2>1. \A n \in 1..size : \E j \in S : place[j] = n
        BY <1>11 DEF Surjection
    <2> QED BY <2>1
<1>13. order \in [1..size -> S]
    BY <1>12
<1> HIDE DEF order
<1>14. ASSUME NEW m \in 1..size, NEW n \in 1..size, m < n PROVE Older(seen, order[m], order[n])
    <2>1. order[m] \in S /\ order[n] \in S /\ place[order[m]] = m /\ place[order[n]] = n
        BY <1>12
    <2>2. order[m] # order[n]
        BY <1>14, <2>1
    <2>3. ~Older(seen, order[n], order[m])
        BY <1>5, <1>14, <2>1
    <2> QED BY <2>1, <2>2, <2>3, OlderIs
<1> DEFINE Sorted(f) == \A m, n \in DOMAIN f : m < n => Older(seen, f[m], f[n])
<1>15. Sorted(order)
    BY <1>13, <1>14
<1>16. OldestFirst(seen, S) = CHOOSE f \in [1..size -> S] : Sorted(f)
    BY <1>2 DEF OldestFirst
<1>17. OldestFirst(seen, S) \in [1..size -> S] /\ Sorted(OldestFirst(seen, S))
    <2> HIDE DEF Sorted
    <2> QED BY <1>13, <1>15, <1>16
<1> QED BY <1>2, <1>17

(* A plan names deletable logs only. *)
LEMMA PlanIs ==
    ASSUME LogCleanOK, NEW seen \in SeenSet, LogsOK
    PROVE  Plan(seen) \in Plans /\ \A n \in DOMAIN Plan(seen) : Plan(seen)[n] \in Deletable(seen)
<1>1. PICK T : Plan(seen) = OldestFirst(seen, Deletable(seen) \cap T)
    BY DEF Plan
<1> DEFINE S == Deletable(seen) \cap T
<1>2. S \in SUBSET Ids /\ S \subseteq Deletable(seen)
    BY DEF Deletable, Files
<1> HIDE DEF S
<1>3. Plan(seen) \in [1..Cardinality(S) -> S] /\ Cardinality(S) \in Nat
    BY <1>1, <1>2, OldestFirstIs DEF S
<1>4. Plan(seen) \in Seq(Ids)
    BY <1>2, <1>3
<1> QED BY <1>2, <1>3, <1>4 DEF Plans

----------------------------------------------------------------------------
(* What the operations do to the rows, the logs and the plans              *)

(* Pruning takes rows of ended jobs, and changes nothing else. *)
LEMMA PrunedIs ==
    ASSUME LogCleanOK, NEW rows \in [Ids -> RowSet]
    PROVE  /\ Pruned(rows) \in [Ids -> RowSet]
           /\ \A j \in Ids : \/ Pruned(rows)[j] = rows[j]
                             \/ rows[j].status = "ended" /\ Pruned(rows)[j] = NoRow
<1> DEFINE ended == {j \in Ids : rows[j].status = "ended"}
           old == {j \in ended : Cardinality({i \in ended : Newer(i, j, rows)}) >= Keep}
<1>1. Pruned(rows) = [j \in Ids |-> IF j \in old THEN NoRow ELSE rows[j]]
    BY DEF Pruned
<1>2. \A j \in old : rows[j].status = "ended"
    OBVIOUS
<1> HIDE DEF old
<1>3. \A j \in Ids : rows[j] \in RowSet
    OBVIOUS
<1>6. NoRow \in RowSet
    BY DEF NoRow, RowSet, Status, LogCleanOK
<1> QED BY <1>1, <1>2, <1>3, <1>6

(* The rows after the unfinished jobs of E have ended. *)
Finish(E) == [j \in Ids |-> IF j \in E THEN Over(j) ELSE row[j]]

LEMMA FinishIs ==
    ASSUME LogCleanOK, RowsOK, NumbersOK, NEW E \in SUBSET Ids, \A j \in E : row[j].status \in Unfinished
    PROVE  /\ Pruned(Finish(E)) \in [Ids -> RowSet]
           /\ \A j \in Ids : /\ j >= nextId => Pruned(Finish(E))[j] = NoRow
                             /\ Pruned(Finish(E))[j].started => row[j].started
                             /\ Pruned(Finish(E))[j].status \in Unfinished =>
                                  j \notin E /\ Pruned(Finish(E))[j] = row[j]
                             /\ j \notin E /\ row[j].status \in Unfinished => Pruned(Finish(E))[j] = row[j]
<1>1. \A j \in Ids : row[j] \in RowSet /\ Over(j) \in RowSet
    <2>1. \A j \in Ids : row[j] \in RowSet /\ now \in 0..MaxTime
        BY DEF RowsOK, NumbersOK
    <2> QED BY <2>1 DEF Over, RowSet, Status
<1>2. Finish(E) \in [Ids -> RowSet]
    BY <1>1 DEF Finish
<1>3. PICK F \in [Ids -> RowSet] : F = Finish(E)
    BY <1>2
<1>4. PICK P \in [Ids -> RowSet] : P = Pruned(F)
    BY PrunedIs
<1>5. \A j \in Ids : P[j] = F[j] \/ (F[j].status = "ended" /\ P[j] = NoRow)
    BY <1>4, PrunedIs
<1>6. \A j \in E : F[j].status = "ended" /\ F[j].started = row[j].started
    <2>1. \A j \in E : F[j] = Over(j) /\ row[j] \in RowSet
        BY <1>1, <1>3 DEF Finish
    <2> QED BY <2>1 DEF Over, RowSet
<1>7. \A j \in Ids \ E : F[j] = row[j]
    BY <1>3 DEF Finish
<1>8. \A j \in Ids : j >= nextId => j \notin E /\ row[j] = NoRow
    BY DEF RowsOK, NoRow, Unfinished
<1>9. ASSUME NEW j \in Ids
      PROVE  /\ j >= nextId => P[j] = NoRow
             /\ P[j].started => row[j].started
             /\ P[j].status \in Unfinished => j \notin E /\ P[j] = row[j]
             /\ j \notin E /\ row[j].status \in Unfinished => P[j] = row[j]
    <2>1. j >= nextId => P[j] = NoRow
        BY <1>5, <1>7, <1>8
    <2>2. P[j].started => row[j].started
        BY <1>5, <1>6, <1>7 DEF NoRow
    <2>3. P[j].status \in Unfinished => j \notin E /\ P[j] = row[j]
        BY <1>5, <1>6, <1>7 DEF NoRow, Unfinished
    <2>4. j \notin E /\ row[j].status \in Unfinished => P[j] = row[j]
        BY <1>5, <1>7 DEF Unfinished
    <2> QED BY <2>1, <2>2, <2>3, <2>4
<1> QED BY <1>3, <1>4, <1>9

LEMMA EndsFinishes ==
    ASSUME NEW j \in Ids, row \in [Ids -> RowSet]
    PROVE  [row EXCEPT ![j] = Over(j)] = Finish({j})
BY DEF Finish

LEMMA AppendedIs ==
    ASSUME LogCleanOK, LogsOK, RowsOK, NumbersOK, NEW j \in Ids
    PROVE  Appended(j) \in [Ids -> File] /\ Opened \in File /\ NoLog \in File
<1>1. now \in 0..MaxTime /\ generation \in 0..MaxStops /\ 0 \in 0..MaxTime
    BY DEF NumbersOK, RowsOK, LogCleanOK
<1>2. log \in [Ids -> File] /\ log[j] \in File
    BY DEF LogsOK
<1>3. [size |-> log[j].size + 1, mtime |-> now, from |-> log[j].from \cup {generation}] \in File
    <2>1. log[j].size + 1 \in Nat
        BY <1>2 DEF File
    <2>2. log[j].from \cup {generation} \in SUBSET (0..MaxStops)
        BY <1>1, <1>2 DEF File
    <2> QED BY <1>1, <2>1, <2>2 DEF File
<1>4. Appended(j) = [log EXCEPT ![j] = [size |-> log[j].size + 1, mtime |-> now,
                                        from |-> log[j].from \cup {generation}]]
    BY DEF Appended
<1>5. Appended(j) \in [Ids -> File]
    BY <1>2, <1>3, <1>4
<1>6. Opened \in File /\ NoLog \in File
    BY <1>1 DEF Opened, NoLog, File
<1> QED BY <1>5, <1>6

LEMMA IdleIs ==
    ASSUME LogCleanOK
    PROVE  Idle \in CleanerSet /\ Idle.at = "idle" /\ Idle.known = {} /\ Idle.plan = << >>
<1>1. 0 \in 0..MaxTime
    BY DEF LogCleanOK
<1>2. [j \in Ids |-> Unseen] \in SeenSet
    BY <1>1 DEF SeenSet, Unseen
<1>3. << >> \in Plans
    BY DEF Plans
<1>4. PICK U \in SeenSet, e \in Plans : U = [j \in Ids |-> Unseen] /\ e = << >>
    BY <1>2, <1>3
<1>5. Idle = [at |-> "idle", seen |-> U, known |-> {}, plan |-> e]
    BY <1>4 DEF Idle
<1>6. Idle \in CleanerSet /\ Idle.at = "idle" /\ Idle.known = {} /\ Idle.plan = e
    BY <1>5 DEF CleanerSet
<1> QED BY <1>4, <1>6

LEMMA RowsIs ==
    ASSUME LogCleanOK, RowsOK
    PROVE  /\ Rows \in SeenSet
           /\ \A j \in Ids : /\ Rows[j].status = "none" <=> row[j].status = "none"
                             /\ Rows[j].status = "ended" => row[j].status = "ended"
<1>1. \A j \in Ids : row[j] \in RowSet
    BY DEF RowsOK
<1>2. \A j \in Ids : row[j].status \in Status /\ row[j].at \in 0..MaxTime
    BY <1>1 DEF RowSet
<1>3. Rows \in SeenSet
    BY <1>2 DEF Rows, SeenSet, Status, Unfinished
<1>4. ASSUME NEW j \in Ids
      PROVE  /\ Rows[j].status = "none" <=> row[j].status = "none"
             /\ Rows[j].status = "ended" => row[j].status = "ended"
    BY <1>2 DEF Rows, Status, Unfinished
<1> QED BY <1>3, <1>4

(* The rest of a plan names files the plan named. *)
LEMMA TailIs ==
    ASSUME NEW p \in Plans, p # << >>
    PROVE  /\ Head(p) \in Ids /\ 1 \in DOMAIN p /\ p[1] = Head(p) /\ Tail(p) \in Plans
           /\ Len(p) # 1 => Tail(p) # << >>
           /\ \A n \in DOMAIN Tail(p) : n + 1 \in DOMAIN p /\ Tail(p)[n] = p[n + 1]
<1>1. p \in Seq(Ids)
    BY DEF Plans
<1>2. PICK k \in Nat : k = Len(p) /\ DOMAIN p = 1..k
    BY <1>1
<1>3. k # 0
    BY <1>1, <1>2
<1>4. Tail(p) \in Seq(Ids) /\ Len(Tail(p)) = k - 1
    BY <1>1, <1>2, <1>3
<1>5. DOMAIN Tail(p) = 1..(k - 1)
    BY <1>4
<1>6. \A n \in DOMAIN Tail(p) : n + 1 \in DOMAIN p /\ Tail(p)[n] = p[n + 1]
    BY <1>1, <1>2, <1>3, <1>5
<1>7. Head(p) \in Ids /\ 1 \in DOMAIN p /\ p[1] = Head(p)
    BY <1>1, <1>2, <1>3
<1>8. k # 1 => Tail(p) # << >>
    <2>1. k # 1 => Len(Tail(p)) # 0
        BY <1>3, <1>4
    <2>2. Len(<< >>) = 0
        OBVIOUS
    <2> QED BY <2>1, <2>2, Zenon
<1> QED BY <1>2, <1>4, <1>6, <1>7, <1>8 DEF Plans

----------------------------------------------------------------------------
(* Types                                                                   *)

LEMMA TypedInit == LogCleanOK /\ Init => Typed
<1> SUFFICES ASSUME LogCleanOK, Init PROVE Typed
    OBVIOUS
<1>1. 0 \in 0..MaxTime /\ 0 \in 0..MaxStops /\ 1 \in 1..(MaxId + 1)
    BY DEF LogCleanOK
<1>2. NoRow \in RowSet
    BY <1>1 DEF NoRow, RowSet, Status
<1>3. RowsOK
    BY <1>1, <1>2 DEF Init, RowsOK
<1>4. NoLog \in File
    BY <1>1 DEF NoLog, File
<1>5. LogsOK
    BY <1>4 DEF Init, LogsOK
<1>6. HandlesOK
    BY DEF Init, HandlesOK, HandleSet, NoRow
<1>7. HooksOK
    BY DEF Init, HooksOK, HookLists
<1>8. CleanersOK
    BY IdleIs DEF Init, CleanersOK
<1>9. NumbersOK
    BY <1>1 DEF Init, NumbersOK
<1> QED BY <1>3, <1>5, <1>6, <1>7, <1>8, <1>9 DEF Typed

LEMMA TypedAdds == ASSUME LogCleanOK, Typed, Adds PROVE Typed'
<1>1. nextId \in Ids /\ nextId' \in 1..(MaxId + 1) /\ row[nextId] = NoRow
    BY DEF Adds, Typed, RowsOK, Ids, LogCleanOK
<1>2. \A j \in Ids : j >= nextId + 1 => j >= nextId /\ j # nextId
    BY DEF Ids, LogCleanOK, Typed, RowsOK
<1>3. row' = [row EXCEPT ![nextId].status = "queued"] /\ row \in [Ids -> RowSet]
    BY DEF Adds, Typed, RowsOK
<1>4. row' \in [Ids -> RowSet] /\ row'[nextId].status = "queued"
    BY <1>1, <1>3 DEF RowSet, Status, Unfinished
<1>5. \A j \in Ids \ {nextId} : row'[j] = row[j]
    BY <1>1, <1>3
<1>6. RowsOK'
    BY <1>1, <1>2, <1>4, <1>5 DEF Adds, Typed, RowsOK
<1>7. HandlesOK'
    <2>1. UNCHANGED <<handle, log>>
        BY DEF Adds, files, daemon
    <2>2. handle[nextId] = "none"
        BY <1>1 DEF Typed, HandlesOK, NoRow
    <2> QED BY <1>1, <1>4, <1>5, <2>1, <2>2 DEF Typed, HandlesOK, Files
<1>8. (LogsOK /\ HooksOK /\ CleanersOK /\ NumbersOK)'
    BY DEF Adds, files, daemon, Typed, LogsOK, HooksOK, CleanersOK, NumbersOK
<1> QED BY <1>6, <1>7, <1>8 DEF Typed

LEMMA TypedStarts == ASSUME LogCleanOK, Typed, NEW j \in Ids, Starts(j) PROVE Typed'
<1>1. row \in [Ids -> RowSet] /\ row[j].status = "queued"
    BY DEF Starts, Typed, RowsOK
<1>2. row' \in [Ids -> RowSet] /\ row'[j].status = "running" /\ \A i \in Ids \ {j} : row'[i] = row[i]
    BY <1>1 DEF Starts, RowSet, Status, Unfinished
<1>3. ~(j >= nextId)
    BY <1>1 DEF Typed, RowsOK, NoRow
<1>4. RowsOK'
    BY <1>2, <1>3 DEF Starts, Typed, RowsOK
<1>5. UNCHANGED <<generation, log, kept, hooks, cleaner, now, stops, opened>>
    BY DEF Starts, files
<1>6. HandlesOK'
    <2>1. handle' = [handle EXCEPT ![j] = "unopened"]
        BY DEF Starts
    <2> QED BY <1>2, <1>5, <2>1 DEF Typed, HandlesOK, HandleSet, Files
<1>7. (LogsOK /\ HooksOK /\ CleanersOK /\ NumbersOK)'
    BY <1>5 DEF Typed, LogsOK, HooksOK, CleanersOK, NumbersOK
<1> QED BY <1>4, <1>6, <1>7 DEF Typed

(* What both ends of the pump's first step have in common. *)
LEMMA TypedPumps ==
    ASSUME LogCleanOK, Typed, NEW j \in Ids, handle[j] = "unopened",
           NEW f \in File, log' = [log EXCEPT ![j] = f], NEW h \in {"linked", "lost"},
           handle' = [handle EXCEPT ![j] = h], h = "linked" => f.from # {},
           kept' = kept \/ kept' = [kept EXCEPT ![j] = log[j].from],
           UNCHANGED <<database, hooks, cleaner, now, stops>>, opened' \subseteq Ids
    PROVE  Typed'
<1>1. log \in [Ids -> File] /\ kept \in [Ids -> SUBSET (0..MaxStops)] /\ handle \in HandleSet
    BY DEF Typed, LogsOK, HandlesOK
<1>2. LogsOK'
    <2>1. log[j] \in File
        BY <1>1
    <2>2. log[j].from \in SUBSET (0..MaxStops)
        BY <2>1 DEF File
    <2> QED BY <1>1, <2>2 DEF LogsOK
<1>3. \A i \in Ids \ {j} : handle'[i] = handle[i] /\ log'[i] = log[i]
    BY <1>1 DEF HandleSet
<1>4. handle'[j] = h /\ log'[j] = f /\ handle' \in HandleSet
    BY <1>1 DEF HandleSet
<1>5. HandlesOK'
    <2>1. row' = row
        BY DEF database
    <2> QED BY <1>3, <1>4, <2>1 DEF Typed, HandlesOK, Files
<1>6. (RowsOK /\ HooksOK /\ CleanersOK /\ NumbersOK)'
    BY DEF database, Typed, RowsOK, HooksOK, CleanersOK, NumbersOK
<1> QED BY <1>2, <1>5, <1>6 DEF Typed

LEMMA TypedLogOpens == ASSUME LogCleanOK, Typed, NEW j \in Ids, LogOpens(j) PROVE Typed'
<1>1. Opened \in File /\ Opened.from # {}
    BY AppendedIs DEF Typed, Opened
<1>2. log' = [log EXCEPT ![j] = Opened] /\ (kept' = kept \/ kept' = [kept EXCEPT ![j] = log[j].from])
    BY DEF LogOpens, OpensLog, KeepsOldLog
<1>3. opened' \subseteq Ids
    BY DEF LogOpens, Typed, NumbersOK
<1>4. /\ handle[j] = "unopened" /\ handle' = [handle EXCEPT ![j] = "linked"]
      /\ UNCHANGED <<database, hooks, cleaner, now, stops>>
    BY DEF LogOpens
<1> QED BY <1>1, <1>2, <1>3, <1>4, TypedPumps

LEMMA TypedLogFails == ASSUME LogCleanOK, Typed, NEW j \in Ids, LogFails(j) PROVE Typed'
<1>1. log \in [Ids -> File] /\ log[j] \in File /\ NoLog \in File
    BY AppendedIs DEF Typed, LogsOK
<1>2. (log' = log \/ log' = [log EXCEPT ![j] = NoLog]) /\ (kept' = kept \/ kept' = [kept EXCEPT ![j] = log[j].from])
    BY DEF LogFails, KeepsOldLog
<1>3. PICK f \in File : log' = [log EXCEPT ![j] = f]
    BY <1>1, <1>2
<1>4. /\ handle[j] = "unopened" /\ handle' = [handle EXCEPT ![j] = "lost"] /\ opened' \subseteq Ids
      /\ UNCHANGED <<database, hooks, cleaner, now, stops>>
    BY DEF LogFails, Typed, NumbersOK
<1> QED BY <1>2, <1>3, <1>4, TypedPumps

(* Appending keeps the types, and every file that there is. *)
LEMMA TypedAppends ==
    ASSUME LogCleanOK, Typed, NEW j \in Ids, log' = Appended(j), UNCHANGED <<database, kept, handle>>
    PROVE  LogsOK' /\ HandlesOK'
<1>1. log \in [Ids -> File] /\ log' \in [Ids -> File]
    BY AppendedIs DEF Typed, LogsOK
<1>2. \A i \in Ids : i # j => log'[i] = log[i]
    BY <1>1 DEF Appended
<1>3. log'[j].from = log[j].from \cup {generation}
    BY <1>1 DEF Appended
<1>4. Files \subseteq Files'
    BY <1>2, <1>3 DEF Files
<1>5. LogsOK'
    BY <1>1 DEF Typed, LogsOK
<1>6. HandlesOK'
    <2>1. row' = row /\ handle' = handle
        BY DEF database
    <2> QED BY <1>4, <2>1 DEF Typed, HandlesOK
<1> QED BY <1>5, <1>6

LEMMA TypedPrints == ASSUME LogCleanOK, Typed, NEW j \in Ids, Prints(j) PROVE Typed'
<1>1. LogsOK' /\ HandlesOK'
    BY TypedAppends DEF Prints, daemon
<1>2. (RowsOK /\ HooksOK /\ CleanersOK /\ NumbersOK)'
    BY DEF Prints, database, daemon, Typed, RowsOK, HooksOK, CleanersOK, NumbersOK
<1> QED BY <1>1, <1>2 DEF Typed

LEMMA TypedRunsHook == ASSUME LogCleanOK, Typed, NEW j \in Ids, RunsHook(j) PROVE Typed'
<1>1. LogsOK' /\ HandlesOK'
    BY TypedAppends DEF RunsHook
<1>2. (RowsOK /\ CleanersOK /\ NumbersOK)'
    BY DEF RunsHook, database, daemon, Typed, RowsOK, CleanersOK, NumbersOK
<1>3. hooks[j] \in Seq(Hooks) /\ hooks[j] # << >>
    BY DEF RunsHook, Typed, HooksOK, HookLists
<1>4. Tail(hooks[j]) \in HookLists
    BY <1>3 DEF HookLists
<1>5. HooksOK'
    BY <1>4 DEF RunsHook, Typed, HooksOK
<1> QED BY <1>1, <1>2, <1>5 DEF Typed

LEMMA HooksForIs == ASSUME NEW outcome, NEW started PROVE HooksFor(outcome, started) \in HookLists
<1>1. \A kind : Hook(kind) \in Seq(Hooks)
    BY DEF Hook
<1>2. PICK a \in Seq(Hooks), b \in Seq(Hooks), e \in Seq(Hooks) :
        a = Hook("post-job") /\ b = Hook("on-finish") /\ e = Hook("on-error")
    BY <1>1
<1>3. a \o b \o e \in Seq(Hooks) /\ a \o b \o << >> \in Seq(Hooks) /\ << >> \in Seq(Hooks)
    OBVIOUS
<1> QED BY <1>2, <1>3 DEF HooksFor, HookLists

LEMMA TypedEnds ==
    ASSUME LogCleanOK, Typed, NEW j \in Ids, row[j].status \in Unfinished, NEW outcome, Ends(j, outcome)
    PROVE  Typed'
<1>1. row \in [Ids -> RowSet]
    BY DEF Typed, RowsOK
<1>2. PICK P : P = Pruned(Finish({j}))
    OBVIOUS
<1>3. row' = P
    BY <1>1, <1>2, EndsFinishes DEF Ends
<1>4. /\ P \in [Ids -> RowSet]
      /\ \A i \in Ids : /\ i >= nextId => P[i] = NoRow
                        /\ P[i].status \in Unfinished => i # j /\ P[i] = row[i]
                        /\ i # j /\ row[i].status \in Unfinished => P[i] = row[i]
    BY <1>2, FinishIs DEF Typed
<1>5. UNCHANGED <<nextId, generation, log, kept, cleaner, now, stops, opened>> /\ handle' = [handle EXCEPT ![j] = "none"]
    BY DEF Ends, files
<1>6. RowsOK'
    BY <1>3, <1>4, <1>5 DEF Typed, RowsOK
<1>7. HandlesOK'
    <2>1. handle \in HandleSet
        BY DEF Typed, HandlesOK
    <2>2. handle' \in HandleSet
        BY <1>5, <2>1 DEF HandleSet
    <2>3. ASSUME NEW i \in Ids PROVE handle'[i] # "none" <=> row'[i].status = "running"
        <3>1. CASE i = j
            BY <1>3, <1>4, <1>5, <2>1, <3>1 DEF Unfinished, HandleSet
        <3>2. CASE i # j
            <4>1. handle'[i] = handle[i] /\ (row'[i].status = "running" <=> row[i].status = "running")
                BY <1>3, <1>4, <1>5, <2>1, <3>2 DEF Unfinished, HandleSet
            <4> QED BY <4>1 DEF Typed, HandlesOK
        <3> QED BY <3>1, <3>2
    <2>4. \A i \in Ids : handle'[i] = "linked" => i \in Files'
        BY <1>5, <2>1 DEF Typed, HandlesOK, HandleSet, Files
    <2> QED BY <2>2, <2>3, <2>4 DEF HandlesOK
<1>8. HooksOK'
    <2>1. PICK final \in {TRUE, outcome # "failed"} :
            hooks' = [hooks EXCEPT ![j] = IF final THEN HooksFor(outcome, row[j].started) ELSE << >>]
        BY DEF Ends
    <2>2. << >> \in HookLists
        BY DEF HookLists
    <2>3. PICK h \in HookLists : hooks' = [hooks EXCEPT ![j] = h]
        BY <2>1, <2>2, HooksForIs
    <2> QED BY <2>3 DEF Typed, HooksOK
<1>9. (LogsOK /\ CleanersOK /\ NumbersOK)'
    BY <1>5 DEF Typed, LogsOK, CleanersOK, NumbersOK
<1> QED BY <1>6, <1>7, <1>8, <1>9 DEF Typed

LEMMA TypedClearsHistory == ASSUME LogCleanOK, Typed, ClearsHistory PROVE Typed'
<1>1. row \in [Ids -> RowSet] /\ row' = [j \in Ids |-> IF row[j].status = "ended" THEN NoRow ELSE row[j]]
    BY DEF ClearsHistory, Typed, RowsOK
<1>2. NoRow \in RowSet
    BY DEF NoRow, RowSet, Status, LogCleanOK
<1>3. row' \in [Ids -> RowSet] /\ \A j \in Ids : row'[j] = row[j] \/ (row[j].status = "ended" /\ row'[j] = NoRow)
    BY <1>1, <1>2
<1>4. UNCHANGED <<nextId, generation, log, kept, handle, hooks, cleaner, now, stops, opened>>
    BY DEF ClearsHistory, files, daemon
<1>5. RowsOK'
    BY <1>3, <1>4 DEF Typed, RowsOK
<1>6. HandlesOK'
    BY <1>3, <1>4 DEF Typed, HandlesOK, Files, NoRow
<1>7. (LogsOK /\ HooksOK /\ CleanersOK /\ NumbersOK)'
    BY <1>4 DEF Typed, LogsOK, HooksOK, CleanersOK, NumbersOK
<1> QED BY <1>5, <1>6, <1>7 DEF Typed

LEMMA TypedRestarts == ASSUME LogCleanOK, Typed, Restarts PROVE Typed'
<1> DEFINE E == {j \in Ids : row[j].status = "running"}
<1>1. PICK P : P = Pruned(Finish(E))
    OBVIOUS
<1>2. row' = P
    <2>1. Finish(E) = [j \in Ids |-> IF row[j].status = "running" THEN Over(j) ELSE row[j]]
        BY DEF Finish
    <2> QED BY <1>1, <2>1 DEF Restarts
<1>3. /\ P \in [Ids -> RowSet]
      /\ \A i \in Ids : /\ i >= nextId => P[i] = NoRow
                        /\ P[i].status \in Unfinished => i \notin E /\ P[i] = row[i]
    BY <1>1, FinishIs DEF Typed, Unfinished
<1>4. UNCHANGED <<nextId, generation, log, kept, now, opened>>
    BY DEF Restarts, files
<1>5. RowsOK'
    BY <1>2, <1>3, <1>4 DEF Typed, RowsOK
<1>6. HandlesOK'
    <2>1. \A i \in Ids : P[i].status # "running"
        BY <1>3 DEF Unfinished
    <2> QED BY <1>2, <2>1 DEF Restarts, HandlesOK, HandleSet
<1>7. HooksOK'
    BY DEF Restarts, HooksOK, HookLists
<1>8. CleanersOK'
    BY IdleIs DEF Restarts, Typed, CleanersOK
<1>9. NumbersOK'
    BY <1>4 DEF Restarts, Typed, RowsOK, NumbersOK, LogCleanOK
<1>10. LogsOK'
    BY <1>4 DEF Typed, LogsOK
<1> QED BY <1>5, <1>6, <1>7, <1>8, <1>9, <1>10 DEF Typed

LEMMA TypedDeletesDatabase == ASSUME LogCleanOK, Typed, DeletesDatabase PROVE Typed'
<1>1. NoRow \in RowSet /\ 1 \in 1..(MaxId + 1)
    BY DEF NoRow, RowSet, Status, LogCleanOK
<1>2. generation' \in 0..MaxStops /\ NumbersOK'
    BY DEF DeletesDatabase, Typed, RowsOK, NumbersOK, LogCleanOK
<1>3. RowsOK'
    BY <1>1, <1>2 DEF DeletesDatabase, RowsOK
<1>4. HandlesOK'
    BY DEF DeletesDatabase, HandlesOK, HandleSet, NoRow
<1>5. HooksOK'
    BY DEF DeletesDatabase, HooksOK, HookLists
<1>6. (LogsOK /\ CleanersOK)'
    BY DEF DeletesDatabase, files, Typed, LogsOK, CleanersOK
<1> QED BY <1>2, <1>3, <1>4, <1>5, <1>6 DEF Typed

LEMMA TypedTick == ASSUME LogCleanOK, Typed, Tick PROVE Typed'
<1>1. NumbersOK'
    BY DEF Tick, database, Typed, NumbersOK, LogCleanOK
<1>2. (RowsOK /\ LogsOK /\ HandlesOK /\ HooksOK /\ CleanersOK)'
    BY DEF Tick, database, files, daemon, Typed, RowsOK, LogsOK, HandlesOK, HooksOK, CleanersOK, Files
<1> QED BY <1>1, <1>2 DEF Typed

LEMMA TypedReadsRows == ASSUME LogCleanOK, Typed, NEW c \in Cleaners, ReadsRows(c) PROVE Typed'
<1>1. PICK K \in SUBSET Ids : K = {j \in Ids : row[j].status # "none"}
    OBVIOUS
<1>2. PICK s \in SeenSet : s = Rows
    BY RowsIs DEF Typed
<1>3. PICK J : J = [Idle EXCEPT !.at = "lists", !.seen = s, !.known = K]
    OBVIOUS
<1>4. J \in CleanerSet /\ J.at = "lists" /\ J.plan = << >>
    <2>1. J \in CleanerSet
        BY <1>3, IdleIs DEF CleanerSet
    <2>2. J.at = "lists" /\ J.plan = Idle.plan
        BY <1>3, <2>1, IdleIs DEF CleanerSet
    <2> QED BY <2>1, <2>2, IdleIs
<1>5. cleaner' = [cleaner EXCEPT ![c] = J]
    BY <1>1, <1>2, <1>3 DEF ReadsRows
<1>6. CleanersOK'
    BY <1>4, <1>5 DEF Typed, CleanersOK
<1>7. (RowsOK /\ LogsOK /\ HandlesOK /\ HooksOK /\ NumbersOK)'
    BY DEF ReadsRows, database, files, daemon, Typed, RowsOK, LogsOK, HandlesOK, HooksOK, NumbersOK, Files
<1> QED BY <1>6, <1>7 DEF Typed

LEMMA TypedListsFiles == ASSUME LogCleanOK, Typed, NEW c \in Cleaners, ListsFiles(c) PROVE Typed'
<1>1. cleaner[c] \in CleanerSet
    BY DEF Typed, CleanersOK
<1>2. cleaner[c].seen \in SeenSet /\ cleaner[c].known \in SUBSET Ids
    BY <1>1 DEF CleanerSet
<1>3. PICK K \in SUBSET Ids, p \in Plans : K = cleaner[c].known /\ p = Plan(cleaner[c].seen)
    BY <1>2, PlanIs DEF Typed
<1>4. PICK J : J = [Idle EXCEPT !.at = "deletes", !.known = K, !.plan = p]
    OBVIOUS
<1>5. J \in CleanerSet /\ J.at = "deletes" /\ J.plan = p
    <2>1. J \in CleanerSet
        BY <1>4, IdleIs DEF CleanerSet
    <2> QED BY <1>4, <2>1, IdleIs DEF CleanerSet
<1>6. cleaner' = [cleaner EXCEPT ![c] = IF p = << >> THEN Idle ELSE J]
    BY <1>3, <1>4 DEF ListsFiles
<1>7. CleanersOK'
    <2>1. CASE p = << >>
        BY <1>6, <2>1, IdleIs DEF Typed, CleanersOK
    <2>2. CASE p # << >>
        BY <1>5, <1>6, <2>2 DEF Typed, CleanersOK
    <2> QED BY <2>1, <2>2
<1>8. (RowsOK /\ LogsOK /\ HandlesOK /\ HooksOK /\ NumbersOK)'
    BY DEF ListsFiles, database, files, daemon, Typed, RowsOK, LogsOK, HandlesOK, HooksOK, NumbersOK, Files
<1> QED BY <1>7, <1>8 DEF Typed

(* What is left to delete after a file. *)
LEMMA GoesOnIs ==
    ASSUME LogCleanOK, CleanersOK, NEW c \in Cleaners, cleaner[c].at = "deletes", GoesOn(c)
    PROVE  /\ CleanersOK' /\ \A d \in Cleaners : d # c => cleaner'[d] = cleaner[d]
           /\ Head(cleaner[c].plan) \in Ids /\ 1 \in DOMAIN cleaner[c].plan
           /\ cleaner[c].plan[1] = Head(cleaner[c].plan)
           /\ \/ cleaner'[c] = Idle
              \/ /\ cleaner'[c].at = "deletes" /\ cleaner'[c].known = cleaner[c].known
                 /\ \A n \in DOMAIN cleaner'[c].plan :
                      n + 1 \in DOMAIN cleaner[c].plan /\ cleaner'[c].plan[n] = cleaner[c].plan[n + 1]
<1>1. PICK C \in CleanerSet : C = cleaner[c]
    BY DEF CleanersOK
<1>2. C.plan \in Plans /\ C.plan # << >> /\ C.at = "deletes"
    BY <1>1 DEF CleanersOK, CleanerSet
<1>3. PICK p \in Plans : p = C.plan
    BY <1>2
<1>4. /\ Head(p) \in Ids /\ 1 \in DOMAIN p /\ p[1] = Head(p) /\ Tail(p) \in Plans
      /\ Len(p) # 1 => Tail(p) # << >>
      /\ \A n \in DOMAIN Tail(p) : n + 1 \in DOMAIN p /\ Tail(p)[n] = p[n + 1]
    BY <1>2, <1>3, TailIs
<1>5. PICK t \in Plans : t = Tail(p)
    BY <1>4
<1>6. /\ cleaner \in [Cleaners -> CleanerSet]
      /\ \A d \in Cleaners : cleaner[d].at = "deletes" <=> cleaner[d].plan # << >>
    BY DEF CleanersOK
<1>7. CASE Len(p) = 1
    <2>1. cleaner' = [cleaner EXCEPT ![c] = Idle]
        BY <1>1, <1>3, <1>7 DEF GoesOn
    <2>2. CleanersOK' /\ cleaner'[c] = Idle
        BY <1>6, <2>1, IdleIs DEF CleanersOK
    <2> QED BY <1>1, <1>3, <1>4, <1>6, <2>1, <2>2
<1>8. CASE Len(p) # 1
    <2>1. cleaner' = [cleaner EXCEPT ![c].plan = t]
        BY <1>1, <1>3, <1>5, <1>6, <1>8 DEF GoesOn
    <2>2. PICK J : J = [C EXCEPT !.plan = t]
        OBVIOUS
    <2>3. J \in CleanerSet /\ J.plan = t /\ J.at = "deletes" /\ J.known = C.known
        BY <1>2, <2>2 DEF CleanerSet
    <2>4. /\ cleaner'[c] = J /\ cleaner' \in [Cleaners -> CleanerSet]
          /\ \A d \in Cleaners : d # c => cleaner'[d] = cleaner[d]
        BY <1>1, <1>6, <2>1, <2>2, <2>3
    <2>5. t # << >>
        BY <1>4, <1>5, <1>8
    <2>6. CleanersOK'
        BY <1>6, <2>3, <2>4, <2>5 DEF CleanersOK
    <2>7. \A n \in DOMAIN t : n + 1 \in DOMAIN p /\ t[n] = p[n + 1]
        BY <1>4, <1>5
    <2> QED BY <1>1, <1>3, <1>4, <2>3, <2>4, <2>6, <2>7
<1> QED BY <1>7, <1>8

LEMMA TypedUnlinks == ASSUME LogCleanOK, Typed, NEW c \in Cleaners, Unlinks(c) PROVE Typed'
<1>1. CleanersOK /\ cleaner[c].at = "deletes" /\ GoesOn(c)
    BY DEF Unlinks, Typed
<1>2. CleanersOK' /\ Head(cleaner[c].plan) \in Ids
    BY <1>1, GoesOnIs
<1>3. PICK j \in Ids : j = Head(cleaner[c].plan)
    BY <1>2
<1>4. UNCHANGED <<row, nextId, generation, kept, hooks, now, stops, opened>>
    BY DEF Unlinks, database
<1>5. (RowsOK /\ HooksOK /\ NumbersOK)'
    BY <1>4 DEF Typed, RowsOK, HooksOK, NumbersOK
<1>6. CASE j \in Stuck
    <2>1. UNCHANGED <<log, handle>>
        BY <1>3, <1>6 DEF Unlinks
    <2>2. (LogsOK /\ HandlesOK)'
        BY <1>4, <2>1 DEF Typed, LogsOK, HandlesOK, Files
    <2> QED BY <1>2, <1>5, <2>2 DEF Typed
<1>7. CASE j \notin Stuck
    <2>1. log' = [log EXCEPT ![j] = NoLog] /\ handle' = [handle EXCEPT ![j] = IF @ = "linked" THEN "lost" ELSE @]
        BY <1>3, <1>7 DEF Unlinks
    <2>2. log \in [Ids -> File] /\ NoLog \in File /\ handle \in HandleSet
        BY AppendedIs DEF Typed, LogsOK, HandlesOK
    <2>3. LogsOK'
        BY <1>4, <2>1, <2>2 DEF Typed, LogsOK
    <2>4. handle' \in HandleSet /\ handle'[j] # "linked"
        BY <2>1, <2>2 DEF HandleSet
    <2>5. \A i \in Ids : handle'[i] # "none" <=> handle[i] # "none"
        BY <2>1, <2>2 DEF HandleSet
    <2>6. \A i \in Ids \ {j} : handle'[i] = handle[i] /\ log'[i] = log[i]
        BY <2>1, <2>2 DEF HandleSet
    <2>7. HandlesOK'
        BY <1>4, <2>4, <2>5, <2>6 DEF Typed, HandlesOK, Files
    <2> QED BY <1>2, <1>5, <2>3, <2>7 DEF Typed
<1> QED BY <1>6, <1>7

LEMMA TypedUnchanged == ASSUME Typed, UNCHANGED vars PROVE Typed'
BY DEF vars, database, files, daemon, Typed, RowsOK, LogsOK, HandlesOK, HooksOK, CleanersOK, NumbersOK, Files

LEMMA TypedNext == ASSUME LogCleanOK, Typed, [Next]_vars PROVE Typed'
<1>1. CASE Next
    <2>1. CASE Adds BY <2>1, TypedAdds
    <2>2. CASE ClearsHistory BY <2>2, TypedClearsHistory
    <2>3. CASE Restarts BY <2>3, TypedRestarts
    <2>4. CASE DeletesDatabase BY <2>4, TypedDeletesDatabase
    <2>5. CASE Tick BY <2>5, TypedTick
    <2>6. ASSUME NEW j \in Ids, Starts(j) PROVE Typed' BY <2>6, TypedStarts
    <2>7. ASSUME NEW j \in Ids, Prints(j) PROVE Typed' BY <2>7, TypedPrints
    <2>8. ASSUME NEW j \in Ids, ProcessEnds(j) \/ NeverStarts(j) PROVE Typed'
        <3>1. row[j].status \in Unfinished /\ \E outcome : Ends(j, outcome)
            BY <2>8 DEF ProcessEnds, NeverStarts, Unfinished
        <3> QED BY <3>1, TypedEnds
    <2>9. ASSUME NEW j \in Ids, RunsHook(j) PROVE Typed' BY <2>9, TypedRunsHook
    <2>10. ASSUME NEW c \in Cleaners, ReadsRows(c) PROVE Typed' BY <2>10, TypedReadsRows
    <2>11. ASSUME NEW c \in Cleaners, ListsFiles(c) PROVE Typed' BY <2>11, TypedListsFiles
    <2>12. ASSUME NEW c \in Cleaners, Unlinks(c) PROVE Typed' BY <2>12, TypedUnlinks
    <2>13. ASSUME NEW j \in Ids, LogOpens(j) PROVE Typed' BY <2>13, TypedLogOpens
    <2>14. ASSUME NEW j \in Ids, LogFails(j) PROVE Typed' BY <2>14, TypedLogFails
    <2> QED
        BY <1>1, <2>1, <2>2, <2>3, <2>4, <2>5, <2>6, <2>7, <2>8, <2>9, <2>10, <2>11, <2>12, <2>13, <2>14 DEF Next
<1>2. CASE UNCHANGED vars
    BY <1>2, TypedUnchanged
<1> QED BY <1>1, <1>2

(* The variables have their types; a running job has a pump and its log is  *)
(* there while the pump has it open by its name (daemon.py:1415-1470).      *)
THEOREM TypeCorrect == ASSUME LogCleanOK PROVE Spec => []TypeOK
<1>1. Init => Typed
    BY TypedInit
<1>2. Typed /\ [Next]_vars => Typed'
    BY TypedNext
<1>3. Typed => TypeOK
    BY TypedIsTypeOK
<1> QED BY <1>1, <1>2, <1>3, PTL DEF Spec

----------------------------------------------------------------------------
(* Whose output a log holds                                                *)

(* An operation that neither opens nor writes a log. *)
LEMMA OwnKept ==
    ASSUME OwnOutputOnly, UNCHANGED <<generation, log, opened>>
    PROVE  OwnOutputOnly'
BY DEF OwnOutputOnly

(* Appending adds the database's own number. *)
LEMMA OwnAppends ==
    ASSUME LogCleanOK, Typed, OwnOutputOnly, NEW j \in Ids, log' = Appended(j), UNCHANGED <<database, opened>>
    PROVE  OwnOutputOnly'
<1>1. log \in [Ids -> File] /\ generation' = generation /\ opened \subseteq Ids
    BY DEF Typed, LogsOK, NumbersOK, database
<1>2. log'[j].from = log[j].from \cup {generation} /\ \A i \in Ids : i # j => log'[i] = log[i]
    BY <1>1 DEF Appended
<1> QED BY <1>1, <1>2 DEF OwnOutputOnly

LEMMA OwnStep == ASSUME LogCleanOK, Typed, OwnOutputOnly, [Next]_vars PROVE OwnOutputOnly'
<1>1. log \in [Ids -> File] /\ opened \subseteq Ids
    BY DEF Typed, LogsOK, NumbersOK
<1>2. CASE Adds \/ ClearsHistory \/ Restarts \/ Tick \/ UNCHANGED vars
    BY <1>2, OwnKept DEF Adds, ClearsHistory, Restarts, Tick, vars, database, files
<1>3. CASE DeletesDatabase
    BY <1>3 DEF DeletesDatabase, OwnOutputOnly
<1>4. ASSUME NEW j \in Ids, Starts(j) \/ ProcessEnds(j) \/ NeverStarts(j) PROVE OwnOutputOnly'
    BY <1>4, OwnKept DEF Starts, ProcessEnds, NeverStarts, Ends, files
<1>5. ASSUME NEW j \in Ids, LogOpens(j) PROVE OwnOutputOnly'
    <2>1. log'[j].from = {generation} /\ \A i \in Ids : i # j => log'[i] = log[i]
        BY <1>1, <1>5 DEF LogOpens, OpensLog, Opened
    <2>2. generation' = generation /\ opened' = opened \cup {j}
        BY <1>5 DEF LogOpens, database
    <2> QED BY <1>1, <2>1, <2>2 DEF OwnOutputOnly
<1>6. ASSUME NEW j \in Ids, log' = log \/ log' = [log EXCEPT ![j] = NoLog], UNCHANGED <<database, opened>>
      PROVE  OwnOutputOnly'
    <2>1. \A i \in Ids : log'[i] = log[i] \/ log'[i] = NoLog
        BY <1>1, <1>6
    <2>2. generation' = generation /\ opened' = opened
        BY <1>6 DEF database
    <2> QED BY <1>1, <2>1, <2>2 DEF OwnOutputOnly, NoLog
<1>7. ASSUME NEW j \in Ids, LogFails(j) PROVE OwnOutputOnly'
    <2>1. (log' = log \/ log' = [log EXCEPT ![j] = NoLog]) /\ UNCHANGED <<database, opened>>
        BY <1>7 DEF LogFails
    <2> QED BY <1>6, <2>1
<1>8. ASSUME NEW j \in Ids, Prints(j) \/ RunsHook(j) PROVE OwnOutputOnly'
    BY <1>8, OwnAppends DEF Prints, RunsHook
<1>9. ASSUME NEW c \in Cleaners, ReadsRows(c) \/ ListsFiles(c) PROVE OwnOutputOnly'
    BY <1>9, OwnKept DEF ReadsRows, ListsFiles, database, files
<1>10. ASSUME NEW c \in Cleaners, Unlinks(c) PROVE OwnOutputOnly'
    <2>1. Head(cleaner[c].plan) \in Ids
        BY <1>10, GoesOnIs DEF Unlinks, Typed
    <2>2. PICK j \in Ids : j = Head(cleaner[c].plan)
        BY <2>1
    <2>3. (log' = log \/ log' = [log EXCEPT ![j] = NoLog]) /\ UNCHANGED <<database, opened>>
        BY <1>10, <2>2 DEF Unlinks
    <2> QED BY <1>6, <2>3
<1> QED BY <1>2, <1>3, <1>4, <1>5, <1>7, <1>8, <1>9, <1>10 DEF Next

(* However often the database is deleted and ids start at 1 again, whoever  *)
(* deletes logs, and whichever hooks write to logs that are gone, the log   *)
(* of a job whose pump could open it holds output of that job only          *)
(* (daemon.py `_keep_old_log` and the open in `_pump_log`).                 *)
THEOREM LogsHoldOwnOutput == ASSUME LogCleanOK PROVE Spec => []OwnOutputOnly
<1>1. Init => Typed /\ OwnOutputOnly
    BY TypedInit DEF Init, OwnOutputOnly
<1>2. Typed /\ OwnOutputOnly /\ [Next]_vars => (Typed /\ OwnOutputOnly)'
    BY TypedNext, OwnStep
<1> QED BY <1>1, <1>2, PTL DEF Spec

----------------------------------------------------------------------------
(* What cleaners know                                                      *)

(* Of the jobs a cleaner knows of, those it found ended and those it plans  *)
(* to delete the logs of are no longer unfinished, nor will they ever be.   *)
Known(c) ==
    /\ \A j \in cleaner[c].known : j < nextId
    /\ cleaner[c].at = "idle" => cleaner[c] = Idle
    /\ cleaner[c].at = "lists" => \A j \in cleaner[c].known :
         /\ cleaner[c].seen[j].status # "none"
         /\ cleaner[c].seen[j].status = "ended" => row[j].status \notin Unfinished
    /\ \A n \in DOMAIN cleaner[c].plan :
         cleaner[c].plan[n] \in cleaner[c].known => row[cleaner[c].plan[n]].status \notin Unfinished

AllKnown == \A c \in Cleaners : Known(c)

LEMMA KnownIdle == ASSUME LogCleanOK, NEW c \in Cleaners, cleaner[c] = Idle PROVE Known(c)
BY IdleIs DEF Known

(* No id that was handed out comes back to an unfinished job. *)
LEMMA KnownKept ==
    ASSUME LogCleanOK, Typed, NEW c \in Cleaners, Known(c), cleaner'[c] = cleaner[c],
           nextId' \in Nat, nextId' >= nextId,
           \A j \in Ids : j < nextId /\ row'[j].status \in Unfinished => row[j].status \in Unfinished
    PROVE  Known(c)'
<1>1. PICK C \in CleanerSet : C = cleaner[c]
    BY DEF Typed, CleanersOK
<1>2. C.known \subseteq Ids /\ \A j \in Ids : j \in Nat /\ nextId \in Nat
    BY DEF CleanerSet, Ids, LogCleanOK, Typed, RowsOK
<1>3. \A j \in C.known : j < nextId' /\ (row[j].status \notin Unfinished => row'[j].status \notin Unfinished)
    BY <1>1, <1>2 DEF Known
<1> QED BY <1>1, <1>3 DEF Known

LEMMA KnownReadsRows ==
    ASSUME LogCleanOK, Typed, NEW c \in Cleaners, ReadsRows(c)
    PROVE  Known(c)'
<1>1. PICK K \in SUBSET Ids : K = {j \in Ids : row[j].status # "none"}
    OBVIOUS
<1>2. PICK s \in SeenSet : s = Rows
    BY RowsIs DEF Typed
<1>3. PICK J : J = [Idle EXCEPT !.at = "lists", !.seen = s, !.known = K]
    OBVIOUS
<1>4. J \in CleanerSet
    BY <1>3, IdleIs DEF CleanerSet
<1>5. J.at = "lists" /\ J.seen = s /\ J.known = K /\ J.plan = << >>
    <2>1. J.at = "lists" /\ J.seen = s /\ J.known = K /\ J.plan = Idle.plan
        BY <1>3, <1>4, IdleIs DEF CleanerSet
    <2> QED BY <2>1, IdleIs
<1>6. cleaner'[c] = J /\ row' = row /\ nextId' = nextId
    BY <1>1, <1>2, <1>3 DEF ReadsRows, database, Typed, CleanersOK
<1>7. \A j \in K : j < nextId
    <2> SUFFICES ASSUME NEW j \in K, ~(j < nextId) PROVE FALSE
        OBVIOUS
    <2>1. j \in Ids /\ j >= nextId
        BY DEF Ids, LogCleanOK, Typed, RowsOK
    <2>2. row[j] = NoRow
        BY <2>1 DEF Typed, RowsOK
    <2> QED BY <1>1, <2>2 DEF NoRow
<1>8. \A j \in K : s[j].status # "none" /\ (s[j].status = "ended" => row[j].status \notin Unfinished)
    <2>1. \A j \in Ids : /\ s[j].status = "none" <=> row[j].status = "none"
                         /\ s[j].status = "ended" => row[j].status = "ended"
        BY <1>2, RowsIs DEF Typed
    <2> QED BY <1>1, <2>1 DEF Unfinished
<1> QED BY <1>5, <1>6, <1>7, <1>8 DEF Known

LEMMA KnownListsFiles ==
    ASSUME LogCleanOK, Typed, NEW c \in Cleaners, Known(c), ListsFiles(c)
    PROVE  Known(c)'
<1>1. PICK C \in CleanerSet : C = cleaner[c]
    BY DEF Typed, CleanersOK
<1>2. C.seen \in SeenSet /\ C.known \in SUBSET Ids /\ C.at = "lists"
    BY <1>1 DEF CleanerSet, ListsFiles
<1>3. PICK K \in SUBSET Ids, p \in Plans : K = C.known /\ p = Plan(C.seen)
    BY <1>2, PlanIs DEF Typed
<1>4. \A n \in DOMAIN p : C.seen[p[n]].status \in {"none", "ended"}
    BY <1>2, <1>3, PlanIs DEF Typed, Deletable
<1>5. \A n \in DOMAIN p : p[n] \in K => row[p[n]].status \notin Unfinished
    BY <1>1, <1>2, <1>3, <1>4 DEF Known
<1>6. PICK J : J = [Idle EXCEPT !.at = "deletes", !.known = K, !.plan = p]
    OBVIOUS
<1>7. J \in CleanerSet
    BY <1>6, IdleIs DEF CleanerSet
<1>8. J.at = "deletes" /\ J.known = K /\ J.plan = p
    BY <1>6, <1>7, IdleIs DEF CleanerSet
<1>9. cleaner' = [cleaner EXCEPT ![c] = IF p = << >> THEN Idle ELSE J]
    BY <1>1, <1>3, <1>6 DEF ListsFiles
<1>10. row' = row /\ nextId' = nextId /\ (cleaner'[c] = Idle \/ cleaner'[c] = J)
    BY <1>9 DEF ListsFiles, database, Typed, CleanersOK
<1>11. CASE cleaner'[c] = Idle
    BY <1>11, IdleIs DEF Known
<1>12. CASE cleaner'[c] = J
    <2>1. \A j \in K : j < nextId
        BY <1>1, <1>3 DEF Known
    <2> QED BY <1>5, <1>8, <1>10, <1>12, <2>1 DEF Known
<1> QED BY <1>10, <1>11, <1>12

LEMMA KnownUnlinks ==
    ASSUME LogCleanOK, Typed, NEW c \in Cleaners, Known(c), Unlinks(c)
    PROVE  Known(c)'
<1>1. /\ row' = row /\ nextId' = nextId
      /\ \/ cleaner'[c] = Idle
         \/ /\ cleaner'[c].at = "deletes" /\ cleaner'[c].known = cleaner[c].known
            /\ \A n \in DOMAIN cleaner'[c].plan :
                 n + 1 \in DOMAIN cleaner[c].plan /\ cleaner'[c].plan[n] = cleaner[c].plan[n + 1]
    BY GoesOnIs DEF Unlinks, database, Typed
<1>2. CASE cleaner'[c] = Idle
    BY <1>2, IdleIs DEF Known
<1>3. CASE cleaner'[c] # Idle
    BY <1>1, <1>3 DEF Known
<1> QED BY <1>2, <1>3

LEMMA KnownStep == ASSUME LogCleanOK, Typed, AllKnown, [Next]_vars PROVE AllKnown'
<1> SUFFICES ASSUME NEW d \in Cleaners PROVE Known(d)'
    BY DEF AllKnown
<1>1. Known(d) /\ row \in [Ids -> RowSet] /\ nextId \in Nat /\ cleaner \in [Cleaners -> CleanerSet]
    BY DEF AllKnown, Typed, RowsOK, CleanersOK, LogCleanOK
<1>2. CASE Adds
    <2>1. \A j \in Ids : j < nextId => row'[j] = row[j]
        BY <1>1, <1>2 DEF Adds
    <2>2. cleaner' = cleaner /\ nextId' = nextId + 1
        BY <1>2 DEF Adds
    <2> QED BY <1>1, <2>1, <2>2, KnownKept
<1>3. CASE ClearsHistory
    <2>1. \A j \in Ids : row'[j] = row[j] \/ row'[j] = NoRow
        BY <1>1, <1>3 DEF ClearsHistory
    <2> QED BY <1>1, <1>3, <2>1, KnownKept DEF ClearsHistory, NoRow, Unfinished
<1>4. CASE Restarts
    <2>1. CASE d = Timer
        <3>1. cleaner'[d] = Idle
            BY <1>1, <1>4, <2>1 DEF Restarts
        <3> QED BY <3>1, IdleIs DEF Known
    <2>2. CASE d # Timer
        <3> DEFINE E == {j \in Ids : row[j].status = "running"}
        <3>1. row' = Pruned(Finish(E))
            <4>1. Finish(E) = [j \in Ids |-> IF row[j].status = "running" THEN Over(j) ELSE row[j]]
                BY DEF Finish
            <4> QED BY <1>4, <4>1 DEF Restarts
        <3>2. \A j \in Ids : Pruned(Finish(E))[j].status \in Unfinished => Pruned(Finish(E))[j] = row[j]
            BY FinishIs DEF Typed, Unfinished
        <3>3. cleaner'[d] = cleaner[d] /\ nextId' = nextId
            BY <1>1, <1>4, <2>2 DEF Restarts
        <3> HIDE DEF E
        <3>4. \A j \in Ids : row'[j].status \in Unfinished => row[j].status \in Unfinished
            BY <3>1, <3>2
        <3> QED BY <1>1, <3>3, <3>4, KnownKept
    <2> QED BY <2>1, <2>2
<1>5. CASE DeletesDatabase
    <2>1. cleaner'[d] = Idle
        BY <1>1, <1>5 DEF DeletesDatabase, Known
    <2> QED BY <2>1, IdleIs DEF Known
<1>6. CASE UNCHANGED <<row, nextId, cleaner>>
    BY <1>1, <1>6, KnownKept
<1>7. ASSUME NEW j \in Ids, Starts(j) PROVE Known(d)'
    <2>1. row[j].status \in Unfinished /\ \A i \in Ids : i # j => row'[i] = row[i]
        BY <1>1, <1>7 DEF Starts, Unfinished
    <2> QED BY <1>1, <1>7, <2>1, KnownKept DEF Starts
<1>8. ASSUME NEW j \in Ids, ProcessEnds(j) \/ NeverStarts(j) PROVE Known(d)'
    <2>1. PICK outcome : Ends(j, outcome) /\ row[j].status \in Unfinished
        BY <1>8 DEF ProcessEnds, NeverStarts, Unfinished
    <2>2. row' = Pruned(Finish({j}))
        BY <1>1, <2>1, EndsFinishes DEF Ends
    <2>3. \A i \in Ids : Pruned(Finish({j}))[i].status \in Unfinished => Pruned(Finish({j}))[i] = row[i]
        BY <2>1, FinishIs DEF Typed
    <2>4. \A i \in Ids : row'[i].status \in Unfinished => row[i].status \in Unfinished
        BY <2>2, <2>3
    <2>5. cleaner' = cleaner /\ nextId' = nextId
        BY <2>1 DEF Ends
    <2> QED BY <1>1, <2>4, <2>5, KnownKept
<1>9. ASSUME NEW c \in Cleaners, ReadsRows(c) \/ ListsFiles(c) \/ Unlinks(c) PROVE Known(d)'
    <2>1. CASE d = c
        BY <1>1, <1>9, <2>1, KnownReadsRows, KnownListsFiles, KnownUnlinks
    <2>2. CASE d # c
        <3>1. cleaner'[d] = cleaner[d]
            BY <1>1, <1>9, <2>2 DEF ReadsRows, ListsFiles, Unlinks, GoesOn
        <3>2. row' = row /\ nextId' = nextId
            BY <1>9 DEF ReadsRows, ListsFiles, Unlinks, database
        <3> QED BY <1>1, <3>1, <3>2, KnownKept
    <2> QED BY <2>1, <2>2
<1>10. CASE Tick \/ UNCHANGED vars \/ \E j \in Ids : LogOpens(j) \/ LogFails(j) \/ Prints(j) \/ RunsHook(j)
    BY <1>6, <1>10 DEF Tick, vars, LogOpens, LogFails, Prints, RunsHook, database
<1> QED BY <1>2, <1>3, <1>4, <1>5, <1>7, <1>8, <1>9, <1>10 DEF Next

LEMMA KnownSpared ==
    ASSUME LogCleanOK, Typed, NEW c \in Cleaners, Known(c), Unlinks(c),
           NEW j \in Ids, log'[j] # log[j], row[j].status \in Unfinished
    PROVE  j \notin cleaner[c].known
<1>1. Head(cleaner[c].plan) \in Ids /\ 1 \in DOMAIN cleaner[c].plan /\ cleaner[c].plan[1] = Head(cleaner[c].plan)
    BY GoesOnIs DEF Unlinks, Typed
<1>2. PICK h \in Ids : h = Head(cleaner[c].plan)
    BY <1>1
<1>3. log' = log \/ log' = [log EXCEPT ![h] = NoLog]
    BY <1>2 DEF Unlinks
<1>4. j = h
    BY <1>3 DEF Typed, LogsOK
<1> QED BY <1>1, <1>2, <1>4 DEF Known

(* No cleaner, of any number that run side by side, takes the log of a      *)
(* queued, running or frozen job that it saw a row of, whatever happens     *)
(* between its reading of the rows and its last deletion                    *)
(* (logclean.py `plan` and `delete`).                                       *)
THEOREM UnfinishedLogsSpared == ASSUME LogCleanOK PROVE Spec => UnfinishedLogKept
<1>1. Init => Typed /\ AllKnown
    BY TypedInit, KnownIdle DEF Init, AllKnown
<1>2. Typed /\ AllKnown /\ [Next]_vars => (Typed /\ AllKnown)'
    BY TypedNext, KnownStep
<1>3. Typed /\ AllKnown /\ [Next]_vars =>
        [\A c \in Cleaners : Unlinks(c) =>
            \A j \in Ids : log'[j] # log[j] /\ row[j].status \in Unfinished => j \notin cleaner[c].known]_vars
    BY KnownSpared DEF AllKnown
<1> QED BY <1>1, <1>2, <1>3, PTL DEF Spec, UnfinishedLogKept

----------------------------------------------------------------------------
(* Plans: sums of sizes and the walk for the size limit, both folds of the  *)
(* community modules, by induction on the number of files                   *)

(* A set of numbers has a least one: what the inductions below rest on. *)
LEMMA Least ==
    ASSUME NEW T \in SUBSET Nat, T # {}
    PROVE  \E x \in T : \A y \in T : x <= y
<1> DEFINE R == {ss \in Nat \X Nat : ss[1] < ss[2]}
<1>1. IsWellFoundedOn(R, Nat)
    BY NatLessThanWellFounded DEF OpToRel
<1> HIDE DEF R
<1>2. PICK x \in T : \A y \in T : ~(<<y, x>> \in R)
    BY <1>1, WFMin
<1>3. ASSUME NEW y \in T PROVE x <= y
    <2>1. <<y, x>> \in Nat \X Nat /\ <<y, x>>[1] = y /\ <<y, x>>[2] = x
        OBVIOUS
    <2>2. ~(y < x)
        BY <1>2, <2>1 DEF R
    <2> QED BY <2>2
<1> QED BY <1>3

(* Good holds all numbers when it holds 0 and each number's successor. *)
LEMMA Climb ==
    ASSUME NEW Good, 0 \in Good, \A n \in Nat : n \in Good => n + 1 \in Good
    PROVE  Nat \subseteq Good
<1> SUFFICES ASSUME ~(Nat \subseteq Good) PROVE FALSE
    OBVIOUS
<1>1. PICK n \in Nat \ Good : \A m \in Nat \ Good : n <= m
    BY Least
<1>2. n - 1 \in Nat /\ n - 1 + 1 = n
    BY <1>1
<1>3. n - 1 \in Good
    BY <1>1, <1>2
<1> QED BY <1>1, <1>2, <1>3

(* What the folds of the community modules define: a value for each part of *)
(* D, from the value of the part without the element that is picked.        *)
Folded(g, D, base, step, pick) ==
    g = [s \in SUBSET D |-> IF s = {} THEN base ELSE step[<<pick[s], g[s \ {pick[s]}]>>]]

LEMMA FoldExists ==
    ASSUME NEW D, IsFiniteSet(D), NEW A, NEW base \in A, NEW step \in [D \X A -> A],
           NEW pick, \A s \in SUBSET D : s # {} => pick[s] \in s
    PROVE  \E g \in [SUBSET D -> A] : Folded(g, D, base, step, pick)
<1> DEFINE Small(n) == {s \in SUBSET D : Cardinality(s) <= n}
           Value(g, s) == IF s = {} THEN base ELSE step[<<pick[s], g[s \ {pick[s]}]>>]
           Fits(g, n) == g \in [Small(n) -> A] /\ \A s \in Small(n) : g[s] = Value(g, s)
           Good == {n \in Nat : \E g : Fits(g, n)}
<1>1. \A s \in SUBSET D : IsFiniteSet(s) /\ Cardinality(s) \in Nat
    BY FS_Subset, FS_CardinalityType
<1>2. 0 \in Good
    <2>1. \A s \in Small(0) : s = {}
        BY <1>1, FS_EmptySet
    <2>2. Fits([s \in Small(0) |-> base], 0)
        BY <2>1
    <2> QED BY <2>2
<1>3. ASSUME NEW n \in Nat, n \in Good PROVE n + 1 \in Good
    <2>1. PICK g : Fits(g, n)
        BY <1>3
    <2>2. \A s \in Small(n) : s \in Small(n + 1)
        BY <1>1
    <2>3. ASSUME NEW s \in Small(n + 1), s # {}
          PROVE  pick[s] \in s /\ s \ {pick[s]} \in Small(n)
        <3>1. pick[s] \in s /\ s \in SUBSET D
            BY <2>3
        <3>2. IsFiniteSet(s) /\ Cardinality(s \ {pick[s]}) = Cardinality(s) - 1
            BY <1>1, <3>1, FS_RemoveElement
        <3>3. Cardinality(s) \in Nat /\ Cardinality(s) <= n + 1
            BY <1>1
        <3> QED BY <3>1, <3>2, <3>3
    <2> HIDE DEF Small
    <2>4. ASSUME NEW s \in Small(n + 1) PROVE Value(g, s) \in A
        <3>1. CASE s = {}
            BY <3>1
        <3>2. CASE s # {}
            <4>1. g[s \ {pick[s]}] \in A /\ pick[s] \in D
                BY <2>1, <2>3, <3>2 DEF Small
            <4> QED BY <3>2, <4>1
        <3> QED BY <3>1, <3>2
    <2> DEFINE h == [s \in Small(n + 1) |-> Value(g, s)]
    <2>5. h \in [Small(n + 1) -> A]
        BY <2>4
    <2>6. \A s \in Small(n) : h[s] = g[s]
        BY <2>1, <2>2
    <2>7. \A s \in Small(n + 1) : h[s] = Value(g, s)
        OBVIOUS
    <2> HIDE DEF h
    <2>8. ASSUME NEW s \in Small(n + 1) PROVE h[s] = Value(h, s)
        BY <2>3, <2>6, <2>7
    <2>9. Fits(h, n + 1)
        BY <2>5, <2>8
    <2>10. n + 1 \in Nat
        OBVIOUS
    <2> HIDE DEF Fits
    <2> QED BY <2>9, <2>10
<1>4. Nat \subseteq Good
    <2> HIDE DEF Good
    <2> QED BY <1>2, <1>3, Climb
<1>5. PICK g : Fits(g, Cardinality(D))
    BY <1>1, <1>4
<1>6. Small(Cardinality(D)) = SUBSET D
    BY <1>1, FS_Subset
<1>7. g = [s \in SUBSET D |-> Value(g, s)]
    BY <1>5, <1>6
<1> QED BY <1>5, <1>6, <1>7 DEF Folded

(* Two functions of the parts of a set that agree whenever they agree on the *)
(* part without some element are the same.                                   *)
Agree(g, h, E) ==
    \A s \in SUBSET E : IF s = {} THEN g[s] = h[s] ELSE \E j \in s : g[s \ {j}] = h[s \ {j}] => g[s] = h[s]

LEMMA FoldSame ==
    ASSUME NEW E, IsFiniteSet(E), NEW g, NEW h, Agree(g, h, E)
    PROVE  \A s \in SUBSET E : g[s] = h[s]
<1> DEFINE Good == {n \in Nat : \A s \in SUBSET E : Cardinality(s) = n => g[s] = h[s]}
<1>1. \A s \in SUBSET E : IsFiniteSet(s) /\ Cardinality(s) \in Nat
    BY FS_Subset, FS_CardinalityType
<1>2. 0 \in Good
    <2>1. g[{}] = h[{}]
        BY DEF Agree
    <2> QED BY <1>1, <2>1, FS_EmptySet
<1>3. ASSUME NEW n \in Nat, n \in Good, NEW s \in SUBSET E, Cardinality(s) = n + 1
      PROVE  g[s] = h[s]
    <2>1. s # {} /\ IsFiniteSet(s)
        <3>1. Cardinality({}) = 0 /\ n + 1 # 0
            BY FS_EmptySet
        <3> QED BY <1>1, <1>3, <3>1
    <2>2. PICK j \in s : g[s \ {j}] = h[s \ {j}] => g[s] = h[s]
        BY <2>1 DEF Agree
    <2>3. Cardinality(s \ {j}) = n
        <3>1. Cardinality(s \ {j}) = Cardinality(s) - 1
            BY <2>1, FS_RemoveElement
        <3> QED BY <1>3, <3>1
    <2> QED BY <1>3, <2>2, <2>3
<1>4. \A n \in Nat : n \in Good => n + 1 \in Good
    BY <1>3
<1>5. Nat \subseteq Good
    <2> HIDE DEF Good
    <2> QED BY <1>2, <1>4, Climb
<1> QED BY <1>1, <1>5

LEMMA IdsFinite == ASSUME LogCleanOK PROVE IsFiniteSet(Ids)
BY FS_Interval DEF Ids, LogCleanOK

(* Total as a fold: a log's size is added, any log is picked. *)
Sizes == [p \in Ids \X Nat |-> log[p[1]].size + p[2]]
AnyOf == [s \in SUBSET Ids |-> CHOOSE x \in s : TRUE]

LEMMA SizesIs ==
    ASSUME LogsOK
    PROVE  Sizes \in [Ids \X Nat -> Nat] /\ \A j \in Ids, n \in Nat : Sizes[<<j, n>>] = log[j].size + n
<1>1. \A j \in Ids : log[j].size \in Nat
    BY DEF LogsOK, File
<1>2. \A p \in Ids \X Nat : log[p[1]].size + p[2] \in Nat
    BY <1>1
<1>3. ASSUME NEW j \in Ids, NEW n \in Nat PROVE Sizes[<<j, n>>] = log[j].size + n
    <2>1. <<j, n>> \in Ids \X Nat /\ <<j, n>>[1] = j /\ <<j, n>>[2] = n
        OBVIOUS
    <2> QED BY <2>1 DEF Sizes
<1> QED BY <1>2, <1>3 DEF Sizes

(* Total is the fold whose existence FoldExists shows. *)
LEMMA TotalFolds ==
    ASSUME LogCleanOK, LogsOK, NEW g \in [SUBSET Ids -> Nat], Folded(g, Ids, 0, Sizes, AnyOf),
           NEW S \in SUBSET Ids
    PROVE  Total(S) = g[S]
<1> DEFINE Sum(f) == f = [s \in SUBSET S |-> IF s = {} THEN 0
                                             ELSE log[CHOOSE x \in s : TRUE].size + f[s \ {CHOOSE x \in s : TRUE}]]
           h == [s \in SUBSET S |-> g[s]]
<1>1. \A s \in SUBSET Ids : s # {} => AnyOf[s] \in s /\ AnyOf[s] = CHOOSE x \in s : TRUE
    BY DEF AnyOf
<1>2. ASSUME NEW s \in SUBSET S, s # {}
      PROVE  g[s] = log[CHOOSE x \in s : TRUE].size + h[s \ {CHOOSE x \in s : TRUE}]
    <2>1. PICK j \in s : j = AnyOf[s] /\ j = CHOOSE x \in s : TRUE
        BY <1>1, <1>2
    <2>2. g[s] = Sizes[<<j, g[s \ {j}]>>]
        BY <1>2, <2>1 DEF Folded
    <2>3. g[s \ {j}] \in Nat /\ j \in Ids /\ h[s \ {j}] = g[s \ {j}]
        OBVIOUS
    <2>4. g[s] = log[j].size + h[s \ {j}]
        BY <2>2, <2>3, SizesIs
    <2> QED BY <2>1, <2>4
<1>3. g[{}] = 0
    BY DEF Folded
<1>4. Sum(h)
    <2>1. \A s \in SUBSET S : h[s] = IF s = {} THEN 0
                                     ELSE log[CHOOSE x \in s : TRUE].size + h[s \ {CHOOSE x \in s : TRUE}]
        <3> SUFFICES ASSUME NEW s \in SUBSET S
                     PROVE  h[s] = IF s = {} THEN 0
                                   ELSE log[CHOOSE x \in s : TRUE].size + h[s \ {CHOOSE x \in s : TRUE}]
            OBVIOUS
        <3>1. h[s] = g[s]
            OBVIOUS
        <3> HIDE DEF h
        <3> QED BY <1>2, <1>3, <3>1
    <2>2. h = [s \in SUBSET S |-> h[s]]
        OBVIOUS
    <2> HIDE DEF h
    <2> QED BY <2>1, <2>2
<1>5. Total(S) = (CHOOSE f : Sum(f))[S]
    BY DEF Total, MapThenSumSet, MapThenFoldSet
<1> DEFINE total == CHOOSE f : Sum(f)
<1>6. Sum(total)
    <2> HIDE DEF Sum, h
    <2> QED BY <1>4
<1>7. total[S] = g[S]
    <2> HIDE DEF total
    <2>1. \A s \in SUBSET S : total[s] = IF s = {} THEN 0
              ELSE log[CHOOSE x \in s : TRUE].size + total[s \ {CHOOSE x \in s : TRUE}]
        BY <1>6
    <2>2. ASSUME NEW s \in SUBSET S, s # {}
          PROVE  \E j \in s : total[s \ {j}] = h[s \ {j}] => total[s] = h[s]
        <3>1. PICK j \in s : j = CHOOSE x \in s : TRUE
            BY <2>2
        <3>2. total[s] = log[j].size + total[s \ {j}] /\ h[s] = log[j].size + h[s \ {j}]
            <4>1. total[s] = log[j].size + total[s \ {j}]
                BY <2>1, <2>2, <3>1
            <4>2. h[s] = log[j].size + h[s \ {j}]
                BY <1>2, <2>2, <3>1
            <4> QED BY <4>1, <4>2
        <3> QED BY <3>2
    <2>3. total[{}] = h[{}]
        BY <1>3, <2>1
    <2>4. IsFiniteSet(S)
        BY IdsFinite, FS_Subset
    <2> HIDE DEF h
    <2>5. Agree(total, h, S)
        BY <2>2, <2>3 DEF Agree
    <2>6. \A s \in SUBSET S : total[s] = h[s]
        BY <2>4, <2>5, FoldSame
    <2> QED BY <2>6 DEF h
<1> QED BY <1>5, <1>7

(* The total of no logs is 0, and any log adds its size to that of others. *)
LEMMA TotalIs ==
    ASSUME LogCleanOK, LogsOK
    PROVE  /\ Total({}) = 0
           /\ \A S \in SUBSET Ids : Total(S) \in Nat
           /\ \A S \in SUBSET Ids : \A j \in S : Total(S) = log[j].size + Total(S \ {j})
<1>1. PICK t \in [SUBSET Ids -> Nat] : Folded(t, Ids, 0, Sizes, AnyOf)
    <2>1. \A s \in SUBSET Ids : s # {} => AnyOf[s] \in s
        BY DEF AnyOf
    <2> QED BY <2>1, IdsFinite, SizesIs, FoldExists
<1>2. \A S \in SUBSET Ids : Total(S) = t[S]
    BY <1>1, TotalFolds
<1>3. t[{}] = 0
    BY <1>1 DEF Folded
<1>4. ASSUME NEW S \in SUBSET Ids, S # {}
      PROVE  \E y \in S : y = AnyOf[S] /\ t[S] = log[y].size + t[S \ {y}]
    <2>1. PICK y \in S : y = AnyOf[S]
        BY <1>4 DEF AnyOf
    <2>2. t[S] = Sizes[<<y, t[S \ {y}]>>]
        BY <1>1, <1>4, <2>1 DEF Folded
    <2>3. t[S \ {y}] \in Nat
        OBVIOUS
    <2> QED BY <2>1, <2>2, <2>3, SizesIs
<1> DEFINE Good == {n \in Nat : \A S \in SUBSET Ids : \A j \in S :
                       Cardinality(S) = n => t[S] = log[j].size + t[S \ {j}]}
<1>5. \A S \in SUBSET Ids : IsFiniteSet(S) /\ Cardinality(S) \in Nat
    BY IdsFinite, FS_Subset, FS_CardinalityType
<1>6. \A j \in Ids : log[j].size \in Nat
    BY DEF LogsOK, File
<1>7. 0 \in Good
    BY <1>5, FS_EmptySet
<1>8. ASSUME NEW n \in Nat, n \in Good, NEW S \in SUBSET Ids, NEW j \in S, Cardinality(S) = n + 1
      PROVE  t[S] = log[j].size + t[S \ {j}]
    <2>1. PICK y \in S : y = AnyOf[S] /\ t[S] = log[y].size + t[S \ {y}]
        BY <1>4
    <2>2. CASE y = j
        BY <2>1, <2>2
    <2>3. CASE y # j
        <3>1. \A i \in S : Cardinality(S \ {i}) = n
            <4>1. \A i \in S : Cardinality(S \ {i}) = Cardinality(S) - 1
                BY <1>5, FS_RemoveElement
            <4> QED BY <1>8, <4>1
        <3>2. t[S \ {y}] = log[j].size + t[(S \ {y}) \ {j}]
            BY <1>8, <2>3, <3>1
        <3>3. t[S \ {j}] = log[y].size + t[(S \ {j}) \ {y}]
            BY <1>8, <2>3, <3>1
        <3>4. (S \ {y}) \ {j} = (S \ {j}) \ {y}
            OBVIOUS
        <3>5. PICK R \in SUBSET Ids : R = (S \ {j}) \ {y}
            OBVIOUS
        <3>6. PICK a \in Nat, b \in Nat : a = log[j].size /\ b = log[y].size
            BY <1>6
        <3>7. t[S \ {y}] = a + t[R] /\ t[S \ {j}] = b + t[R] /\ t[S] = b + t[S \ {y}] /\ t[R] \in Nat
            BY <2>1, <3>2, <3>3, <3>4, <3>5, <3>6
        <3>8. t[S] = a + t[S \ {j}]
            BY <3>7
        <3> QED BY <3>6, <3>8
    <2> QED BY <2>2, <2>3
<1>9. ASSUME NEW n \in Nat, n \in Good PROVE n + 1 \in Good
    <2>1. \A S \in SUBSET Ids : \A j \in S : Cardinality(S) = n + 1 => t[S] = log[j].size + t[S \ {j}]
        BY <1>8, <1>9
    <2> QED BY <2>1
<1>10. Nat \subseteq Good
    <2> HIDE DEF Good
    <2> QED BY <1>7, <1>9, Climb
<1>11. ASSUME NEW S \in SUBSET Ids, NEW j \in S PROVE t[S] = log[j].size + t[S \ {j}]
    <2>1. PICK n \in Good : n = Cardinality(S)
        BY <1>5, <1>10
    <2> QED BY <2>1
<1> QED BY <1>2, <1>3, <1>11

LEMMA MaxIs ==
    ASSUME NEW n \in Nat, NEW T \in SUBSET (1..n), T # {}
    PROVE  Max(T) \in T /\ \A y \in T : y <= Max(T)
<1> DEFINE U == {n - y : y \in T}
<1>1. U \in SUBSET Nat /\ U # {}
    <2>1. ASSUME NEW y \in T PROVE n - y \in Nat
        <3>1. y \in 1..n
            OBVIOUS
        <3> QED BY <3>1
    <2> QED BY <2>1
<1>2. PICK x \in U : \A y \in U : x <= y
    BY <1>1, Least
<1>3. PICK m \in T : x = n - m
    BY <1>2
<1>4. ASSUME NEW y \in T PROVE m >= y
    <2>1. n - m <= n - y
        BY <1>2, <1>3
    <2>2. m \in 1..n /\ y \in 1..n
        OBVIOUS
    <2> QED BY <2>1, <2>2
<1>5. \E z \in T : \A y \in T : z >= y
    BY <1>4
<1>6. Max(T) \in T /\ \A y \in T : Max(T) >= y
    BY <1>5 DEF Max
<1>7. \A y \in T : y \in 1..n
    OBVIOUS
<1> QED BY <1>6, <1>7

(* One step of the walk for the size limit. *)
Taken == [chosen : SUBSET Ids, total : Int]
After(acc, j) ==
    IF acc.total <= MaxBytes \/ j \in acc.chosen THEN acc
    ELSE [chosen |-> acc.chosen \cup {j}, total |-> acc.total - log[j].size]

LEMMA AfterIs ==
    ASSUME LogsOK, NEW acc \in Taken, NEW j \in Ids
    PROVE  After(acc, j) \in Taken
<1>1. log[j].size \in Nat
    BY DEF LogsOK, File
<1> QED BY <1>1 DEF After, Taken

Walk(base, order) == FoldLeft(After, base, order)

WalkOver(w, k, base, order) ==
    w[0] = base /\ (\A n \in 1..k : w[n] = After(w[n - 1], order[n])) /\ w[k] = Walk(base, order)

(* The fold of the walk goes through the list from its first file to its last. *)
LEMMA WalkIs ==
    ASSUME LogsOK, NEW k \in Nat, NEW order \in [1..k -> Ids], NEW base \in Taken
    PROVE  \E w : WalkOver(w, k, base, order)
<1> DEFINE Folds(f) == f = [s \in SUBSET (1..k) |-> IF s = {} THEN base
                                                    ELSE After(f[s \ {Max(s)}], order[Max(s)])]
           step == [p \in (1..k) \X Taken |-> After(p[2], order[p[1]])]
           pick == [s \in SUBSET (1..k) |-> Max(s)]
<1>1. \A s \in SUBSET (1..k) : s # {} => pick[s] \in s /\ pick[s] = Max(s)
    BY MaxIs
<1>2. step \in [(1..k) \X Taken -> Taken]
    BY AfterIs
<1>3. \A i \in 1..k, acc \in Taken : step[<<i, acc>>] = After(acc, order[i])
    OBVIOUS
<1>4. IsFiniteSet(1..k)
    BY FS_Interval
<1> HIDE DEF step, pick
<1>5. PICK g \in [SUBSET (1..k) -> Taken] : Folded(g, 1..k, base, step, pick)
    BY <1>1, <1>2, <1>4, FoldExists
<1>6. Folds(g)
    <2>1. ASSUME NEW s \in SUBSET (1..k)
          PROVE  g[s] = IF s = {} THEN base ELSE After(g[s \ {Max(s)}], order[Max(s)])
        <3>1. CASE s = {}
            BY <1>5, <3>1 DEF Folded
        <3>2. CASE s # {}
            <4>1. PICK i \in s : i = Max(s) /\ i = pick[s]
                BY <1>1, <3>2
            <4>2. g[s] = step[<<i, g[s \ {i}]>>]
                BY <1>5, <3>2, <4>1 DEF Folded
            <4>3. i \in 1..k /\ g[s \ {i}] \in Taken
                OBVIOUS
            <4> QED BY <1>3, <3>2, <4>1, <4>2, <4>3
        <3> QED BY <3>1, <3>2
    <2>2. g = [s \in SUBSET (1..k) |-> g[s]]
        OBVIOUS
    <2> QED BY <2>1, <2>2
<1> DEFINE f == CHOOSE h : Folds(h)
<1>7. Folds(f)
    <2> HIDE DEF Folds
    <2> QED BY <1>6
<1>8. DOMAIN order = 1..k
    OBVIOUS
<1>9. FoldLeft(After, base, order) = (CHOOSE h : Folds(h))[DOMAIN order]
    BY <1>8 DEF FoldLeft, MapThenFoldSet
<1>10. Walk(base, order) = f[1..k]
    BY <1>8, <1>9 DEF Walk
<1>11. \A s \in SUBSET (1..k) : f[s] = IF s = {} THEN base ELSE After(f[s \ {Max(s)}], order[Max(s)])
    <2> HIDE DEF f
    <2> QED BY <1>7
<1> HIDE DEF f, Folds
<1> DEFINE w == [n \in 0..k |-> f[1..n]]
<1>12. w[0] = base
    <2>1. 1..0 = {}
        OBVIOUS
    <2>2. f[1..0] = base
        BY <1>11, <2>1
    <2> QED BY <2>2
<1>13. ASSUME NEW n \in 1..k PROVE w[n] = After(w[n - 1], order[n])
    <2>1. 1..n \in SUBSET (1..k) /\ n \in 1..n /\ (1..n) \ {n} = 1..(n - 1)
        OBVIOUS
    <2>2. Max(1..n) = n
        <3>1. Max(1..n) \in 1..n /\ n <= Max(1..n)
            BY <2>1, MaxIs
        <3> QED BY <3>1
    <2>3. f[1..n] = After(f[1..(n - 1)], order[n])
        BY <1>11, <2>1, <2>2
    <2>4. n \in 0..k /\ n - 1 \in 0..k
        OBVIOUS
    <2> QED BY <2>3, <2>4
<1>14. w[k] = Walk(base, order)
    BY <1>10
<1> HIDE DEF w
<1>15. WalkOver(w, k, base, order)
    BY <1>12, <1>13, <1>14 DEF WalkOver
<1> QED BY <1>15

(* The walk of a plan. *)
Overdue(seen) == {j \in Deletable(seen) : Aged(seen, j)}
Start(seen) == [chosen |-> Overdue(seen), total |-> Total(Files \ Overdue(seen))]
Walked(seen) == Walk(Start(seen), OldestFirst(seen, Deletable(seen)))

LEMMA PlanWalks ==
    ASSUME NEW seen
    PROVE  Plan(seen) = OldestFirst(seen, Deletable(seen) \cap Walked(seen).chosen)
BY DEF Plan, Walked, Walk, Start, Overdue, FoldLeft, MapThenFoldSet, After

(* No log is left out of the order. *)
LEMMA OldestFirstCovers ==
    ASSUME LogCleanOK, NEW seen \in SeenSet, LogsOK, NEW S \in SUBSET Ids, NEW j \in S
    PROVE  \E n \in 1..Cardinality(S) : OldestFirst(seen, S)[n] = j
<1>1. IsFiniteSet(S) /\ Cardinality(S) \in Nat
    BY IdsFinite, FS_Subset, FS_CardinalityType
<1>0. PICK k \in Nat : k = Cardinality(S)
    BY IdsFinite, FS_Subset, FS_CardinalityType
<1>2. PICK f \in [1..k -> S] : f = OldestFirst(seen, S)
    BY <1>0, <1>1, OldestFirstIs
<1>3. \A m, n \in 1..k : m < n => Older(seen, f[m], f[n])
    BY <1>0, <1>2, OldestFirstIs
<1>4. ASSUME NEW m \in 1..k, NEW n \in 1..k, m # n PROVE f[m] # f[n]
    <2>1. m < n \/ n < m
        BY <1>4
    <2>2. Older(seen, f[m], f[n]) \/ Older(seen, f[n], f[m])
        BY <1>3, <2>1
    <2>3. f[m] \in Ids /\ f[n] \in Ids
        OBVIOUS
    <2> QED BY <2>2, <2>3, OlderIs
<1>5. f \in Injection(1..k, S)
    BY <1>4 DEF Injection, IsInjective
<1>6. IsFiniteSet(1..k) /\ Cardinality(1..k) = k
    <2>1. IsFiniteSet(1..k) /\ Cardinality(1..k) = IF 1 > k THEN 0 ELSE k - 1 + 1
        BY FS_Interval
    <2>2. (IF 1 > k THEN 0 ELSE k - 1 + 1) = k
        OBVIOUS
    <2> QED BY <2>1, <2>2
<1>7. f \in Surjection(1..k, S)
    BY <1>0, <1>1, <1>2, <1>5, <1>6, FS_Injection
<1> QED BY <1>0, <1>2, <1>7 DEF Surjection

(* After n files: what is chosen is past the age limit or was taken for the *)
(* size limit, the oldest first and only while the limit was not kept.      *)
Walking(seen, n, acc) ==
    /\ acc \in Taken
    /\ Overdue(seen) \subseteq acc.chosen /\ acc.chosen \subseteq Deletable(seen)
    /\ acc.total = Total(Files \ acc.chosen)
    /\ acc.total <= MaxBytes \/ \A i \in 1..n : OldestFirst(seen, Deletable(seen))[i] \in acc.chosen
    /\ \A i \in acc.chosen, j \in Deletable(seen) : Older(seen, j, i) => j \in acc.chosen
    /\ \/ acc.chosen = Overdue(seen)
       \/ \E j \in acc.chosen : /\ \A i \in acc.chosen \ {j} : Older(seen, i, j)
                                /\ Total(Files \ (acc.chosen \ {j})) > MaxBytes

LEMMA WalkingFirst ==
    ASSUME LogCleanOK, NumbersOK, LogsOK, NEW seen \in SeenSet
    PROVE  Walking(seen, 0, Start(seen))
<1>1. Overdue(seen) \subseteq Deletable(seen) /\ Deletable(seen) \in SUBSET Ids /\ Files \in SUBSET Ids
    BY DEF Overdue, Deletable, Files
<1>2. Total(Files \ Overdue(seen)) \in Int
    <2>1. Total(Files \ Overdue(seen)) \in Nat
        BY <1>1, TotalIs
    <2> QED BY <2>1
<1>3. ASSUME NEW i \in Overdue(seen), NEW j \in Deletable(seen), Older(seen, j, i) PROVE j \in Overdue(seen)
    <2>1. i \in Ids /\ j \in Ids
        BY <1>1
    <2>2. PICK a \in Nat, b \in Nat : a = Age(seen, i) /\ b = Age(seen, j)
        BY <2>1, AgeIs
    <2>3. a + MaxAge < now /\ MaxAge \in Nat /\ now \in Nat
        BY <2>2 DEF Overdue, Aged, LogCleanOK, NumbersOK
    <2>4. b <= a
        BY <1>3, <2>2 DEF Older
    <2>5. b + MaxAge < now
        BY <2>3, <2>4
    <2> QED BY <2>2, <2>5 DEF Overdue, Aged
<1>4. Start(seen) \in Taken /\ Start(seen).chosen = Overdue(seen) /\ Start(seen).total = Total(Files \ Overdue(seen))
    BY <1>1, <1>2 DEF Start, Taken
<1>5. \A i \in 1..0 : FALSE
    OBVIOUS
<1> QED BY <1>1, <1>3, <1>4, <1>5 DEF Walking

LEMMA WalkingOn ==
    ASSUME LogCleanOK, LogsOK, NEW seen \in SeenSet, NEW n \in Nat,
           n + 1 \in 1..Cardinality(Deletable(seen)), NEW acc, Walking(seen, n, acc)
    PROVE  Walking(seen, n + 1, After(acc, OldestFirst(seen, Deletable(seen))[n + 1]))
<1>1. PICK D \in SUBSET Ids : D = Deletable(seen) /\ D \subseteq Files
    BY DEF Deletable, Files
<1>0. PICK k \in Nat : k = Cardinality(D)
    BY IdsFinite, FS_Subset, FS_CardinalityType
<1>2. PICK f \in [1..k -> D] : f = OldestFirst(seen, D)
    BY <1>0, <1>1, OldestFirstIs
<1>3. \A m, i \in 1..k : m < i => Older(seen, f[m], f[i])
    BY <1>0, <1>2, OldestFirstIs
<1>4. n + 1 \in 1..k
    BY <1>0, <1>1, <1>2
<1>5. PICK j \in D : j = f[n + 1]
    BY <1>0, <1>2, <1>4
<1>6. SUFFICES Walking(seen, n + 1, After(acc, j))
    BY <1>0, <1>1, <1>2, <1>5
<1>7. acc \in Taken /\ acc.chosen \subseteq D /\ acc.total \in Int
    BY <1>1 DEF Walking, Taken
<1>8. CASE acc.total <= MaxBytes \/ j \in acc.chosen
    <2>1. After(acc, j) = acc
        BY <1>8 DEF After
    <2>2. acc.total <= MaxBytes \/ \A i \in 1..n : f[i] \in acc.chosen
        BY <1>0, <1>1, <1>2 DEF Walking
    <2>3. ASSUME NEW i \in 1..(n + 1) PROVE i \in 1..n \/ i = n + 1
        OBVIOUS
    <2>4. acc.total <= MaxBytes \/ \A i \in 1..(n + 1) : f[i] \in acc.chosen
        BY <1>5, <1>8, <2>2, <2>3
    <2> QED BY <1>0, <1>1, <1>2, <2>1, <2>4 DEF Walking
<1>9. CASE ~(acc.total <= MaxBytes) /\ j \notin acc.chosen
    <2> DEFINE C == acc.chosen \cup {j}
    <2>1. PICK new : new = After(acc, j)
        OBVIOUS
    <2>2. new = [chosen |-> C, total |-> acc.total - log[j].size]
        BY <1>9, <2>1 DEF After
    <2>3. new \in Taken
        BY <1>7, <2>1, AfterIs
    <2>4. new.chosen = C /\ new.total = acc.total - log[j].size
        BY <2>2
    <2>5. Overdue(seen) \subseteq C /\ C \subseteq D
        BY <1>7 DEF Walking
    <2>6. acc.total = Total(Files \ acc.chosen)
        BY DEF Walking
    <2>7. new.total = Total(Files \ C)
        <3>1. j \in Files \ acc.chosen /\ Files \ acc.chosen \in SUBSET Ids
            BY <1>1, <1>9 DEF Files
        <3>2. Total(Files \ acc.chosen) = log[j].size + Total((Files \ acc.chosen) \ {j})
            BY <3>1, TotalIs
        <3>3. (Files \ acc.chosen) \ {j} = Files \ C
            OBVIOUS
        <3>4. PICK a \in Nat, b \in Nat : a = log[j].size /\ b = Total(Files \ C)
            <4>1. Files \ C \in SUBSET Ids
                BY DEF Files
            <4> QED BY <4>1, TotalIs DEF LogsOK, File
        <3>5. acc.total = a + b
            BY <2>6, <3>2, <3>3, <3>4
        <3> QED BY <2>4, <3>4, <3>5
    <2>8. \A i \in 1..n : f[i] \in acc.chosen
        BY <1>0, <1>1, <1>2, <1>9 DEF Walking
    <2>9. ASSUME NEW i \in 1..(n + 1) PROVE f[i] \in C
        <3>1. i \in 1..n \/ i = n + 1
            OBVIOUS
        <3> QED BY <1>5, <2>8, <3>1
    <2>10. ASSUME NEW i \in C, NEW h \in D, Older(seen, h, i) PROVE h \in C
        <3>1. CASE i \in acc.chosen
            BY <1>1, <2>10, <3>1 DEF Walking
        <3>2. CASE i = j
            <4>1. PICK m \in 1..k : f[m] = h
                BY <1>0, <1>1, <1>2, OldestFirstCovers
            <4>2. ~(n + 1 < m)
                <5>1. h \in Ids /\ j \in Ids
                    OBVIOUS
                <5>2. ~Older(seen, j, h)
                    BY <2>10, <3>2, <5>1, OlderIs
                <5> QED BY <1>3, <1>4, <1>5, <4>1, <5>2
            <4>3. m \in 1..(n + 1)
                BY <4>2
            <4> QED BY <2>9, <4>1, <4>3
        <3> QED BY <3>1, <3>2
    <2>11. ASSUME NEW i \in C \ {j} PROVE Older(seen, i, j)
        <3>1. ~Older(seen, j, i)
            BY <1>1, <1>9 DEF Walking
        <3>2. i \in Ids /\ j \in Ids
            BY <1>7
        <3> QED BY <3>1, <3>2, OlderIs
    <2>12. Total(Files \ (C \ {j})) > MaxBytes
        <3>1. C \ {j} = acc.chosen
            BY <1>9
        <3>2. MaxBytes \in Nat
            BY DEF LogCleanOK
        <3>3. PICK total \in Int : total = acc.total
            BY <1>7
        <3>4. total > MaxBytes
            BY <1>9, <3>2, <3>3
        <3> QED BY <2>6, <3>1, <3>3, <3>4
    <2> HIDE DEF C
    <2>13. j \in C
        BY DEF C
    <2>14. \A i \in 1..(n + 1) : OldestFirst(seen, Deletable(seen))[i] \in new.chosen
        BY <1>0, <1>1, <1>2, <2>4, <2>9
    <2> QED BY <1>1, <2>1, <2>3, <2>4, <2>5, <2>7, <2>10, <2>11, <2>12, <2>13, <2>14 DEF Walking
<1> QED BY <1>8, <1>9

LEMMA WalkEnds ==
    ASSUME LogCleanOK, NumbersOK, LogsOK, NEW seen \in SeenSet
    PROVE  Walking(seen, Cardinality(Deletable(seen)), Walked(seen))
<1>1. PICK D \in SUBSET Ids : D = Deletable(seen)
    BY DEF Deletable, Files
<1>0. PICK k \in Nat : k = Cardinality(D)
    BY IdsFinite, FS_Subset, FS_CardinalityType
<1>2. PICK f \in [1..k -> Ids] : f = OldestFirst(seen, D)
    BY <1>0, <1>1, OldestFirstIs
<1>3. Walking(seen, 0, Start(seen)) /\ Start(seen) \in Taken
    BY WalkingFirst DEF Walking
<1>4. PICK w : WalkOver(w, k, Start(seen), f)
    BY <1>3, WalkIs
<1> DEFINE Good == {n \in Nat : n <= k => Walking(seen, n, w[n])}
<1>5. 0 \in Good
    BY <1>3, <1>4 DEF WalkOver
<1>6. ASSUME NEW n \in Nat, n \in Good, n + 1 <= k PROVE Walking(seen, n + 1, w[n + 1])
    <2>1. n + 1 \in 1..k /\ n + 1 - 1 = n /\ n <= k
        BY <1>6
    <2>2. w[n + 1] = After(w[n], f[n + 1])
        BY <1>4, <2>1 DEF WalkOver
    <2>3. Walking(seen, n, w[n])
        BY <1>6, <2>1
    <2> QED BY <1>0, <1>1, <1>2, <2>1, <2>2, <2>3, WalkingOn
<1>7. \A n \in Nat : n \in Good => n + 1 \in Good
    BY <1>6
<1>8. Nat \subseteq Good
    <2> HIDE DEF Good
    <2> QED BY <1>5, <1>7, Climb
<1>9. Walking(seen, k, w[k])
    BY <1>8
<1> QED BY <1>0, <1>1, <1>2, <1>4, <1>9 DEF Walked, WalkOver

(* plan: what the walk chose, in the order in which it was taken. *)
LEMMA PlanIsRight ==
    ASSUME LogCleanOK, NumbersOK, LogsOK, NEW seen \in SeenSet
    PROVE  RightPlan(seen, Plan(seen))
<1>1. PICK D \in SUBSET Ids : D = Deletable(seen)
    BY DEF Deletable, Files
<1>2. PICK acc \in Taken : acc = Walked(seen) /\ Walking(seen, Cardinality(D), acc)
    BY <1>1, WalkEnds DEF Walking
<1>3. PICK P \in SUBSET D : P = acc.chosen
    BY <1>1, <1>2 DEF Walking
<1>4. Plan(seen) = OldestFirst(seen, P)
    <2>1. D \cap acc.chosen = P
        BY <1>3
    <2> QED BY <1>1, <1>2, <2>1, PlanWalks
<1>5. P \in SUBSET Ids
    OBVIOUS
<1>0. PICK k \in Nat : k = Cardinality(P)
    BY IdsFinite, FS_Subset, FS_CardinalityType
<1>6. PICK p \in [1..k -> P] : p = Plan(seen)
    BY <1>0, <1>4, <1>5, OldestFirstIs
<1>7. \A m, n \in 1..k : m < n => Older(seen, p[m], p[n])
    BY <1>0, <1>4, <1>5, <1>6, OldestFirstIs
<1>8. \A j \in P : \E n \in 1..k : p[n] = j
    BY <1>0, <1>4, <1>5, <1>6, OldestFirstCovers
<1>9. DOMAIN p = 1..k /\ {p[i] : i \in DOMAIN p} = P
    BY <1>8
<1>10. Len(p) = k
    BY <1>9
<1>11. ASSUME NEW i \in 1..k, NEW j \in D, Age(seen, j) < Age(seen, p[i]) PROVE \E n \in 1..i : p[n] = j
    <2>1. Older(seen, j, p[i]) /\ j \in Ids /\ p[i] \in Ids
        BY <1>11 DEF Older
    <2>2. j \in P
        BY <1>1, <1>2, <1>3, <2>1 DEF Walking
    <2>3. PICK n \in 1..k : p[n] = j
        BY <1>8, <2>2
    <2>4. ~(i < n)
        BY <1>7, <2>1, <2>3, OlderIs
    <2>5. n \in 1..i
        BY <2>4
    <2> QED BY <2>3, <2>5
<1>12. \A j \in D \ P : ~Aged(seen, j)
    BY <1>1, <1>2, <1>3 DEF Walking, Overdue
<1>13. P = D \/ Total(Files \ P) <= MaxBytes
    <2>1. CASE acc.total <= MaxBytes
        BY <1>2, <1>3, <2>1 DEF Walking
    <2>2. CASE \A i \in 1..Cardinality(D) : OldestFirst(seen, D)[i] \in P
        <3>1. ASSUME NEW j \in D PROVE j \in P
            <4>1. PICK i \in 1..Cardinality(D) : OldestFirst(seen, D)[i] = j
                BY OldestFirstCovers
            <4> QED BY <2>2, <4>1
        <3> QED BY <3>1
    <2> QED BY <1>1, <1>2, <1>3, <2>1, <2>2 DEF Walking
<1>14. ASSUME P # {} PROVE Aged(seen, p[k]) \/ Total(Files \ (P \ {p[k]})) > MaxBytes
    <2>1. k \in 1..k
        <3>1. PICK n \in 1..k : TRUE
            BY <1>8, <1>14
        <3> QED BY <3>1
    <2>2. CASE P = Overdue(seen)
        BY <2>1, <2>2 DEF Overdue
    <2>3. CASE \E j \in P : (\A i \in P \ {j} : Older(seen, i, j)) /\ Total(Files \ (P \ {j})) > MaxBytes
        <3>1. PICK j \in P : (\A i \in P \ {j} : Older(seen, i, j)) /\ Total(Files \ (P \ {j})) > MaxBytes
            BY <2>3
        <3>2. PICK n \in 1..k : p[n] = j
            BY <1>8
        <3>3. ASSUME n # k PROVE FALSE
            <4>1. n < k
                BY <3>3
            <4>2. Older(seen, j, p[k])
                BY <1>7, <2>1, <3>2, <4>1
            <4>3. j \in Ids /\ p[k] \in Ids /\ p[k] \in P
                BY <2>1
            <4>4. p[k] # j
                BY <4>2, <4>3, OlderIs
            <4>5. Older(seen, p[k], j)
                BY <3>1, <4>3, <4>4
            <4> QED BY <4>2, <4>3, <4>5, OlderIs
        <3> QED BY <3>1, <3>2, <3>3
    <2> QED BY <1>2, <1>3, <2>2, <2>3 DEF Walking
<1>15. \A i \in 1..k, j \in D : Age(seen, j) < Age(seen, p[i]) => \E n \in 1..i : p[n] = j
    BY <1>11
<1>16. P \subseteq D /\ Len(p) = Cardinality(P)
    BY <1>0, <1>10
<1>17. RightPlan(seen, p)
    BY <1>1, <1>9, <1>10, <1>12, <1>13, <1>14, <1>15, <1>16 DEF RightPlan
<1> QED BY <1>6, <1>17

(* Every plan takes exactly the logs it should: the oldest first, all past  *)
(* the age limit, for the size limit no more than it takes, and nothing of  *)
(* an unfinished job, whatever the files and rows are (logclean.py `plan`). *)
THEOREM PlansTakeTheRightLogs == ASSUME LogCleanOK PROVE Spec => PlansAreRight
<1>1. ASSUME Typed, NEW c \in Cleaners, ListsFiles(c)
      PROVE  RightPlan(cleaner[c].seen, cleaner'[c].plan)
    <2>1. PICK C \in CleanerSet : C = cleaner[c]
        BY <1>1 DEF Typed, CleanersOK
    <2>2. PICK seen \in SeenSet, known \in SUBSET Ids : seen = C.seen /\ known = C.known
        BY <2>1 DEF CleanerSet
    <2>3. PICK p \in Plans : p = Plan(seen)
        BY <1>1, PlanIs DEF Typed
    <2>4. PICK J : J = [Idle EXCEPT !.at = "deletes", !.known = known, !.plan = p]
        OBVIOUS
    <2>5. J.plan = p
        BY <2>4, IdleIs DEF CleanerSet
    <2>6. cleaner' = [cleaner EXCEPT ![c] = IF p = << >> THEN Idle ELSE J]
        BY <1>1, <2>1, <2>2, <2>3, <2>4 DEF ListsFiles
    <2>7. cleaner'[c] = IF p = << >> THEN Idle ELSE J
        BY <1>1, <2>6 DEF Typed, CleanersOK
    <2>8. cleaner'[c].plan = p
        BY <2>5, <2>7, IdleIs
    <2>9. RightPlan(seen, p)
        BY <1>1, <2>3, PlanIsRight DEF Typed
    <2> QED BY <2>1, <2>2, <2>8, <2>9
<1>2. Typed /\ [Next]_vars =>
        [\A c \in Cleaners : ListsFiles(c) => RightPlan(cleaner[c].seen, cleaner'[c].plan)]_vars
    BY <1>1
<1>3. Init => Typed
    BY TypedInit
<1>4. Typed /\ [Next]_vars => Typed'
    BY TypedNext
<1> QED BY <1>2, <1>3, <1>4, PTL DEF Spec, PlansAreRight
=============================================================================
