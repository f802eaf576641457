--------------------------- MODULE JobStoreProofs ---------------------------
(***************************************************************************)
(* Proofs about JobStore, for any channels, any number of jobs and any     *)
(* bounds: its types, the rows queued jobs depend on, the order of each    *)
(* lane, that nobody waits for everybody; and what becomes of the jobs:    *)
(* who may run, who is skipped, what a failure is followed by.             *)
(***************************************************************************)
EXTENDS JobStore, TLAPS, FiniteSetTheorems

(* Ids not handed out have no row, no dependency and no place in the bookkeeping. *)
RowsNamed ==
    /\ \A j \in Ids : j >= nextId => status[j] = "none"
    /\ \A r \in deps : status[r[1]] # "none" /\ status[r[2]] # "none"
    /\ \A j \in stale : status[j] # "none"
    /\ checking # None => status[checking] # "none"

(* The attempt before a retry is over. *)
RetriesSettled ==
    \A j \in Ids : attempt[j] > 0 =>
        parent[j] \in Ids /\ status[parent[j]] \in Terminal \cup {"gone"}

SameLane(i, j) ==
    /\ status[i] = "queued" /\ status[j] = "queued"
    /\ chan[i] = chan[j] /\ prio[i] = prio[j]

(* LaneOrder job by job: `ahead` is a strict order, total on each lane. *)
StrictOrder ==
    /\ \A i, j \in Ids : <<i, j>> \in ahead => SameLane(i, j) /\ i # j
    /\ \A i, j \in Ids : SameLane(i, j) /\ i # j => <<i, j>> \in ahead \/ <<j, i>> \in ahead
    /\ \A i, j, k \in Ids : <<i, j>> \in ahead /\ <<j, k>> \in ahead => <<i, k>> \in ahead

(* Jobs without a position are in front of their lane, in the order of their ids. *)
UnplacedFirst ==
    /\ \A j \in unplaced : status[j] # "none"
    /\ \A i, j \in Ids : <<i, j>> \in ahead /\ j \in unplaced => i \in unplaced /\ i < j

StoreInv ==
    TypeOK /\ RowsNamed /\ RetriesSettled /\ DependenciesKept /\ StrictOrder /\ UnplacedFirst /\ NoWaitCycle

----------------------------------------------------------------------------
(* The waits-for graph                                                     *)

(* Nothing waits in a circle in an order of fewer waits. *)
LEMMA FewerWaits ==
    ASSUME NoWaitCycle, unplaced \subseteq unplaced',
           \A j \in Ids : WaitsFor(status', deps', ahead', j) \subseteq WaitsFor(status, deps, ahead, j)
    PROVE  NoWaitCycle'
<1> SUFFICES ASSUME NEW T \in (SUBSET (Ids \ unplaced')) \ {{}}
             PROVE  \E j \in T : WaitsFor(status', deps', ahead', j) \cap T = {}
    BY DEF NoWaitCycle
<1>1. PICK j \in T : WaitsFor(status, deps, ahead, j) \cap T = {}
    BY DEF NoWaitCycle
<1> QED BY <1>1

(* The check of `_find_deadlock` on one job is enough, if its own waits are   *)
(* the only ones that are new and others only come to wait for it: the set S  *)
(* the search reaches, and the rest, are each without a circle.               *)
LEMMA CheckedWaiter ==
    ASSUME NoWaitCycle, NEW n \in Ids, ~Deadlocked(status', deps', ahead', n),
           unplaced \subseteq unplaced' \cup {n},
           \A j \in Ids \ {n} : WaitsFor(status', deps', ahead', j)
                                    \subseteq WaitsFor(status, deps, ahead, j) \cup {n}
    PROVE  NoWaitCycle'
<1> DEFINE W(j) == WaitsFor(status, deps, ahead, j)
           V(j) == WaitsFor(status', deps', ahead', j)
<1>1. PICK S \in SUBSET Ids : V(n) \subseteq S /\ (\A j \in S : V(j) \subseteq S) /\ n \notin S
    BY DEF Deadlocked
<1>2. \A T \in (SUBSET (Ids \ unplaced)) \ {{}} : \E j \in T : W(j) \cap T = {}
    BY DEF NoWaitCycle
<1>3. \A j \in Ids \ {n} : V(j) \subseteq W(j) \cup {n}
    OBVIOUS
<1> HIDE DEF W, V
<1>4. ASSUME NEW T \in (SUBSET (Ids \ unplaced')) \ {{}} PROVE \E j \in T : V(j) \cap T = {}
    <2>1. CASE T \cap S # {}
        <3>1. T \cap S \in (SUBSET (Ids \ unplaced)) \ {{}}
            BY <2>1, <1>1
        <3>2. PICK j \in T \cap S : W(j) \cap (T \cap S) = {}
            BY <3>1, <1>2
        <3>3. j \in Ids \ {n} /\ V(j) \subseteq S
            BY <3>2, <1>1
        <3>4. V(j) \subseteq W(j)
            BY <3>3, <1>1, <1>3
        <3> QED BY <3>2, <3>3, <3>4
    <2>2. CASE T \cap S = {} /\ n \in T
        BY <2>2, <1>1
    <2>3. CASE T \cap S = {} /\ n \notin T
        <3>0. T \in (SUBSET (Ids \ unplaced)) \ {{}}
            BY <2>3
        <3>1. PICK j \in T : W(j) \cap T = {}
            BY <1>2, <3>0
        <3> QED BY <3>1, <2>3, <1>3
    <2> QED BY <2>1, <2>2, <2>3
<1> QED BY <1>4 DEF V, NoWaitCycle

----------------------------------------------------------------------------
(* What ending a job does                                                  *)

(* A job ends, and the history is pruned, unless the daemon dies before that. *)
RowEnds(j, st) ==
    \E P \in {{}, Prunable(Marked(j, st), Ranked(j), chan[j])} : EndPruning(j, st, P)

LEMMA EndIsRowEnds ==
    ASSUME NEW j, NEW st, End(j, st)
    PROVE  RowEnds(j, st)
    BY DEF End, RowEnds

(* Only ended jobs are pruned, and none that a queued job depends on. *)
LEMMA EndEffect ==
    ASSUME ConstantsOK, TypeOK, NEW j \in Ids, NEW st \in Terminal, RowEnds(j, st)
    PROVE  /\ status' \in [Ids -> Status]
           /\ status'[j] \in {st, "gone"}
           /\ \A k \in Ids \ {j} : status'[k] = status[k] \/ (status[k] \in Terminal /\ status'[k] = "gone")
           /\ deps' \subseteq deps
           /\ \A r \in deps : status'[r[1]] = "queued" /\ status'[r[2]] = "gone" =>
                 status[r[2]] = "gone" /\ r[2] # j
           /\ ended' \in [Ids -> Nat]
           /\ ahead' = Without(j)
           /\ outcome' \in [Ids -> Terminal \cup {"none"}]
<1> DEFINE marked == [status EXCEPT ![j] = st]
           ranked == [ended EXCEPT ![j] = Cardinality({k \in Ids : ended[k] # 0}) + 1]
<1>0. PICK pruned : /\ pruned = {} \/ pruned = Prunable(marked, ranked, chan[j])
                    /\ EndPruning(j, st, pruned)
    BY DEF RowEnds, Marked, Ranked
<1>1. /\ status' = [k \in Ids |-> IF k \in pruned THEN "gone" ELSE marked[k]]
      /\ deps' = IF pruned = {} THEN deps ELSE KeptDeps(status')
      /\ ended' = ranked /\ ahead' = Without(j) /\ outcome' = [outcome EXCEPT ![j] = st]
    BY <1>0 DEF EndPruning, Marked, Ranked
<1>2. /\ pruned \subseteq {k \in Ids : marked[k] \in Terminal}
      /\ \A r \in deps : r[2] \in pruned => marked[r[1]] # "queued"
    <2>1. pruned \subseteq Unneeded(marked, chan[j])
        BY <1>0 DEF Prunable
    <2> HIDE DEF marked, ranked
    <2>2. pruned \subseteq {k \in Ids : marked[k] \in Terminal}
        BY <2>1 DEF Unneeded
    <2>3. ASSUME NEW r \in deps, r[2] \in pruned PROVE marked[r[1]] # "queued"
        <3>1. r[1] \in Ids /\ r[3] \in Modes /\ <<r[1], r[2], r[3]>> \in deps
            BY DEF TypeOK
        <3> QED BY <3>1, <2>1, <2>3 DEF Unneeded
    <2> QED BY <2>2, <2>3
<1>3. marked \in [Ids -> Status] /\ marked[j] = st /\ \A k \in Ids \ {j} : marked[k] = status[k]
    BY DEF TypeOK, Status
<1>4. ranked \in [Ids -> Nat]
    <2> 1 \in Int /\ MaxId \in Int
        BY DEF ConstantsOK
    <2>1. IsFiniteSet(Ids)
        BY FS_Interval DEF Ids
    <2>2. IsFiniteSet({k \in Ids : ended[k] # 0})
        BY <2>1, FS_Subset
    <2>3. Cardinality({k \in Ids : ended[k] # 0}) \in Nat
        BY <2>2, FS_CardinalityType
    <2> QED BY <2>3 DEF TypeOK
<1>5. outcome' \in [Ids -> Terminal \cup {"none"}]
    BY <1>1 DEF TypeOK
<1>6. deps' \subseteq deps
    BY <1>1 DEF KeptDeps
<1> HIDE DEF marked, ranked
<1>7. status' \in [Ids -> Status]
    BY <1>1, <1>3 DEF Status
<1>8. status'[j] \in {st, "gone"}
    BY <1>1, <1>3
<1>9. \A k \in Ids \ {j} : status'[k] = status[k] \/ (status[k] \in Terminal /\ status'[k] = "gone")
    BY <1>1, <1>2, <1>3
<1>10. ASSUME NEW r \in deps, status'[r[1]] = "queued", status'[r[2]] = "gone"
       PROVE  status[r[2]] = "gone" /\ r[2] # j
    <2>1. r[1] \in Ids /\ r[2] \in Ids
        BY DEF TypeOK
    <2>2. marked[r[1]] = "queued"
        BY <2>1, <1>1, <1>10
    <2>3. marked[r[2]] = "gone"
        BY <2>1, <2>2, <1>1, <1>2, <1>10
    <2> QED BY <2>1, <2>3, <1>3 DEF Terminal
<1> QED BY <1>1, <1>4, <1>5, <1>6, <1>7, <1>8, <1>9, <1>10

StaleNext == stale \cup {j \in Ids : status'[j] = "running"}

(* The parts of the invariant that ending a job may disturb. *)
LEMMA EndKeeps ==
    ASSUME ConstantsOK, TypeOK, TypeOK', NEW j \in Ids, NEW st \in Terminal, RowEnds(j, st),
           status[j] # "none", UNCHANGED columns
    PROVE  /\ \A k \in Ids : status[k] # "none" => status'[k] # "none"
           /\ RowsNamed /\ stale' \subseteq StaleNext /\ checking' \in {checking, None} => RowsNamed'
           /\ RetriesSettled => RetriesSettled'
           /\ DependenciesKept => DependenciesKept'
           /\ StrictOrder => StrictOrder'
           /\ UnplacedFirst => UnplacedFirst'
           /\ NoWaitCycle => NoWaitCycle'
<1>1. /\ status'[j] \in {st, "gone"}
      /\ \A k \in Ids \ {j} : status'[k] = status[k] \/ (status[k] \in Terminal /\ status'[k] = "gone")
      /\ deps' \subseteq deps
      /\ \A r \in deps : status'[r[1]] = "queued" /\ status'[r[2]] = "gone" =>
             status[r[2]] = "gone" /\ r[2] # j
      /\ ahead' = Without(j)
    BY EndEffect
<1>2. \A k \in Ids : status[k] # "none" => status'[k] # "none"
    BY <1>1 DEF Terminal
<1>3. ASSUME RowsNamed, stale' \subseteq StaleNext, checking' \in {checking, None} PROVE RowsNamed'
    <2>1. \A k \in Ids : k >= nextId' => status'[k] = "none"
        BY <1>1, <1>3 DEF RowsNamed, columns, Terminal
    <2>2. \A r \in deps' : r[1] \in Ids /\ r[2] \in Ids /\ status'[r[1]] # "none" /\ status'[r[2]] # "none"
        BY <1>1, <1>2, <1>3 DEF RowsNamed, TypeOK
    <2>3. \A k \in stale' : status'[k] # "none"
        BY <1>2, <1>3 DEF RowsNamed, TypeOK, StaleNext
    <2>4. checking' # None => status'[checking'] # "none"
        BY <1>2, <1>3 DEF RowsNamed, TypeOK
    <2> QED BY <2>1, <2>2, <2>3, <2>4 DEF RowsNamed
<1>4. ASSUME RetriesSettled PROVE RetriesSettled'
    BY <1>1, <1>4 DEF RetriesSettled, columns, Terminal
<1>5. ASSUME DependenciesKept PROVE DependenciesKept'
    <2> SUFFICES ASSUME NEW r \in deps', status'[r[1]] = "queued"
                 PROVE  status'[r[2]] \notin {"gone", "none"}
        BY DEF DependenciesKept
    <2>1. r \in deps /\ r[1] \in Ids /\ r[2] \in Ids
        BY <1>1 DEF TypeOK
    <2>2. status[r[1]] = "queued"
        BY <2>1, <1>1 DEF Terminal
    <2>3. status[r[2]] \notin {"gone", "none"}
        BY <2>1, <2>2, <1>5 DEF DependenciesKept
    <2> QED BY <2>1, <2>3, <1>1, <1>2
<1>6. ASSUME StrictOrder PROVE StrictOrder'
    <2>1. \A k, l \in Ids : <<k, l>> \in ahead' <=> <<k, l>> \in ahead /\ k # j /\ l # j
        BY <1>1 DEF Without
    <2>2. \A k, l \in Ids : (SameLane(k, l))' <=> SameLane(k, l) /\ k # j /\ l # j
        BY <1>1 DEF SameLane, Terminal, columns
    <2> QED BY <2>1, <2>2, <1>6 DEF StrictOrder
<1>7. ASSUME NoWaitCycle PROVE NoWaitCycle'
    <2>1. \A k \in Ids : status'[k] \in Unfinished => status[k] \in Unfinished
        BY <1>1 DEF Unfinished, Terminal
    <2>2. \A k \in Ids : WaitsFor(status', deps', ahead', k) \subseteq WaitsFor(status, deps, ahead, k)
        BY <2>1, <1>1 DEF WaitsFor, Without
    <2>3. unplaced' = unplaced
        BY DEF columns
    <2> QED BY <2>2, <2>3, <1>7, FewerWaits
<1>8. ASSUME UnplacedFirst PROVE UnplacedFirst'
    BY <1>1, <1>2, <1>8 DEF UnplacedFirst, Without, columns, TypeOK
<1> QED BY <1>2, <1>3, <1>4, <1>5, <1>6, <1>7, <1>8

----------------------------------------------------------------------------
(* What queueing a job does                                                *)

(* The new row is an id without a row; the other rows are as before. *)
RowInserted ==
    /\ nextId \in Ids /\ status[nextId] = "none"
    /\ status' \in [Ids -> Status] /\ status'[nextId] = "queued"
    /\ \A k \in Ids \ {nextId} : status'[k] = status[k]
    /\ chan' \in [Ids -> Channels] /\ prio' \in [Ids -> BOOLEAN]
    /\ retries' \in [Ids -> Nat] /\ attempt' \in [Ids -> Nat]
    /\ \A j \in Ids : attempt'[j] > 0 => attempt'[j] <= retries'[parent'[j]]
    /\ pauses' \in [Ids -> BOOLEAN] /\ parent' \in [Ids -> Ids \cup {None}]
    /\ nextId' \in 1..(MaxId + 1) /\ nextId' = nextId + 1
    /\ ahead' \subseteq Ids \X Ids /\ known' \subseteq Channels
    /\ unplaced' = unplaced
    /\ RetriesSettled'

(* Row `from` may be followed by attempt a: it failed with retries left. *)
Precedes(from, a) ==
    a > 0 => from \in Ids /\ status[from] \in Terminal \cup {"gone"} /\ a <= retries[from]

LEMMA InsertEffect ==
    ASSUME ConstantsOK, StoreInv, NEW c \in Channels, NEW p \in BOOLEAN, NEW front \in SUBSET Ids,
           NEW r \in Nat, NEW a \in Nat, NEW f \in BOOLEAN, NEW from \in Ids \cup {None},
           Precedes(from, a),
           Insert(c, p, front, r, a, f, from)
    PROVE  RowInserted
<1> USE DEF StoreInv
<1>1. nextId \in Ids /\ status[nextId] = "none"
    BY DEF Insert, RowsNamed, TypeOK, Ids, ConstantsOK
<1>2. status' \in [Ids -> Status] /\ status'[nextId] = "queued"
      /\ \A k \in Ids \ {nextId} : status'[k] = status[k]
    BY <1>1 DEF Insert, TypeOK, Status, Unfinished
<1>3. /\ chan' \in [Ids -> Channels] /\ prio' \in [Ids -> BOOLEAN]
      /\ retries' \in [Ids -> Nat] /\ attempt' \in [Ids -> Nat]
      /\ pauses' \in [Ids -> BOOLEAN] /\ parent' \in [Ids -> Ids \cup {None}]
    BY <1>1 DEF Insert, TypeOK
<1>4. nextId' \in 1..(MaxId + 1) /\ nextId' = nextId + 1
    BY <1>1 DEF Insert, Ids, ConstantsOK
<1>5. ahead' \subseteq Ids \X Ids /\ known' \subseteq Channels /\ unplaced' = unplaced
    BY <1>1 DEF Insert, TypeOK, Lane, Queued
<1>6. ASSUME NEW j \in Ids, attempt'[j] > 0
      PROVE  /\ attempt'[j] <= retries'[parent'[j]]
             /\ parent'[j] \in Ids /\ status'[parent'[j]] \in Terminal \cup {"gone"}
    <2>1. CASE j = nextId
        <3>1. attempt'[j] = a /\ parent'[j] = from
            BY <2>1, <1>1 DEF Insert, TypeOK
        <3>2. from # nextId /\ from \in Ids /\ a <= retries[from]
            BY <3>1, <1>1, <1>6 DEF Terminal, Precedes
        <3>3. retries'[from] = retries[from] /\ status'[from] = status[from]
            BY <3>2, <1>1 DEF Insert, TypeOK
        <3> QED BY <3>1, <3>2, <3>3, <1>6 DEF Precedes
    <2>2. CASE j # nextId
        <3>1. attempt'[j] = attempt[j] /\ parent'[j] = parent[j]
            BY <2>2, <1>1 DEF Insert, TypeOK
        <3>2. parent[j] # nextId /\ parent[j] \in Ids /\ status[parent[j]] \in Terminal \cup {"gone"}
            BY <3>1, <1>1, <1>6 DEF RetriesSettled, Terminal
        <3>3. retries'[parent[j]] = retries[parent[j]] /\ status'[parent[j]] = status[parent[j]]
            BY <3>2, <1>1 DEF Insert, TypeOK
        <3> QED BY <3>1, <3>2, <3>3, <1>6 DEF TypeOK
    <2> QED BY <2>1, <2>2
<1>7. RetriesSettled'
    BY <1>6 DEF RetriesSettled
<1> QED BY <1>1, <1>2, <1>3, <1>4, <1>5, <1>6, <1>7 DEF RowInserted

(* Behind a front of its lane that misses no job ahead of it, a job has a   *)
(* definite place.                                                          *)
LEMMA InsertKeepsOrder ==
    ASSUME ConstantsOK, StoreInv, NEW c \in Channels, NEW p \in BOOLEAN, NEW front \in SUBSET Lane(c, p),
           \A i, j \in Ids : <<i, j>> \in ahead /\ j \in front => i \in front,
           NEW r, NEW a, NEW f, NEW from, Insert(c, p, front, r, a, f, from)
    PROVE  StrictOrder'
<1> DEFINE old == Lane(c, p)
<1> PICK n : n = nextId
    OBVIOUS
<1>1. n \in Ids /\ status[n] = "none"
    BY DEF Insert, RowsNamed, StoreInv, TypeOK, Ids, ConstantsOK
<1>new. status'[n] = "queued" /\ chan'[n] = c /\ prio'[n] = p
    BY <1>1 DEF Insert, StoreInv, TypeOK
<1>others. \A j \in Ids \ {n} : status'[j] = status[j] /\ chan'[j] = chan[j] /\ prio'[j] = prio[j]
    BY <1>1 DEF Insert, StoreInv, TypeOK
<1>2. \A i, j \in Ids \ {n} : (SameLane(i, j))' <=> SameLane(i, j)
    BY <1>others DEF SameLane
<1>3. \A j \in Ids \ {n} : ((SameLane(n, j))' <=> j \in old) /\ ((SameLane(j, n))' <=> j \in old)
    BY <1>new, <1>others DEF SameLane, Lane, Queued
<1>4. n \notin old /\ front \subseteq old /\ old \subseteq Ids
    BY <1>1 DEF Lane, Queued
<1>5. \A j \in Ids : <<n, j>> \notin ahead /\ <<j, n>> \notin ahead
    BY <1>1 DEF StoreInv, StrictOrder, SameLane
<1>6. \A i, j \in Ids \ {n} : <<i, j>> \in ahead' <=> <<i, j>> \in ahead
    BY DEF Insert, Lane, Queued
<1>7. \A j \in Ids : /\ <<j, n>> \in ahead' <=> j \in front
                     /\ <<n, j>> \in ahead' <=> j \in old \ front
    BY <1>4, <1>5 DEF Insert
<1>8. \A i, j \in old : SameLane(i, j)
    BY DEF SameLane, Lane, Queued
<1>9. \A i, j \in Ids : <<i, j>> \in ahead => (i \in old <=> j \in old)
    BY DEF StoreInv, StrictOrder, SameLane, Lane, Queued
<1>10. StrictOrder
    BY DEF StoreInv
<1> HIDE DEF old
<1>11. ASSUME NEW i \in Ids, NEW j \in Ids, <<i, j>> \in ahead' PROVE (SameLane(i, j))' /\ i # j
    <2>1. CASE i = n \/ j = n
        BY <2>1, <1>3, <1>4, <1>7, <1>11
    <2>2. CASE i # n /\ j # n
        BY <2>2, <1>2, <1>6, <1>10, <1>11 DEF StrictOrder
    <2> QED BY <2>1, <2>2
<1>12. ASSUME NEW i \in Ids, NEW j \in Ids, (SameLane(i, j))', i # j
       PROVE  <<i, j>> \in ahead' \/ <<j, i>> \in ahead'
    <2>1. CASE i = n \/ j = n
        BY <2>1, <1>3, <1>4, <1>7, <1>12
    <2>2. CASE i # n /\ j # n
        BY <2>2, <1>2, <1>6, <1>10, <1>12 DEF StrictOrder
    <2> QED BY <2>1, <2>2
<1>13. ASSUME NEW i \in Ids, NEW j \in Ids, NEW k \in Ids, <<i, j>> \in ahead', <<j, k>> \in ahead'
       PROVE  <<i, k>> \in ahead'
    <2>1. CASE i = n
        <3>1. j \in old \ front /\ j # n
            BY <2>1, <1>4, <1>7, <1>13
        <3>2. k # n
            BY <3>1, <1>7, <1>13
        <3>3. <<j, k>> \in ahead
            BY <3>1, <3>2, <1>6, <1>13
        <3> QED BY <2>1, <3>1, <3>3, <1>7, <1>9
    <2>2. CASE i # n /\ j = n
        <3>1. i \in front /\ k \in old \ front /\ k # n
            BY <2>2, <1>4, <1>7, <1>13
        <3>2. i # k /\ SameLane(i, k)
            BY <3>1, <1>4, <1>8
        <3>3. <<i, k>> \in ahead
            BY <3>1, <3>2, <1>10 DEF StrictOrder
        <3> QED BY <2>2, <3>1, <3>3, <1>6
    <2>3. CASE i # n /\ j # n /\ k = n
        <3>1. j \in front /\ <<i, j>> \in ahead
            BY <2>3, <1>6, <1>7, <1>13
        <3> QED BY <2>3, <3>1, <1>7
    <2>4. CASE i # n /\ j # n /\ k # n
        BY <2>4, <1>6, <1>10, <1>13 DEF StrictOrder
    <2> QED BY <2>1, <2>2, <2>3, <2>4
<1> QED BY <1>11, <1>12, <1>13 DEF StrictOrder

(* A job that is put in front of none without a position leaves those in front. *)
LEMMA InsertKeepsFirst ==
    ASSUME ConstantsOK, StoreInv, NEW c \in Channels, NEW p \in BOOLEAN, NEW front \in SUBSET Lane(c, p),
           \A i \in Lane(c, p) \ front : i \notin unplaced,
           NEW r, NEW a, NEW f, NEW from, Insert(c, p, front, r, a, f, from)
    PROVE  UnplacedFirst'
<1> PICK n : n = nextId
    OBVIOUS
<1>1. n \in Ids /\ status[n] = "none"
    BY DEF Insert, RowsNamed, StoreInv, TypeOK, Ids, ConstantsOK
<1>2. UnplacedFirst /\ TypeOK
    BY DEF StoreInv
<1>3. n \notin unplaced /\ unplaced' = unplaced
    BY <1>1, <1>2 DEF UnplacedFirst, Insert
<1>4. \A k \in unplaced : status'[k] # "none"
    BY <1>1, <1>2, <1>3 DEF UnplacedFirst, Insert, TypeOK
<1>5. ASSUME NEW i \in Ids, NEW j \in unplaced, <<i, j>> \in ahead' PROVE <<i, j>> \in ahead
    BY <1>3, <1>5 DEF Insert
<1> QED BY <1>2, <1>3, <1>4, <1>5 DEF UnplacedFirst

(* Nobody waited for the new job, so its own waits are all there is to check. *)
LEMMA InsertKeepsWaits ==
    ASSUME ConstantsOK, StoreInv, NEW c \in Channels, NEW p \in BOOLEAN, NEW front \in SUBSET Lane(c, p),
           NEW r, NEW a, NEW f, NEW from, Insert(c, p, front, r, a, f, from),
           \A q \in deps' : q \in deps \/ q[1] = nextId,
           ~Deadlocked(status', deps', ahead', nextId)
    PROVE  NoWaitCycle'
<1>1. nextId \in Ids /\ status[nextId] = "none"
    BY DEF Insert, RowsNamed, StoreInv, TypeOK, Ids, ConstantsOK
<1>2. \A k \in Ids \ {nextId} : status'[k] = status[k]
    BY <1>1 DEF Insert, StoreInv, TypeOK
<1>3. ASSUME NEW j \in Ids \ {nextId}
      PROVE  WaitsFor(status', deps', ahead', j) \subseteq WaitsFor(status, deps, ahead, j) \cup {nextId}
    <2>1. \A d \in Ids, m \in Modes : <<j, d, m>> \in deps' => <<j, d, m>> \in deps
        OBVIOUS
    <2>2. \A i \in Ids : <<i, j>> \in ahead' => <<i, j>> \in ahead \/ i = nextId
        BY DEF Insert
    <2> QED BY <2>1, <2>2, <1>2 DEF WaitsFor
<1>4. NoWaitCycle /\ unplaced' = unplaced
    BY DEF StoreInv, Insert
<1> QED BY <1>1, <1>3, <1>4, CheckedWaiter

(* A job without dependencies at the end of its lane is waited for by nobody. *)
LEMMA LastWithoutDeps ==
    ASSUME ConstantsOK, StoreInv, NEW c \in Channels, NEW p \in BOOLEAN,
           NEW r, NEW a, NEW f, NEW from, Insert(c, p, Lane(c, p), r, a, f, from), deps' = deps
    PROVE  ~Deadlocked(status', deps', ahead', nextId)
<1> DEFINE S == Ids \ {nextId}
<1>1. nextId \in Ids /\ status[nextId] = "none"
    BY DEF Insert, RowsNamed, StoreInv, TypeOK, Ids, ConstantsOK
<1>2. \A j \in Ids : <<nextId, j>> \notin ahead'
    <2>1. \A j \in Ids : <<nextId, j>> \notin ahead
        BY <1>1 DEF StoreInv, StrictOrder, SameLane
    <2>2. nextId \notin Lane(c, p)
        BY <1>1 DEF Lane, Queued
    <2>3. ahead' = ahead \cup (Lane(c, p) \X {nextId})
        BY DEF Insert
    <2> QED BY <2>1, <2>2, <2>3
<1>3. \A j \in Ids, m \in Modes : <<j, nextId, m>> \notin deps
    BY <1>1 DEF StoreInv, RowsNamed
<1>4. \A j \in Ids : WaitsFor(status', deps', ahead', j) \subseteq S
    BY <1>2, <1>3 DEF WaitsFor
<1>5. S \in SUBSET Ids /\ nextId \notin S
    OBVIOUS
<1> QED BY <1>1, <1>4, <1>5 DEF Deadlocked

----------------------------------------------------------------------------
(* Requests                                                                *)

LEMMA AddStep ==
    ASSUME ConstantsOK, StoreInv, NEW c \in Channels, NEW place \in {"end", "before", "after"}, NEW t,
           NEW M \in Given, NEW r \in 0..MaxRetries, NEW f \in OnFail, Add(c, place, t, M, r, f)
    PROVE  StoreInv'
<1> DEFINE front == Front(c, FALSE, place, t)
<1>1. StrictOrder /\ TypeOK /\ RowsNamed /\ DependenciesKept
    BY DEF StoreInv
<1>2. Insert(c, FALSE, front, r, 0, f, None) /\ r \in Nat /\ f \in BOOLEAN
    <2>1. Insert(c, FALSE, front, r, 0, f, None)
        BY DEF Add
    <2>2. r \in Nat
        BY DEF ConstantsOK
    <2>3. f \in BOOLEAN
        BY DEF ConstantsOK
    <2> QED BY <2>1, <2>2, <2>3
<1>3. front \in SUBSET Lane(c, FALSE) /\ (\A i, j \in Ids : <<i, j>> \in ahead /\ j \in front => i \in front)
    <2>1. CASE place = "end"
        BY <2>1, <1>1 DEF Front, StrictOrder, SameLane, Lane, Queued
    <2>2. CASE place # "end"
        <3>1. t \in Lane(c, FALSE) /\ t \in Ids
            BY <2>2 DEF Add, Lane, Queued
        <3>2. \A i \in Ids : <<i, t>> \in ahead => i \in Lane(c, FALSE)
            BY <3>1, <1>1 DEF StrictOrder, SameLane, Lane, Queued
        <3>3. \A i, j \in Ids : <<i, j>> \in ahead /\ <<j, t>> \in ahead => <<i, t>> \in ahead
            BY <3>1, <1>1 DEF StrictOrder
        <3> QED BY <2>2, <3>1, <3>2, <3>3 DEF Front
    <2> QED BY <2>1, <2>2
<1>4. M \in [DOMAIN M -> Modes] /\ DOMAIN M \subseteq Rows
    BY DEF Given
<1> HIDE DEF front
<1>5. front \in SUBSET Ids
    BY <1>3 DEF Lane, Queued
<1>6. RowInserted
    <2>1. Precedes(None, 0)
        BY DEF Precedes
    <2> QED BY <1>2, <1>5, <2>1, InsertEffect, ZenonT(30)
<1>7. StrictOrder'
    BY <1>2, <1>3, InsertKeepsOrder
<1>first. UnplacedFirst'
    <2>1. \A i \in Lane(c, FALSE) \ front : i \notin unplaced
        <3>1. CASE place = "end"
            BY <3>1 DEF front, Front
        <3>2. CASE place # "end"
            <4>1. t \in Lane(c, FALSE) /\ t \notin unplaced
                BY <3>2 DEF Add
            <4>2. \A i \in Lane(c, FALSE) : i = t \/ <<t, i>> \in ahead \/ <<i, t>> \in ahead
                BY <4>1, <1>1 DEF StrictOrder, SameLane, Lane, Queued
            <4>3. \A i \in Ids : <<i, t>> \in ahead => i \in front
                BY <3>2 DEF front, Front
            <4>4. \A i \in Ids : <<t, i>> \in ahead => i \notin unplaced
                BY <4>1 DEF StoreInv, UnplacedFirst, Lane, Queued
            <4> QED BY <4>1, <4>2, <4>3, <4>4 DEF Lane, Queued
        <3> QED BY <3>1, <3>2
    <2> QED BY <1>2, <1>3, <2>1, InsertKeepsFirst
<1>8. \A q \in DepRows(nextId, M) : q[1] = nextId /\ q[2] \in Rows /\ q \in Ids \X Ids \X Modes
    BY <1>4, <1>6 DEF DepRows, Rows, RowInserted
<1>9. NoWaitCycle'
    <2>1. \A q \in deps' : q \in deps \/ q[1] = nextId
        BY <1>8 DEF Add
    <2>2. ~Deadlocked(status', deps', ahead', nextId)
        BY DEF Add, Placed
    <2> QED BY <1>2, <1>3, <2>1, <2>2, InsertKeepsWaits
<1>10. TypeOK'
    BY <1>1, <1>6, <1>8 DEF TypeOK, Add, RowInserted
<1>11. \A q \in deps' : /\ status'[q[1]] # "none" /\ status'[q[2]] # "none"
                        /\ status'[q[1]] = "queued" => status'[q[2]] # "gone"
    <2> SUFFICES ASSUME NEW q \in deps'
                 PROVE  /\ status'[q[1]] # "none" /\ status'[q[2]] # "none"
                        /\ status'[q[1]] = "queued" => status'[q[2]] # "gone"
        OBVIOUS
    <2>1. CASE q \in deps
        <3>1. q[1] \in Ids /\ q[2] \in Ids /\ q[1] # nextId /\ q[2] # nextId
            BY <2>1, <1>1, <1>6 DEF TypeOK, RowsNamed
        <3> QED BY <2>1, <3>1, <1>1, <1>6 DEF RowsNamed, DependenciesKept, RowInserted
    <2>2. CASE q \in DepRows(nextId, M)
        BY <2>2, <1>6, <1>8 DEF Rows, RowInserted
    <2> QED BY <2>1, <2>2 DEF Add
<1>12. DependenciesKept'
    BY <1>11 DEF DependenciesKept
<1>13. RowsNamed'
    <2>1. \A j \in Ids : j >= nextId' => status'[j] = "none"
        BY <1>1, <1>6 DEF RowsNamed, TypeOK, Ids, ConstantsOK, RowInserted
    <2>2. \A j \in stale' : status'[j] # "none"
        BY <1>1, <1>6 DEF RowsNamed, TypeOK, Add, RowInserted
    <2>3. checking' # None => status'[checking'] # "none"
        BY <1>1, <1>6 DEF Add, RowInserted
    <2> QED BY <1>11, <2>1, <2>2, <2>3 DEF RowsNamed
<1> QED BY <1>6, <1>7, <1>first, <1>9, <1>10, <1>12, <1>13 DEF StoreInv, RowInserted

(* A copy of a job, or a job out of turn, at the end of its lane. *)
LEMMA CopyStep ==
    ASSUME ConstantsOK, StoreInv, NEW c \in Channels, NEW p \in BOOLEAN,
           NEW r \in Nat, NEW a \in Nat, NEW f \in BOOLEAN, NEW from \in Ids \cup {None},
           Precedes(from, a),
           Insert(c, p, Lane(c, p), r, a, f, from),
           finishing' \in {finishing, None},
           UNCHANGED <<deps, ended, paused, checking, todo, stale, observers>>
    PROVE  StoreInv'
<1>1. StrictOrder /\ TypeOK /\ RowsNamed /\ DependenciesKept
    BY DEF StoreInv
<1>2. Lane(c, p) \in SUBSET Ids /\ (\A i, j \in Ids : <<i, j>> \in ahead /\ j \in Lane(c, p) => i \in Lane(c, p))
    BY <1>1 DEF StrictOrder, SameLane, Lane, Queued
<1>3. RowInserted
    BY <1>2, InsertEffect
<1>4. StrictOrder' /\ UnplacedFirst'
    <2>1. \A i \in Lane(c, p) \ Lane(c, p) : i \notin unplaced
        OBVIOUS
    <2> QED BY <1>2, <2>1, InsertKeepsOrder, InsertKeepsFirst
<1>5. NoWaitCycle'
    <2>1. ~Deadlocked(status', deps', ahead', nextId)
        BY LastWithoutDeps
    <2> QED BY <2>1, InsertKeepsWaits
<1>6. TypeOK'
    BY <1>1, <1>3 DEF TypeOK, observers, RowInserted
<1>7. \A q \in deps : q[1] \in Ids /\ q[2] \in Ids /\ q[1] # nextId /\ q[2] # nextId
    BY <1>1, <1>3 DEF TypeOK, RowsNamed
<1>8. DependenciesKept'
    BY <1>1, <1>3, <1>7 DEF DependenciesKept, RowInserted
<1>9. RowsNamed'
    <2>1. \A j \in Ids : j >= nextId' => status'[j] = "none"
        BY <1>1, <1>3 DEF RowsNamed, TypeOK, Ids, ConstantsOK, RowInserted
    <2>2. \A q \in deps' : status'[q[1]] # "none" /\ status'[q[2]] # "none"
        BY <1>1, <1>3, <1>7 DEF RowsNamed, RowInserted
    <2>3. \A j \in stale' : status'[j] # "none"
        BY <1>1, <1>3 DEF RowsNamed, TypeOK, RowInserted
    <2>4. checking' # None => status'[checking'] # "none"
        BY <1>1, <1>3 DEF RowsNamed, TypeOK, RowInserted
    <2> QED BY <2>1, <2>2, <2>3, <2>4 DEF RowsNamed
<1> QED BY <1>3, <1>4, <1>5, <1>6, <1>8, <1>9 DEF StoreInv, RowInserted

LEMMA EditStep ==
    ASSUME ConstantsOK, StoreInv, NEW j \in Ids, NEW c \in Channels, NEW M \in Given,
           NEW r \in 0..MaxRetries, NEW f \in OnFail, Edit(j, c, M, r, f)
    PROVE  StoreInv'
<1>1. StrictOrder /\ TypeOK /\ RowsNamed /\ DependenciesKept /\ RetriesSettled /\ UnplacedFirst /\ NoWaitCycle
    BY DEF StoreInv
<1>2. /\ status[j] = "queued" /\ ~prio[j]
      /\ DOMAIN M \subseteq Rows \ {j} /\ M \in [DOMAIN M -> Modes]
      /\ status' = status /\ nextId' = nextId /\ stale' = stale
      /\ deps' = {w \in deps : w[1] # j} \cup DepRows(j, M)
      /\ wanted' = {w \in wanted : w[1] # j} \cup DepRows(j, M)
      /\ checking' \in {None, j}
      /\ chan' = [chan EXCEPT ![j] = c]
      /\ ahead' = IF c = chan[j] THEN ahead ELSE Without(j) \cup (Lane(c, FALSE) \X {j})
      /\ retries' = [retries EXCEPT ![j] = r] /\ r \in Nat
      /\ pauses' = [pauses EXCEPT ![j] = f] /\ f \in BOOLEAN
      /\ known' = known \cup {c}
      /\ unplaced' = IF c = chan[j] THEN unplaced ELSE unplaced \ {j}
      /\ UNCHANGED <<prio, attempt, parent>>
    BY DEF Edit, Given, ConstantsOK
<1>3. \A q \in DepRows(j, M) : q[1] = j /\ q[2] \in Rows /\ q \in Ids \X Ids \X Modes
    BY <1>2 DEF DepRows, Rows
<1>4. TypeOK'
    <2>1. \A k \in Ids : attempt[k] > 0 => attempt[k] <= retries'[parent[k]]
        <3> SUFFICES ASSUME NEW k \in Ids, attempt[k] > 0 PROVE attempt[k] <= retries'[parent[k]]
            OBVIOUS
        <3>1. parent[k] \in Ids /\ parent[k] # j
            BY <1>1, <1>2 DEF RetriesSettled, Terminal
        <3> QED BY <3>1, <1>1, <1>2 DEF TypeOK
    <2>2. ahead' \subseteq Ids \X Ids
        BY <1>1, <1>2 DEF TypeOK, Without, Lane, Queued
    <2>3. deps' \subseteq Ids \X Ids \X Modes /\ wanted' \subseteq Ids \X Ids \X Modes
        BY <1>1, <1>2, <1>3 DEF TypeOK
    <2>4. chan' \in [Ids -> Channels] /\ retries' \in [Ids -> Nat] /\ pauses' \in [Ids -> BOOLEAN]
        BY <1>1, <1>2 DEF TypeOK
    <2>5. known' \subseteq Channels /\ checking' \in Ids \cup {None}
        BY <1>1, <1>2 DEF TypeOK
    <2>6. UNCHANGED <<ended, paused, finishing, todo, outcome, shouldPause, crashes>>
        BY DEF Edit
    <2> QED BY <1>1, <1>2, <2>1, <2>2, <2>3, <2>4, <2>5, <2>6 DEF TypeOK
<1>5. \A q \in deps' : /\ status'[q[1]] # "none" /\ status'[q[2]] # "none"
                       /\ status'[q[1]] = "queued" => status'[q[2]] # "gone"
    <2> SUFFICES ASSUME NEW q \in deps'
                 PROVE  /\ status[q[1]] # "none" /\ status[q[2]] # "none"
                        /\ status[q[1]] = "queued" => status[q[2]] # "gone"
        BY <1>2
    <2>1. CASE q \in deps
        BY <2>1, <1>1 DEF RowsNamed, DependenciesKept
    <2>2. CASE q \in DepRows(j, M)
        BY <2>2, <1>2, <1>3 DEF Rows
    <2> QED BY <2>1, <2>2, <1>2
<1>6. DependenciesKept' /\ RowsNamed' /\ RetriesSettled'
    BY <1>1, <1>2, <1>5 DEF DependenciesKept, RowsNamed, RetriesSettled
<1>7. NoWaitCycle'
    <2>1. ASSUME c = chan[j], deps' = deps \/ M = <<>> PROVE NoWaitCycle'
        <3>1. deps' \subseteq deps
            BY <1>2, <2>1 DEF DepRows
        <3>3. status' = status /\ ahead' = ahead
            BY <1>2, <2>1
        <3>2. \A k \in Ids : WaitsFor(status', deps', ahead', k) \subseteq WaitsFor(status, deps, ahead, k)
            BY <3>1, <3>3 DEF WaitsFor
        <3>4. unplaced' = unplaced
            BY <1>2, <2>1
        <3> QED BY <3>2, <3>4, <1>1, FewerWaits
    <2>2. ASSUME NEW k \in Ids \ {j}
          PROVE  WaitsFor(status', deps', ahead', k) \subseteq WaitsFor(status, deps, ahead, k) \cup {j}
        <3>1. \A d \in Ids, m \in Modes : <<k, d, m>> \in deps' => <<k, d, m>> \in deps
            BY <1>2, <1>3
        <3>2. \A i \in Ids : <<i, k>> \in ahead' => <<i, k>> \in ahead
            BY <1>2 DEF Without
        <3> QED BY <3>1, <3>2, <1>2 DEF WaitsFor
    <2>3. ASSUME c # chan[j] \/ (deps' # deps /\ M # <<>>) PROVE NoWaitCycle'
        <3>1. ~Deadlocked(status', deps', ahead', j)
            BY <2>3 DEF Edit, Placed
        <3> QED BY <3>1, <2>2, <1>1, <1>2, CheckedWaiter
    <2> QED BY <2>1, <2>3
<1>first. UnplacedFirst'
    <2>1. \A i \in Ids, k \in unplaced' : <<i, k>> \in ahead' => <<i, k>> \in ahead
        BY <1>2 DEF Without
    <2>2. \A i \in Ids, k \in Ids : c # chan[j] /\ k # j /\ <<i, k>> \in ahead' => i # j
        BY <1>2 DEF Without
    <2> QED BY <1>1, <1>2, <2>1, <2>2 DEF UnplacedFirst, TypeOK
<1>8. StrictOrder'
    <2>1. CASE c = chan[j]
        <3>1. chan' = chan /\ ahead' = ahead
            BY <2>1, <1>1, <1>2 DEF TypeOK
        <3>2. \A k, l \in Ids : (SameLane(k, l))' <=> SameLane(k, l)
            BY <3>1, <1>2 DEF SameLane
        <3> QED BY <3>1, <3>2, <1>1 DEF StrictOrder
    <2>2. CASE c # chan[j]
        <3> DEFINE target == Lane(c, FALSE)
        <3>1. j \notin target /\ target \subseteq Ids
            BY <2>2 DEF Lane, Queued
        <3>2. \A k, l \in Ids \ {j} : (SameLane(k, l))' <=> SameLane(k, l)
            BY <1>1, <1>2 DEF SameLane, TypeOK
        <3>3. chan'[j] = c /\ \A k \in Ids \ {j} : chan'[k] = chan[k]
            BY <1>1, <1>2 DEF TypeOK
        <3>4. \A k \in Ids \ {j} : ((SameLane(k, j))' <=> k \in target) /\ ((SameLane(j, k))' <=> k \in target)
            BY <3>3, <1>1, <1>2 DEF SameLane, Lane, Queued, TypeOK
        <3>5. \A k, l \in Ids \ {j} : <<k, l>> \in ahead' <=> <<k, l>> \in ahead
            BY <2>2, <1>2 DEF Without
        <3>6. \A k \in Ids : (<<k, j>> \in ahead' <=> k \in target) /\ <<j, k>> \notin ahead'
            BY <2>2, <1>2, <3>1 DEF Without
        <3>7. \A k, l \in Ids : <<k, l>> \in ahead /\ l \in target => k \in target
            BY <1>1 DEF StrictOrder, SameLane, Lane, Queued
        <3> HIDE DEF target
        <3>8. ASSUME NEW k \in Ids, NEW l \in Ids, <<k, l>> \in ahead' PROVE (SameLane(k, l))' /\ k # l
            <4>1. CASE l = j
                BY <4>1, <3>1, <3>4, <3>6, <3>8
            <4>2. CASE k = j
                BY <4>2, <3>6, <3>8
            <4>3. CASE k # j /\ l # j
                BY <4>3, <3>2, <3>5, <3>8, <1>1 DEF StrictOrder
            <4> QED BY <4>1, <4>2, <4>3
        <3>9. ASSUME NEW k \in Ids, NEW l \in Ids, (SameLane(k, l))', k # l
              PROVE  <<k, l>> \in ahead' \/ <<l, k>> \in ahead'
            BY <3>1, <3>2, <3>4, <3>5, <3>6, <3>9, <1>1 DEF StrictOrder
        <3>10. ASSUME NEW k \in Ids, NEW l \in Ids, NEW m \in Ids, <<k, l>> \in ahead', <<l, m>> \in ahead'
               PROVE  <<k, m>> \in ahead'
            BY <3>1, <3>5, <3>6, <3>7, <3>10, <1>1 DEF StrictOrder
        <3> QED BY <3>8, <3>9, <3>10 DEF StrictOrder
    <2> QED BY <2>1, <2>2
<1> QED BY <1>4, <1>6, <1>7, <1>first, <1>8 DEF StoreInv

LEMMA RmStep ==
    ASSUME ConstantsOK, StoreInv, NEW j \in Ids, Rm(j)
    PROVE  StoreInv'
<1>1. StrictOrder /\ TypeOK /\ RowsNamed /\ DependenciesKept /\ RetriesSettled /\ UnplacedFirst /\ NoWaitCycle
    BY DEF StoreInv
<1>2. /\ status[j] = "queued" /\ status' = [status EXCEPT ![j] = "gone"]
      /\ deps' = {q \in deps : q[1] # j /\ q[2] # j} /\ ahead' = Without(j)
      /\ UNCHANGED <<columns, ended, flags, progress, observers>>
    BY DEF Rm
<1>3. status'[j] = "gone" /\ \A k \in Ids \ {j} : status'[k] = status[k]
    BY <1>1, <1>2 DEF TypeOK
<1>4. TypeOK'
    BY <1>1, <1>2 DEF TypeOK, Status, Without, columns, flags, progress, observers
<1>5. RetriesSettled' /\ DependenciesKept'
    BY <1>1, <1>2, <1>3 DEF RetriesSettled, DependenciesKept, TypeOK, columns
<1>6. RowsNamed'
    BY <1>1, <1>2, <1>3 DEF RowsNamed, TypeOK, columns, progress
<1>7. StrictOrder'
    <2>1. \A k, l \in Ids : <<k, l>> \in ahead' <=> <<k, l>> \in ahead /\ k # j /\ l # j
        BY <1>2 DEF Without
    <2>2. \A k, l \in Ids : (SameLane(k, l))' <=> SameLane(k, l) /\ k # j /\ l # j
        BY <1>2, <1>3 DEF SameLane, columns
    <2> QED BY <2>1, <2>2, <1>1 DEF StrictOrder
<1>8. NoWaitCycle'
    <2>1. \A k \in Ids : WaitsFor(status', deps', ahead', k) \subseteq WaitsFor(status, deps, ahead, k)
        BY <1>2, <1>3 DEF WaitsFor, Without, Unfinished
    <2>2. unplaced' = unplaced
        BY <1>2 DEF columns
    <2> QED BY <2>1, <2>2, <1>1, FewerWaits
<1>9. UnplacedFirst'
    BY <1>1, <1>2, <1>3 DEF UnplacedFirst, Without, columns, TypeOK
<1> QED BY <1>4, <1>5, <1>6, <1>7, <1>8, <1>9 DEF StoreInv

(* What is cleared has ended, and nothing queued depends on it. *)
LEMMA ClearStep ==
    ASSUME ConstantsOK, StoreInv, NEW C \in SUBSET Channels, Clear(C)
    PROVE  StoreInv'
<1> DEFINE cleared == UNION {Unneeded(status, c) : c \in C}
<1>1. StrictOrder /\ TypeOK /\ RowsNamed /\ DependenciesKept /\ RetriesSettled /\ UnplacedFirst /\ NoWaitCycle
    BY DEF StoreInv
<1>2. /\ status' = [j \in Ids |-> IF j \in cleared THEN "gone" ELSE status[j]]
      /\ known' \subseteq known /\ paused' \subseteq paused /\ shouldPause' \subseteq shouldPause
      /\ deps' = KeptDeps(status')
      /\ UNCHANGED <<columns, ahead, ended, progress, outcome, wanted, crashes>>
    BY DEF Clear
<1>3. \A j \in cleared : /\ j \in Ids /\ status[j] \in Terminal
                         /\ \A w \in Ids, m \in Modes : <<w, j, m>> \in deps => status[w] # "queued"
    BY DEF Unneeded
<1> HIDE DEF cleared
<1>4. \A j \in Ids : status'[j] = status[j] \/ (status[j] \in Terminal /\ status'[j] = "gone" /\ j \in cleared)
    BY <1>2, <1>3
<1>5. TypeOK'
    <2>1. status' \in [Ids -> Status]
        BY <1>1, <1>2 DEF TypeOK, Status
    <2>2. deps' \subseteq deps
        BY <1>2 DEF KeptDeps
    <2> QED BY <1>1, <1>2, <2>1, <2>2 DEF TypeOK, columns, progress
<1>6. DependenciesKept'
    <2> SUFFICES ASSUME NEW q \in deps', status'[q[1]] = "queued"
                 PROVE  status'[q[2]] \notin {"gone", "none"}
        BY DEF DependenciesKept
    <2>1. q \in deps /\ q[1] \in Ids /\ q[2] \in Ids /\ q[3] \in Modes /\ q = <<q[1], q[2], q[3]>>
        BY <1>1, <1>2 DEF KeptDeps, TypeOK
    <2>2. status[q[1]] = "queued"
        BY <2>1, <1>4 DEF Terminal
    <2>3. status[q[2]] \notin {"gone", "none"}
        BY <2>1, <2>2, <1>1 DEF DependenciesKept
    <2>4. q[2] \notin cleared
        BY <2>1, <2>2, <1>3
    <2> QED BY <2>1, <2>3, <2>4, <1>4
<1>7. RetriesSettled'
    BY <1>1, <1>2, <1>4 DEF RetriesSettled, columns, Terminal
<1>8. RowsNamed'
    <2>1. \A j \in Ids : (status'[j] = "none") <=> (status[j] = "none")
        BY <1>4 DEF Terminal
    <2> QED BY <2>1, <1>1, <1>2 DEF RowsNamed, TypeOK, KeptDeps, columns, progress
<1>9. StrictOrder'
    <2>1. \A k, l \in Ids : (SameLane(k, l))' <=> SameLane(k, l)
        BY <1>2, <1>4 DEF SameLane, columns, Terminal
    <2> QED BY <2>1, <1>1, <1>2 DEF StrictOrder
<1>10. NoWaitCycle'
    <2>1. \A j \in Ids : status'[j] \in Unfinished => status[j] \in Unfinished
        BY <1>4 DEF Unfinished
    <2>2. \A k \in Ids : WaitsFor(status', deps', ahead', k) \subseteq WaitsFor(status, deps, ahead, k)
        BY <2>1, <1>2 DEF WaitsFor, KeptDeps
    <2>3. unplaced' = unplaced
        BY <1>2 DEF columns
    <2> QED BY <2>2, <2>3, <1>1, FewerWaits
<1>11. UnplacedFirst'
    BY <1>1, <1>2, <1>4 DEF UnplacedFirst, columns, TypeOK, Terminal
<1> QED BY <1>5, <1>6, <1>7, <1>8, <1>9, <1>10, <1>11 DEF StoreInv

----------------------------------------------------------------------------
(* Starting and ending jobs                                                *)

LEMMA RunStep ==
    ASSUME ConstantsOK, StoreInv, NEW j \in Ids, status[j] = "queued", Run(j)
    PROVE  StoreInv'
<1>1. StrictOrder /\ TypeOK /\ RowsNamed /\ DependenciesKept /\ RetriesSettled /\ UnplacedFirst /\ NoWaitCycle
    BY DEF StoreInv
<1>2. /\ status' = [status EXCEPT ![j] = "running"] /\ ahead' = Without(j)
      /\ UNCHANGED <<columns, deps, ended, flags, progress, observers>>
    BY DEF Run
<1>3. status'[j] = "running" /\ \A k \in Ids \ {j} : status'[k] = status[k]
    BY <1>1, <1>2 DEF TypeOK
<1>4. TypeOK'
    BY <1>1, <1>2 DEF TypeOK, Status, Unfinished, Without, columns, flags, progress, observers
<1>5. RetriesSettled' /\ DependenciesKept'
    BY <1>1, <1>2, <1>3 DEF RetriesSettled, DependenciesKept, TypeOK, columns, Terminal
<1>6. RowsNamed'
    BY <1>1, <1>2, <1>3 DEF RowsNamed, TypeOK, columns, progress
<1>7. StrictOrder'
    <2>1. \A k, l \in Ids : <<k, l>> \in ahead' <=> <<k, l>> \in ahead /\ k # j /\ l # j
        BY <1>2 DEF Without
    <2>2. \A k, l \in Ids : (SameLane(k, l))' <=> SameLane(k, l) /\ k # j /\ l # j
        BY <1>2, <1>3 DEF SameLane, columns
    <2> QED BY <2>1, <2>2, <1>1 DEF StrictOrder
<1>8. NoWaitCycle'
    <2>1. \A k \in Ids : WaitsFor(status', deps', ahead', k) \subseteq WaitsFor(status, deps, ahead, k)
        BY <1>2, <1>3 DEF WaitsFor, Without, Unfinished
    <2>2. unplaced' = unplaced
        BY <1>2 DEF columns
    <2> QED BY <2>1, <2>2, <1>1, FewerWaits
<1>9. UnplacedFirst'
    BY <1>1, <1>2, <1>3 DEF UnplacedFirst, Without, columns, TypeOK
<1> QED BY <1>4, <1>5, <1>6, <1>7, <1>8, <1>9 DEF StoreInv

(* Ending a job, with whatever bookkeeping its action adds. *)
LEMMA RowEndStep ==
    ASSUME ConstantsOK, StoreInv, NEW j \in Ids, NEW st \in Terminal, RowEnds(j, st), status[j] # "none",
           checking' \in {checking, None}, finishing' \in Ids \cup {None}, todo' \subseteq Ids,
           stale' \subseteq StaleNext, shouldPause' \subseteq Ids, crashes' \in Nat,
           UNCHANGED <<columns, flags, wanted>>
    PROVE  StoreInv'
<1>1. StrictOrder /\ TypeOK /\ RowsNamed /\ DependenciesKept /\ RetriesSettled /\ UnplacedFirst /\ NoWaitCycle
    BY DEF StoreInv
<1>2. TypeOK'
    <2>1. /\ status' \in [Ids -> Status] /\ deps' \subseteq deps /\ ended' \in [Ids -> Nat]
          /\ ahead' = Without(j) /\ outcome' \in [Ids -> Terminal \cup {"none"}]
        BY <1>1, EndEffect
    <2> QED BY <1>1, <2>1 DEF TypeOK, Without, columns, flags, StaleNext
<1>3. UNCHANGED columns
    OBVIOUS
<1> QED BY <1>1, <1>2, <1>3, EndKeeps DEF StoreInv

LEMMA EndStep ==
    ASSUME ConstantsOK, StoreInv, NEW j \in Ids, NEW st \in Terminal, End(j, st), status[j] # "none",
           checking' \in {checking, None}, finishing' \in Ids \cup {None}, todo' \subseteq Ids,
           stale' \subseteq stale, shouldPause' \subseteq Ids, UNCHANGED <<columns, flags, wanted, crashes>>
    PROVE  StoreInv'
<1>1. RowEnds(j, st)
    BY EndIsRowEnds
<1>2. stale' \subseteq StaleNext /\ crashes' \in Nat
    BY DEF StaleNext, StoreInv, TypeOK
<1>3. UNCHANGED <<columns, flags, wanted>>
    OBVIOUS
<1> QED BY <1>1, <1>2, <1>3, RowEndStep

LEMMA FinishStep ==
    ASSUME ConstantsOK, StoreInv, NEW j \in Ids, NEW st \in Outcomes, Finish(j, st)
    PROVE  StoreInv'
<1>1. st \in Terminal
    BY DEF ConstantsOK, Terminal
<1>2. status[j] # "none" /\ End(j, st) /\ finishing' = j /\ todo' = {j} /\ checking' = checking /\ stale' = stale
    BY DEF Finish
<1>3. shouldPause' \subseteq Ids
    BY DEF Finish, StoreInv, TypeOK
<1>4. UNCHANGED <<columns, flags, wanted, crashes>>
    BY DEF Finish
<1> QED BY <1>1, <1>2, <1>3, <1>4, EndStep

(* The other ways of ending a job: it had a row. *)
LEMMA SkipStep ==
    ASSUME ConstantsOK, StoreInv, NEW j \in Ids, status[j] # "none",
           SkipBlocked(j), checking' \in {checking, None}
    PROVE  StoreInv'
<1>1. "skipped" \in Terminal /\ End(j, "skipped") /\ todo' \subseteq Ids /\ stale' \subseteq stale
    BY DEF SkipBlocked, Terminal
<1>2. finishing' \in Ids \cup {None} /\ shouldPause' \subseteq Ids
    BY DEF SkipBlocked, StoreInv, TypeOK
<1>3. UNCHANGED <<columns, flags, wanted, crashes>>
    BY DEF SkipBlocked
<1> QED BY <1>1, <1>2, <1>3, EndStep

LEMMA CancelStep ==
    ASSUME ConstantsOK, StoreInv, NEW j \in Ids, CancelQueued(j)
    PROVE  StoreInv'
<1>1. "cancelled" \in Terminal /\ End(j, "cancelled") /\ todo' \subseteq Ids /\ status[j] # "none"
      /\ stale' = stale /\ checking' = checking
    BY DEF CancelQueued, Terminal
<1>2. finishing' \in Ids \cup {None} /\ shouldPause' \subseteq Ids
    BY DEF CancelQueued, StoreInv, TypeOK
<1>3. UNCHANGED <<columns, flags, wanted, crashes>>
    BY DEF CancelQueued
<1> QED BY <1>1, <1>2, <1>3, EndStep

LEMMA DependantStep ==
    ASSUME ConstantsOK, StoreInv, NEW d \in Ids, NEW w \in Ids, SkipDependant(d, w)
    PROVE  StoreInv'
<1>1. "skipped" \in Terminal /\ End(w, "skipped") /\ status[w] # "none" /\ stale' = stale /\ checking' = checking
    BY DEF SkipDependant, Terminal, Doomed, Queued
<1>2. finishing' \in Ids \cup {None} /\ shouldPause' \subseteq Ids /\ todo' \subseteq Ids
    BY DEF SkipDependant, StoreInv, TypeOK
<1>3. UNCHANGED <<columns, flags, wanted, crashes>>
    BY DEF SkipDependant
<1> QED BY <1>1, <1>2, <1>3, EndStep

LEMMA RecoverStep ==
    ASSUME ConstantsOK, StoreInv, NEW j \in Ids, Recover(j)
    PROVE  StoreInv'
<1>1. "interrupted" \in Terminal /\ End(j, "interrupted") /\ status[j] # "none"
      /\ stale' \subseteq stale /\ checking' = checking
    BY DEF Recover, Terminal, StoreInv, RowsNamed
<1>2. finishing' \in Ids \cup {None} /\ shouldPause' \subseteq Ids /\ todo' \subseteq Ids
    BY DEF Recover, StoreInv, TypeOK
<1>3. UNCHANGED <<columns, flags, wanted, crashes>>
    BY DEF Recover
<1> QED BY <1>1, <1>2, <1>3, EndStep

(* Steps that leave the tables of jobs and dependencies alone. *)
LEMMA OtherStep ==
    ASSUME StoreInv, TypeOK', UNCHANGED <<status, columns, ahead, deps>>,
           stale' \subseteq stale \cup {j \in Ids : status[j] = "running"}, checking' \in {checking, None}
    PROVE  StoreInv'
<1>1. StrictOrder /\ TypeOK /\ RowsNamed /\ DependenciesKept /\ RetriesSettled /\ UnplacedFirst /\ NoWaitCycle
    BY DEF StoreInv
<1>2. RowsNamed'
    BY <1>1 DEF RowsNamed, columns
<1>3. RetriesSettled' /\ DependenciesKept'
    BY <1>1 DEF RetriesSettled, DependenciesKept, columns
<1>4. StrictOrder'
    BY <1>1 DEF StrictOrder, SameLane, columns
<1>5. NoWaitCycle' /\ UnplacedFirst'
    BY <1>1 DEF NoWaitCycle, UnplacedFirst, columns
<1> QED BY <1>1, <1>2, <1>3, <1>4, <1>5 DEF StoreInv

LEMMA FlagStep ==
    ASSUME StoreInv, NEW c \in Channels, Pause(c) \/ Resume(c)
    PROVE  StoreInv'
<1>1. TypeOK'
    BY DEF StoreInv, TypeOK, Pause, Resume, columns, progress, observers
<1>2. UNCHANGED <<status, columns, ahead, deps>> /\ stale' = stale /\ checking' = checking
    BY DEF Pause, Resume, progress
<1> QED BY <1>1, <1>2, OtherStep

LEMMA SettledStep ==
    ASSUME StoreInv, NEW d \in Ids, Settled(d)
    PROVE  StoreInv'
<1>1. TypeOK'
    BY DEF StoreInv, TypeOK, Settled, columns, flags, observers
<1>2. UNCHANGED <<status, columns, ahead, deps>> /\ stale' = stale /\ checking' = checking
    BY DEF Settled
<1> QED BY <1>1, <1>2, OtherStep

LEMMA CrashStep ==
    ASSUME StoreInv, Crash
    PROVE  StoreInv'
<1>1. TypeOK'
    BY DEF StoreInv, TypeOK, Crash, Dies, columns, flags
<1>2. /\ UNCHANGED <<status, columns, ahead, deps>>
      /\ stale' = {j \in Ids : status[j] = "running"} /\ checking' = None
    BY DEF Crash, Dies
<1> QED BY <1>1, <1>2, OtherStep

(* A job that loses its position goes behind those in front that have lost    *)
(* theirs and have a lower id, and waits for nobody else's group.             *)
LEMMA CutOffStep ==
    ASSUME ConstantsOK, StoreInv, NEW j \in Ids, CutOff(j)
    PROVE  StoreInv'
<1> PICK lane : lane = Lane(chan[j], prio[j]) \ {j}
    OBVIOUS
<1> PICK before : before = {i \in lane \cap unplaced : i < j}
    OBVIOUS
<1>1. StrictOrder /\ TypeOK /\ RowsNamed /\ DependenciesKept /\ RetriesSettled /\ UnplacedFirst /\ NoWaitCycle
    BY DEF StoreInv
<1>2. /\ status[j] = "queued" /\ unplaced' = unplaced \cup {j}
      /\ ahead' = Without(j) \cup (before \X {j}) \cup ({j} \X (lane \ before))
      /\ UNCHANGED <<status, chan, prio, retries, attempt, pauses, parent, nextId,
                     deps, ended, flags, outcome, wanted, shouldPause>>
      /\ checking' = None /\ finishing' = None /\ todo' = {} /\ crashes' = crashes + 1
      /\ stale' = {k \in Ids : status[k] = "running"}
    BY DEF CutOff, EndingQueued, Queued, Dies
<1>3. lane \subseteq Ids \ {j} /\ before \subseteq lane
    BY DEF Lane, Queued
<1>4. TypeOK'
    BY <1>1, <1>2, <1>3 DEF TypeOK, Without, flags
<1>5. RowsNamed' /\ DependenciesKept' /\ RetriesSettled'
    BY <1>1, <1>2 DEF RowsNamed, DependenciesKept, RetriesSettled, None
<1>6. \A k \in Ids \ {j} : (k \in lane <=> SameLane(k, j)) /\ (k \in lane <=> SameLane(j, k))
    BY <1>2 DEF Lane, Queued, SameLane
<1>7. \A k, l \in Ids : (SameLane(k, l))' <=> SameLane(k, l)
    BY <1>2 DEF SameLane
<1>8. \A k, l \in Ids \ {j} : <<k, l>> \in ahead' <=> <<k, l>> \in ahead
    BY <1>2 DEF Without
<1>9. \A k \in Ids : /\ <<k, j>> \in ahead' <=> k \in before
                     /\ <<j, k>> \in ahead' <=> k \in lane \ before
    BY <1>2, <1>3 DEF Without
<1>10. \A k, l \in Ids : <<k, l>> \in ahead /\ l \in before => k \in before
    <2> SUFFICES ASSUME NEW k \in Ids, NEW l \in before, <<k, l>> \in ahead PROVE k \in before
        OBVIOUS
    <2>1. l \in unplaced /\ l < j /\ l \in Ids /\ l # j
        BY <1>3
    <2>2. k \in unplaced /\ k < l
        BY <1>1, <2>1 DEF UnplacedFirst
    <2>3. k < j
        BY <2>1, <2>2 DEF Ids
    <2>4. k # j
        BY <2>3 DEF Ids
    <2>5. SameLane(k, l) /\ SameLane(l, j)
        BY <1>1, <1>3, <1>6, <2>1 DEF StrictOrder
    <2>6. k \in lane
        BY <2>4, <2>5, <1>6 DEF SameLane
    <2> QED BY <2>2, <2>3, <2>6
<1>11. \A k, l \in Ids : <<k, l>> \in ahead /\ k # j /\ l # j => (k \in lane <=> l \in lane)
    BY <1>1, <1>6 DEF StrictOrder, SameLane
<1>12. \A k, l \in lane : SameLane(k, l)
    BY DEF Lane, Queued, SameLane
<1>13. StrictOrder'
    <2>1. ASSUME NEW k \in Ids, NEW l \in Ids, <<k, l>> \in ahead' PROVE (SameLane(k, l))' /\ k # l
        <3>1. CASE k = j \/ l = j
            <4>1. CASE k = j
                BY <4>1, <1>3, <1>6, <1>7, <1>9, <2>1
            <4>2. CASE l = j /\ k # j
                BY <4>2, <1>3, <1>6, <1>7, <1>9, <2>1
            <4> QED BY <3>1, <4>1, <4>2
        <3>2. CASE k # j /\ l # j
            BY <3>2, <1>1, <1>7, <1>8, <2>1 DEF StrictOrder
        <3> QED BY <3>1, <3>2
    <2>2. ASSUME NEW k \in Ids, NEW l \in Ids, (SameLane(k, l))', k # l
          PROVE  <<k, l>> \in ahead' \/ <<l, k>> \in ahead'
        <3>1. CASE k = j \/ l = j
            BY <3>1, <1>3, <1>6, <1>7, <1>9, <2>2
        <3>2. CASE k # j /\ l # j
            BY <3>2, <1>1, <1>7, <1>8, <2>2 DEF StrictOrder
        <3> QED BY <3>1, <3>2
    <2>3. ASSUME NEW k \in Ids, NEW l \in Ids, NEW m \in Ids, <<k, l>> \in ahead', <<l, m>> \in ahead'
          PROVE  <<k, m>> \in ahead'
        <3>1. CASE k = j
            <4>1. l \in lane \ before /\ l # j
                BY <3>1, <1>3, <1>9, <2>3
            <4>2. m # j
                BY <4>1, <1>9, <2>3
            <4>3. <<l, m>> \in ahead
                BY <4>1, <4>2, <1>8, <2>3
            <4>4. m \in lane \ before
                BY <4>1, <4>2, <4>3, <1>10, <1>11
            <4> QED BY <3>1, <4>4, <1>9
        <3>2. CASE l = j
            <4>1. k \in before /\ m \in lane \ before /\ k # j /\ m # j /\ k # m
                BY <3>2, <1>3, <1>9, <2>3
            <4>2. <<k, m>> \in ahead \/ <<m, k>> \in ahead
                BY <4>1, <1>1, <1>3, <1>12 DEF StrictOrder
            <4>3. <<k, m>> \in ahead
                BY <4>1, <4>2, <1>10
            <4> QED BY <4>1, <4>3, <1>8
        <3>3. CASE k # j /\ l # j /\ m = j
            <4>1. l \in before /\ <<k, l>> \in ahead
                BY <3>3, <1>8, <1>9, <2>3
            <4> QED BY <3>3, <4>1, <1>9, <1>10
        <3>4. CASE k # j /\ l # j /\ m # j
            BY <3>4, <1>1, <1>8, <2>3 DEF StrictOrder
        <3> QED BY <3>1, <3>2, <3>3, <3>4
    <2> QED BY <2>1, <2>2, <2>3 DEF StrictOrder
<1>14. UnplacedFirst'
    <2>1. ASSUME NEW k \in Ids, NEW l \in Ids, <<k, l>> \in ahead', l \in unplaced'
          PROVE  k \in unplaced' /\ k < l
        <3>1. CASE l = j
            BY <3>1, <1>2, <1>9, <2>1
        <3>2. CASE l # j /\ k = j
            <4>1. l \in lane \ before /\ l \in unplaced
                BY <3>2, <1>2, <1>9, <2>1
            <4>2. ~(l < j)
                BY <4>1
            <4> QED BY <3>2, <4>2, <1>2 DEF Ids
        <3>3. CASE l # j /\ k # j
            BY <3>3, <1>1, <1>2, <1>8, <2>1 DEF UnplacedFirst
        <3> QED BY <3>1, <3>2, <3>3
    <2>2. \A k \in unplaced' : status'[k] # "none"
        BY <1>1, <1>2 DEF UnplacedFirst
    <2> QED BY <2>1, <2>2 DEF UnplacedFirst
<1>15. NoWaitCycle'
    <2> SUFFICES ASSUME NEW T \in (SUBSET (Ids \ unplaced')) \ {{}}
                 PROVE  \E k \in T : WaitsFor(status', deps', ahead', k) \cap T = {}
        BY DEF NoWaitCycle
    <2>1. T \in (SUBSET (Ids \ unplaced)) \ {{}} /\ j \notin T
        BY <1>2
    <2>2. PICK k \in T : WaitsFor(status, deps, ahead, k) \cap T = {}
        BY <1>1, <2>1 DEF NoWaitCycle
    <2>3. \A i \in T : <<i, k>> \in ahead' => <<i, k>> \in ahead
        BY <1>8, <2>1
    <2> QED BY <2>2, <2>3, <1>2 DEF WaitsFor
<1> QED BY <1>1, <1>4, <1>5, <1>13, <1>14, <1>15 DEF StoreInv

(* A job that ended when the daemon died before it pruned the history. *)
LEMMA UnprunedStep ==
    ASSUME ConstantsOK, StoreInv, NEW j \in Ids, NEW st \in Terminal, EndUnpruned(j, st)
    PROVE  StoreInv'
<1>1. RowEnds(j, st)
    BY DEF EndUnpruned, RowEnds
<1>2. status[j] # "none"
    BY DEF EndUnpruned, EndingQueued, Queued, StoreInv, RowsNamed
<1>3. /\ checking' \in {checking, None} /\ finishing' \in Ids \cup {None} /\ todo' \subseteq Ids
      /\ stale' \subseteq StaleNext /\ crashes' \in Nat /\ shouldPause' \subseteq Ids
    BY DEF EndUnpruned, Dies, StaleNext, StoreInv, TypeOK
<1>4. UNCHANGED <<columns, flags, wanted>>
    BY DEF EndUnpruned
<1> QED BY <1>1, <1>2, <1>3, <1>4, RowEndStep

LEMMA CheckStep ==
    ASSUME ConstantsOK, StoreInv, Check
    PROVE  StoreInv'
<1>1. checking \in Ids /\ status[checking] # "none" /\ checking' = None
    BY DEF Check, StoreInv, TypeOK, RowsNamed
<1>2. CASE Blocked(checking)
    <2>1. SkipBlocked(checking)
        BY <1>2 DEF Check
    <2> QED BY <1>1, <2>1, SkipStep
<1>3. CASE ~Blocked(checking)
    <2>1. UNCHANGED <<status, columns, ahead, deps, ended, flags, finishing, todo, stale, observers>>
        BY <1>3 DEF Check
    <2>2. TypeOK'
        BY <1>1, <2>1 DEF StoreInv, TypeOK, columns, flags, observers
    <2> QED BY <1>1, <2>1, <2>2, OtherStep
<1> QED BY <1>2, <1>3

LEMMA AfterFinishStep ==
    ASSUME ConstantsOK, StoreInv, AfterFinish
    PROVE  StoreInv'
<1>1. TypeOK /\ finishing \in Ids /\ finishing' = None /\ UNCHANGED <<deps, ended, checking, todo, stale, observers>>
    BY DEF AfterFinish, StoreInv, TypeOK
<1>2. CASE AutoRetry(finishing)
    <2>1. /\ Insert(chan[finishing], FALSE, Lane(chan[finishing], FALSE),
                    retries[finishing], attempt[finishing] + 1, pauses[finishing], finishing)
          /\ paused' = paused
        BY <1>2 DEF AfterFinish
    <2>2. /\ chan[finishing] \in Channels /\ retries[finishing] \in Nat
          /\ attempt[finishing] + 1 \in Nat /\ pauses[finishing] \in BOOLEAN
        BY <1>1 DEF TypeOK
    <2>3. Precedes(finishing, attempt[finishing] + 1)
        <3>1. /\ status[finishing] = "failed" /\ attempt[finishing] < retries[finishing]
              /\ attempt[finishing] \in Nat /\ retries[finishing] \in Nat
            BY <1>1, <1>2 DEF AutoRetry, WillRetry, TypeOK
        <3>2. attempt[finishing] + 1 <= retries[finishing]
            BY <3>1
        <3> QED BY <1>1, <3>1, <3>2 DEF Precedes, Terminal
    <2>4. PICK c \in Channels, r \in Nat, a \in Nat, f \in BOOLEAN, j \in Ids :
              Precedes(j, a) /\ Insert(c, FALSE, Lane(c, FALSE), r, a, f, j)
        BY <1>1, <2>1, <2>2, <2>3
    <2>5. UNCHANGED <<deps, ended, paused, checking, todo, stale, observers>>
        BY <1>1, <2>1
    <2> QED BY <1>1, <2>4, <2>5, CopyStep
<1>3. CASE ~AutoRetry(finishing)
    <2>1. /\ paused' = IF PauseAsked(finishing) THEN paused \cup {chan[finishing]} ELSE paused
          /\ UNCHANGED <<status, columns, ahead, known>>
        BY <1>3 DEF AfterFinish
    <2>2. TypeOK'
        BY <1>1, <2>1 DEF TypeOK, columns, observers
    <2> QED BY <1>1, <2>1, <2>2, OtherStep
<1> QED BY <1>2, <1>3

LEMMA NowStep ==
    ASSUME ConstantsOK, StoreInv, NEW c \in Channels, NEW r \in 0..MaxRetries, NEW f \in OnFail, AddNow(c, r, f)
    PROVE  StoreInv'
<1>1. f \in BOOLEAN /\ r \in Nat /\ Precedes(None, 0)
    BY DEF ConstantsOK, Precedes
<1>2. /\ Insert(c, TRUE, Lane(c, TRUE), r, 0, f, None)
      /\ UNCHANGED <<deps, ended, paused, checking, todo, stale, observers>> /\ finishing' = finishing
    BY DEF AddNow, progress
<1> QED BY <1>1, <1>2, CopyStep

LEMMA RequeueStep ==
    ASSUME ConstantsOK, StoreInv, NEW j \in Ids, Requeue(j)
    PROVE  StoreInv'
<1>1. chan[j] \in Channels /\ retries[j] \in Nat /\ pauses[j] \in BOOLEAN /\ Precedes(j, 0)
    BY DEF StoreInv, TypeOK, Precedes
<1>2. /\ Insert(chan[j], FALSE, Lane(chan[j], FALSE), retries[j], 0, pauses[j], j)
      /\ UNCHANGED <<deps, ended, paused, checking, todo, stale, observers>> /\ finishing' = finishing
    BY DEF Requeue, progress
<1> QED BY <1>1, <1>2, CopyStep, ZenonT(30)

----------------------------------------------------------------------------
(* The invariant                                                           *)

LEMMA StoreInit == ConstantsOK /\ Init => StoreInv
<1> SUFFICES ASSUME ConstantsOK, Init PROVE StoreInv
    OBVIOUS
<1>1. TypeOK
    BY DEF Init, TypeOK, ConstantsOK, Status
<1>2. RowsNamed /\ RetriesSettled /\ DependenciesKept
    BY DEF Init, RowsNamed, RetriesSettled, DependenciesKept
<1>3. StrictOrder
    BY DEF Init, StrictOrder, SameLane
<1>4. NoWaitCycle /\ UnplacedFirst
    BY DEF Init, NoWaitCycle, UnplacedFirst, WaitsFor
<1> QED BY <1>1, <1>2, <1>3, <1>4 DEF StoreInv

LEMMA StoreStep == ConstantsOK /\ StoreInv /\ [Next]_vars => StoreInv'
<1> SUFFICES ASSUME ConstantsOK, StoreInv, [Next]_vars PROVE StoreInv'
    OBVIOUS
<1>1. ASSUME NEW c \in Channels, NEW M \in Given, NEW r \in 0..MaxRetries, NEW f \in OnFail,
             \/ Add(c, "end", None, M, r, f)
             \/ \E place \in {"before", "after"}, t \in Queued : Add(c, place, t, M, r, f)
      PROVE  StoreInv'
    BY <1>1, AddStep
<1>2. ASSUME NEW C \in {Channels} \cup {{c} : c \in Channels}, Clear(C) PROVE StoreInv'
    <2>1. C \in SUBSET Channels
        OBVIOUS
    <2> QED BY <1>2, <2>1, ClearStep
<1>3. ASSUME Request PROVE StoreInv'
    BY <1>1, <1>2, <1>3, NowStep, CancelStep, RmStep, RequeueStep, EditStep, FlagStep DEF Request
<1>4. ASSUME NEW j \in Ids, Start(j) \/ StartNow(j) PROVE StoreInv'
    <2>1. status[j] = "queued" /\ Run(j)
        BY <1>4 DEF Start, StartNow, Turn, IsHead, Queued
    <2> QED BY <2>1, RunStep
<1>5. ASSUME NEW j \in Ids, SkipHead(j) PROVE StoreInv'
    <2>1. status[j] # "none" /\ SkipBlocked(j) /\ checking' = checking
        BY <1>5 DEF SkipHead, Turn, IsHead, Queued
    <2> QED BY <2>1, SkipStep
<1>6. ASSUME Bookkeeping PROVE StoreInv'
    BY <1>6, CheckStep, AfterFinishStep, SettledStep, RecoverStep, DependantStep DEF Bookkeeping
<1>7. ASSUME UNCHANGED vars PROVE StoreInv'
    <2>1. TypeOK'
        BY <1>7 DEF vars, columns, flags, progress, observers, StoreInv, TypeOK
    <2>2. UNCHANGED <<status, columns, ahead, deps>> /\ stale' = stale /\ checking' = checking
        BY <1>7 DEF vars, progress
    <2> QED BY <2>1, <2>2, OtherStep
<1> QED BY <1>3, <1>4, <1>5, <1>6, <1>7, FinishStep, CrashStep, CutOffStep, UnprunedStep DEF Next

(* The rows keep the types of their columns, and a retry stays within the     *)
(* `--retries` of the attempt that failed, for any channels and bounds.       *)
THEOREM StoreTypeCorrect == Spec => []TypeOK
<1>1. StoreInv => TypeOK
    BY DEF StoreInv
<1> QED BY <1>1, StoreInit, StoreStep, ConstantsOK, PTL DEF Spec

(* No prune, clear, rm or edit ever takes a row a queued job depends on.      *)
THEOREM DependenciesStay == Spec => []DependenciesKept
<1>1. StoreInv => DependenciesKept
    BY DEF StoreInv
<1> QED BY <1>1, StoreInit, StoreStep, ConstantsOK, PTL DEF Spec

(* Whatever is queued, moved, started or ended, each lane has one order.      *)
THEOREM LanesOrdered == Spec => []LaneOrder
<1>1. ASSUME StoreInv PROVE LaneOrder
    <2>1. StrictOrder /\ TypeOK
        BY <1>1 DEF StoreInv
    <2>2. ASSUME NEW q \in ahead
          PROVE  \E c \in Channels, p \in BOOLEAN : q[1] \in Lane(c, p) /\ q[2] \in Lane(c, p)
        <3>1. q[1] \in Ids /\ q[2] \in Ids /\ q = <<q[1], q[2]>>
            BY <2>1 DEF TypeOK
        <3>2. SameLane(q[1], q[2])
            BY <2>1, <3>1 DEF StrictOrder
        <3>3. PICK c \in Channels, p \in BOOLEAN : c = chan[q[1]] /\ p = prio[q[1]]
            BY <2>1, <3>1 DEF TypeOK
        <3>4. q[1] \in Lane(c, p)
            BY <3>1, <3>2, <3>3 DEF SameLane, Lane, Queued
        <3>5. q[2] \in Lane(c, p)
            BY <3>1, <3>2, <3>3 DEF SameLane, Lane, Queued
        <3> QED BY <3>4, <3>5
    <2>3. ASSUME NEW c \in Channels, NEW p \in BOOLEAN, NEW i \in Lane(c, p), NEW j \in Lane(c, p)
          PROVE  /\ i # j <=> (<<i, j>> \in ahead \/ <<j, i>> \in ahead)
                 /\ \A k \in Lane(c, p) : <<i, j>> \in ahead /\ <<j, k>> \in ahead => <<i, k>> \in ahead
        BY <2>1 DEF StrictOrder, SameLane, Lane, Queued
    <2> QED BY <2>2, <2>3 DEF LaneOrder
<1> QED BY <1>1, StoreInit, StoreStep, ConstantsOK, PTL DEF Spec

(* Queue order and dependencies never make jobs wait in a circle: the search  *)
(* of `_find_deadlock` from the one job an add or an edit places is enough.   *)
THEOREM NeverDeadlocked == Spec => []NoWaitCycle
<1>1. StoreInv => NoWaitCycle
    BY DEF StoreInv
<1> QED BY <1>1, StoreInit, StoreStep, ConstantsOK, PTL DEF Spec

----------------------------------------------------------------------------
(* What became of the jobs                                                 *)

(* The outcome of a job is the last status its row had. *)
Recorded ==
    /\ \A j \in Ids : status[j] \in Terminal => outcome[j] = status[j]
    /\ \A j \in Ids : outcome[j] # "none" => status[j] \in Terminal \cup {"gone"}
    /\ \A j \in stale : status[j] = "running"

(* Waiting jobs have the rows in job_deps that were asked for, `--now` jobs none. *)
Remembered ==
    /\ \A r \in wanted : status[r[1]] # "none" /\ status[r[2]] # "none" /\ ~prio[r[1]]
    /\ \A j \in Queued, d \in Ids, m \in Modes : <<j, d, m>> \in wanted <=> <<j, d, m>> \in deps

(* The daemon does one piece of bookkeeping at a time. *)
OneThing ==
    /\ checking # None => status[checking] = "queued" /\ finishing = None /\ todo = {} /\ stale = {}
    /\ finishing # None => stale = {}
    /\ stale # {} => crashes > 0

Ledger == Recorded /\ Remembered /\ OneThing /\ RanAsAsked /\ SkipsDeserved

(* Undisturbed, a job that failed is on the todo list until those that needed *)
(* it have been told, or the one that asked for it too late has looked.       *)
Told ==
    crashes = 0 =>
        \A r \in deps : /\ status[r[1]] = "queued" /\ r[3] = "success"
                        /\ status[r[2]] \in Terminal \ {"done"}
                        => r[2] \in todo \/ r[1] = checking

(* The ended job is in the history when the rest of `_after_finish` reads it. *)
InHistory == finishing # None => status[finishing] # "gone"

NextMade(j) == \E k \in Ids : parent[k] = j /\ attempt[k] = attempt[j] + 1

FirstParent == \A k \in Ids : status[k] = "none" => parent[k] = None

Retrying ==
    crashes = 0 => \A j \in Ids : outcome[j] = "failed" /\ WillRetry(j) => finishing = j \/ NextMade(j)

Pausing ==
    crashes = 0 =>
        \A j \in shouldPause :
            /\ outcome[j] = "failed"
            /\ chan[j] \in paused \/ (finishing = j /\ pauses[j] /\ ~WillRetry(j))

Answering == FirstParent /\ Retrying /\ Pausing

LEMMA NoneIsNoId == None \notin Ids
    BY ConstantsOK DEF Ids, None, ConstantsOK

(* Job j ended as st: its row and those pruned with it, nobody else's. *)
Ended(j, st) ==
    /\ st \in Terminal
    /\ status'[j] \in {st, "gone"}
    /\ \A k \in Ids \ {j} : status'[k] = status[k] \/ (status[k] \in Terminal /\ status'[k] = "gone")
    /\ deps' \subseteq deps
    /\ \A r \in deps : status'[r[1]] = "queued" => r \in deps'
    /\ outcome' = [outcome EXCEPT ![j] = st]

LEMMA RowEndedAs ==
    ASSUME ConstantsOK, TypeOK, NEW j \in Ids, NEW st \in Terminal, RowEnds(j, st)
    PROVE  Ended(j, st)
<1>1. /\ status'[j] \in {st, "gone"}
      /\ \A k \in Ids \ {j} : status'[k] = status[k] \/ (status[k] \in Terminal /\ status'[k] = "gone")
      /\ deps' \subseteq deps
    BY EndEffect
<1>2. \A r \in deps : status'[r[1]] = "queued" => r \in deps'
    BY DEF RowEnds, EndPruning, KeptDeps
<1>3. outcome' = [outcome EXCEPT ![j] = st]
    BY DEF RowEnds, EndPruning
<1> QED BY <1>1, <1>2, <1>3 DEF Ended

LEMMA EndedAs ==
    ASSUME ConstantsOK, TypeOK, NEW j \in Ids, NEW st \in Terminal, End(j, st)
    PROVE  Ended(j, st)
    BY RowEndedAs, EndIsRowEnds

(* A row was added for an id that had none. *)
Inserted(c, p, r, a, f, from) ==
    /\ nextId \in Ids /\ status[nextId] = "none"
    /\ status' = [status EXCEPT ![nextId] = "queued"]
    /\ chan' = [chan EXCEPT ![nextId] = c]
    /\ prio' = [prio EXCEPT ![nextId] = p]
    /\ retries' = [retries EXCEPT ![nextId] = r]
    /\ attempt' = [attempt EXCEPT ![nextId] = a]
    /\ pauses' = [pauses EXCEPT ![nextId] = f]
    /\ parent' = [parent EXCEPT ![nextId] = from]

LEMMA InsertedAs ==
    ASSUME ConstantsOK, StoreInv, NEW c, NEW p, NEW front, NEW r, NEW a, NEW f, NEW from,
           Insert(c, p, front, r, a, f, from)
    PROVE  Inserted(c, p, r, a, f, from)
<1>1. nextId \in Ids /\ status[nextId] = "none"
    BY DEF Insert, StoreInv, RowsNamed, TypeOK, Ids, ConstantsOK
<1> QED BY <1>1 DEF Insert, Inserted

(* What the job was when it ended, and why. *)
EndsRightly(j, st) ==
    /\ status[j] \in Unfinished
    /\ st \in {"done", "failed"} => status[j] = "running"
    /\ st = "skipped" => status[j] = "queued" /\ \E d \in Ids : /\ <<j, d, "success">> \in deps
                                                           /\ status[d] \in Terminal \ {"done"}
    /\ stale' \subseteq (stale \ {j}) \cup {k \in Ids : status'[k] = "running"}
    /\ UNCHANGED <<columns, wanted>>

(* A blocked job needed one that is still in the history and did not end done. *)
LEMMA BlockedNeeds ==
    ASSUME StoreInv, NEW j \in Ids, status[j] = "queued", Blocked(j)
    PROVE  \E d \in Ids : <<j, d, "success">> \in deps /\ status[d] \in Terminal \ {"done"}
<1>1. PICK d \in Ids, m \in Modes :
          <<j, d, m>> \in deps /\ (status[d] = "gone" \/ (m = "success" /\ status[d] \in Terminal \ {"done"}))
    BY DEF Blocked
<1>2. status[d] # "gone"
    BY <1>1 DEF StoreInv, DependenciesKept
<1> QED BY <1>1, <1>2

(* Ending a job rightly keeps what is known of the outcomes. *)
LEMMA EndedLedger ==
    ASSUME StoreInv, Ledger, NEW j \in Ids, NEW st, Ended(j, st), EndsRightly(j, st)
    PROVE  Recorded' /\ Remembered' /\ RanAsAsked' /\ SkipsDeserved'
<1> USE DEF Terminal, Unfinished, Ended, EndsRightly
<1>1. TypeOK /\ Recorded /\ Remembered /\ RanAsAsked /\ SkipsDeserved
    BY DEF StoreInv, Ledger
<1>2. outcome[j] = "none" /\ (\A k \in Ids \ {j} : outcome'[k] = outcome[k]) /\ outcome'[j] = st
    BY <1>1 DEF Recorded, TypeOK
<1>3. \A r \in wanted : r[1] \in Ids /\ r[2] \in Ids /\ r = <<r[1], r[2], r[3]>>
    BY <1>1 DEF TypeOK
<1>4. Recorded'
    BY <1>1, <1>2 DEF Recorded, TypeOK
<1>5. Remembered'
    <2>1. ASSUME NEW r \in wanted' PROVE status'[r[1]] # "none" /\ status'[r[2]] # "none" /\ ~prio'[r[1]]
        BY <1>1, <1>3 DEF Remembered, columns
    <2>2. ASSUME NEW k \in Ids, status'[k] = "queued", NEW d \in Ids, NEW m \in Modes
          PROVE  <<k, d, m>> \in wanted' <=> <<k, d, m>> \in deps'
        <3>1. status[k] = "queued" /\ (<<k, d, m>> \in deps => <<k, d, m>> \in deps')
            BY <2>2
        <3> QED BY <3>1, <1>1 DEF Remembered, Queued
    <2> QED BY <2>1, <2>2 DEF Remembered, Queued
<1>6. RanAsAsked'
    <2> SUFFICES ASSUME NEW r \in wanted', status'[r[1]] = "running" \/ outcome'[r[1]] \in {"done", "failed"}
                 PROVE  outcome'[r[2]] \in IF r[3] = "success" THEN {"done"} ELSE Terminal
        BY DEF RanAsAsked
    <2>1. r \in wanted /\ (status[r[1]] = "running" \/ outcome[r[1]] \in {"done", "failed"})
        BY <1>2, <1>3
    <2>2. outcome[r[2]] \in IF r[3] = "success" THEN {"done"} ELSE Terminal
        BY <2>1, <1>1 DEF RanAsAsked
    <2>3. r[2] # j
        BY <2>2, <1>2
    <2> QED BY <2>1, <2>2, <2>3, <1>2, <1>3
<1>7. SkipsDeserved'
    <2> SUFFICES ASSUME NEW k \in Ids, outcome'[k] = "skipped"
                 PROVE  \E d \in Ids : <<k, d, "success">> \in wanted /\ outcome'[d] \in Terminal \ {"done"}
        BY DEF SkipsDeserved
    <2>1. CASE k = j
        <3>1. PICK d \in Ids : <<j, d, "success">> \in deps /\ status[d] \in Terminal \ {"done"}
            BY <2>1, <1>2
        <3>2. <<j, d, "success">> \in wanted
            BY <3>1, <2>1, <1>1, <1>2 DEF Remembered, Queued, Modes
        <3>3. outcome[d] = status[d] /\ d # j
            BY <3>1, <1>1 DEF Recorded
        <3> QED BY <2>1, <3>1, <3>2, <3>3, <1>2
    <2>2. CASE k # j
        <3>1. PICK d \in Ids : <<k, d, "success">> \in wanted /\ outcome[d] \in Terminal \ {"done"}
            BY <2>2, <1>1, <1>2 DEF SkipsDeserved
        <3>2. d # j
            BY <3>1, <1>2
        <3> QED BY <3>1, <3>2, <1>2
    <2> QED BY <2>1, <2>2
<1> QED BY <1>4, <1>5, <1>6, <1>7

(* Whoever ends goes on the todo list, so those that needed it will be told. *)
LEMMA EndedTold ==
    ASSUME StoreInv, Told, NEW j \in Ids, NEW st, Ended(j, st), status[j] \in Unfinished, j \in todo',
           todo \subseteq todo', checking' = checking \/ checking = j, crashes' = crashes
    PROVE  Told'
<1> SUFFICES ASSUME crashes = 0, NEW r \in deps', status'[r[1]] = "queued", r[3] = "success",
                    status'[r[2]] \in Terminal \ {"done"}
             PROVE  r[2] \in todo' \/ r[1] = checking'
    BY DEF Told
<1>1. r \in deps /\ r[1] \in Ids /\ r[2] \in Ids
    BY DEF Ended, StoreInv, TypeOK
<1>2. status[r[1]] = "queued" /\ r[1] # j
    BY <1>1 DEF Ended, Terminal
<1>3. CASE r[2] # j
    <2>1. status[r[2]] = status'[r[2]]
        BY <1>1, <1>3 DEF Ended, Terminal
    <2> QED BY <1>1, <1>2, <2>1 DEF Told
<1> QED BY <1>3

(* Each step keeps the ledger. *)
LEMMA LedgerStep ==
    ASSUME ConstantsOK, StoreInv, Ledger, [Next]_vars
    PROVE  Ledger'
<1> USE DEF Idle, Queued, columns, flags, progress, observers, None, Terminal, Unfinished
<1>1. ASSUME NEW c \in Channels, NEW place \in {"end", "before", "after"}, NEW t, NEW M \in Given,
             NEW n \in 0..MaxRetries, NEW f \in OnFail, Add(c, place, t, M, n, f)
     PROVE  Ledger'
    <2>0. Inserted(c, FALSE, n, 0, f, None)
        BY <1>1, InsertedAs DEF Add, DepRows, Given
    <2>1. Recorded'
        BY <2>0, <1>1 DEF Add, DepRows, Given, Inserted, Recorded, Ledger, StoreInv, TypeOK
    <2>2. Remembered'
        <3>1. PICK N : /\ deps' = deps \cup N /\ wanted' = wanted \cup N
                       /\ N # {} => checking' = nextId
                       /\ \A q \in N : q[1] = nextId /\ q[2] \in Ids /\ status[q[2]] # "none"
            <4>1. /\ deps' = deps \cup DepRows(nextId, M) /\ wanted' = wanted \cup DepRows(nextId, M)
                  /\ DepRows(nextId, M) # {} => checking' = nextId
                BY <1>1 DEF Add, DepRows
            <4>2. \A q \in DepRows(nextId, M) : q[1] = nextId /\ q[2] \in Rows
                BY <1>1 DEF Add, DepRows
            <4> QED BY <4>1, <4>2 DEF Rows
        <3>2. \A r \in deps \cup wanted : r[1] # nextId /\ r[1] \in Ids /\ r[2] \in Ids /\ r[2] # nextId
            BY <2>0 DEF Inserted, Ledger, Remembered, StoreInv, RowsNamed, TypeOK
        <3>3. \A r \in wanted' : status'[r[1]] # "none" /\ status'[r[2]] # "none" /\ ~prio'[r[1]]
            BY <2>0, <3>1, <3>2 DEF Inserted, Ledger, Remembered, StoreInv, TypeOK
        <3>4. ASSUME NEW k \in Ids, status'[k] = "queued", NEW d \in Ids, NEW m \in Modes
              PROVE  <<k, d, m>> \in wanted' <=> <<k, d, m>> \in deps'
            <4>1. CASE k = nextId
                BY <3>1, <3>2, <4>1
            <4>2. CASE k # nextId
                <5>1. status[k] = "queued"
                    BY <2>0, <3>4, <4>2 DEF Inserted, StoreInv, TypeOK
                <5> QED BY <3>1, <4>2, <5>1 DEF Ledger, Remembered
            <4> QED BY <4>1, <4>2
        <3> QED BY <3>3, <3>4 DEF Remembered
    <2>3. OneThing'
        BY <2>0, <1>1 DEF Add, DepRows, Given, Inserted, OneThing, Recorded, Ledger, StoreInv, TypeOK
    <2>4. RanAsAsked'
        BY <2>0, <1>1 DEF Add, DepRows, Given, Inserted, RanAsAsked, Recorded, Remembered, Ledger,
           StoreInv, TypeOK
    <2>5. SkipsDeserved'
        BY <2>0, <1>1 DEF Add, DepRows, Given, Inserted, SkipsDeserved, Recorded, Remembered, OneThing,
           DependenciesKept, Ledger, StoreInv, TypeOK
    <2> QED BY <2>1, <2>2, <2>3, <2>4, <2>5 DEF Ledger
<1>2. ASSUME NEW c \in Channels, NEW r \in 0..MaxRetries, NEW f \in OnFail, AddNow(c, r, f)
     PROVE  Ledger'
    <2>0. Inserted(c, TRUE, r, 0, f, None)
        BY <1>2, InsertedAs DEF AddNow
    <2>1. Recorded'
        BY <2>0, <1>2 DEF AddNow, Inserted, Recorded, Ledger, StoreInv, TypeOK
    <2>2. Remembered'
        BY <2>0, <1>2 DEF AddNow, Inserted, Remembered, Recorded, Ledger, StoreInv, TypeOK, RowsNamed
    <2>3. OneThing'
        BY <2>0, <1>2 DEF AddNow, Inserted, OneThing, Recorded, Ledger, StoreInv, TypeOK
    <2>4. RanAsAsked'
        BY <2>0, <1>2 DEF AddNow, Inserted, RanAsAsked, Recorded, Remembered, Ledger, StoreInv, TypeOK
    <2>5. SkipsDeserved'
        BY <2>0, <1>2 DEF AddNow, Inserted, SkipsDeserved, Recorded, Remembered, OneThing,
           DependenciesKept, Ledger, StoreInv, TypeOK
    <2> QED BY <2>1, <2>2, <2>3, <2>4, <2>5 DEF Ledger
<1>3. ASSUME NEW j \in Ids, Requeue(j)
     PROVE  Ledger'
    <2>0. Inserted(chan[j], FALSE, retries[j], 0, pauses[j], j)
        BY <1>3, InsertedAs DEF Requeue
    <2>1. Recorded'
        BY <2>0, <1>3 DEF Requeue, Inserted, Recorded, Ledger, StoreInv, TypeOK
    <2>2. Remembered'
        BY <2>0, <1>3 DEF Requeue, Inserted, Remembered, Recorded, Ledger, StoreInv, TypeOK, RowsNamed
    <2>3. OneThing'
        BY <2>0, <1>3 DEF Requeue, Inserted, OneThing, Recorded, Ledger, StoreInv, TypeOK
    <2>4. RanAsAsked'
        BY <2>0, <1>3 DEF Requeue, Inserted, RanAsAsked, Recorded, Remembered, Ledger, StoreInv, TypeOK
    <2>5. SkipsDeserved'
        BY <2>0, <1>3 DEF Requeue, Inserted, SkipsDeserved, Recorded, Remembered, OneThing,
           DependenciesKept, Ledger, StoreInv, TypeOK
    <2> QED BY <2>1, <2>2, <2>3, <2>4, <2>5 DEF Ledger
<1>4. ASSUME NEW j \in Ids, NEW c \in Channels, NEW M \in Given, NEW n \in 0..MaxRetries,
             NEW f \in OnFail, Edit(j, c, M, n, f)
     PROVE  Ledger'
    <2>1. Recorded'
        BY <1>4 DEF Edit, DepRows, Given, Recorded, Ledger, StoreInv, TypeOK
    <2>2. Remembered'
        <3>1. PICK N : /\ deps' = {w \in deps : w[1] # j} \cup N
                       /\ wanted' = {w \in wanted : w[1] # j} \cup N
                       /\ deps' = deps \/ checking' = j
                       /\ \A q \in N : q[1] = j /\ q[2] \in Ids /\ status[q[2]] # "none"
            <4>1. /\ deps' = {w \in deps : w[1] # j} \cup DepRows(j, M)
                  /\ wanted' = {w \in wanted : w[1] # j} \cup DepRows(j, M)
                  /\ deps' = deps \/ checking' = j
                BY <1>4 DEF Edit
            <4>2. \A q \in DepRows(j, M) : q[1] = j /\ q[2] \in Rows
                BY <1>4 DEF Edit, DepRows
            <4> QED BY <4>1, <4>2 DEF Rows
        <3>2. \A r \in wanted' : status'[r[1]] # "none" /\ status'[r[2]] # "none" /\ ~prio'[r[1]]
            BY <1>4, <3>1 DEF Edit, Ledger, Remembered
        <3>3. ASSUME NEW k \in Ids, status'[k] = "queued", NEW d \in Ids, NEW m \in Modes
              PROVE  <<k, d, m>> \in wanted' <=> <<k, d, m>> \in deps'
            <4>1. status[k] = "queued"
                BY <1>4, <3>3 DEF Edit
            <4> QED BY <3>1, <4>1 DEF Ledger, Remembered
        <3> QED BY <3>2, <3>3 DEF Remembered
    <2>3. OneThing'
        BY <1>4 DEF Edit, DepRows, Given, OneThing, Recorded, Ledger, StoreInv, TypeOK
    <2>4. RanAsAsked'
        BY <1>4 DEF Edit, DepRows, Given, RanAsAsked, Recorded, Remembered, Ledger, StoreInv, TypeOK
    <2>5. SkipsDeserved'
        BY <1>4 DEF Edit, DepRows, Given, SkipsDeserved, Recorded, Remembered, OneThing,
           DependenciesKept, Ledger, StoreInv, TypeOK
    <2> QED BY <2>1, <2>2, <2>3, <2>4, <2>5 DEF Ledger
<1>5. ASSUME NEW j \in Ids, CancelQueued(j)
     PROVE  Ledger'
    <2>0. Ended(j, "cancelled") /\ j \in Ids
        BY <1>5, EndedAs DEF StoreInv, RowsNamed, CancelQueued
    <2>1. EndsRightly(j, "cancelled")
        BY <2>0, <1>5, BlockedNeeds, ConstantsOK DEF EndsRightly, CancelQueued, Ledger, OneThing,
           Recorded
    <2>2. OneThing'
        BY <2>0, <1>5 DEF CancelQueued, Ended, OneThing, Recorded, Ledger, StoreInv, TypeOK
    <2> QED BY <2>0, <2>1, <2>2, EndedLedger DEF Ledger
<1>6. ASSUME NEW j \in Ids, Rm(j)
     PROVE  Ledger'
    <2>1. Recorded'
        BY <1>6 DEF Rm, Dependants, DepsOf, Recorded, Ledger, StoreInv, TypeOK
    <2>2. Remembered'
        BY <1>6 DEF Rm, Dependants, DepsOf, Remembered, Recorded, Ledger, StoreInv, TypeOK, RowsNamed
    <2>3. OneThing'
        BY <1>6 DEF Rm, Dependants, DepsOf, OneThing, Recorded, Ledger, StoreInv, TypeOK
    <2>4. RanAsAsked'
        BY <1>6 DEF Rm, Dependants, DepsOf, RanAsAsked, Recorded, Remembered, Ledger, StoreInv, TypeOK
    <2>5. SkipsDeserved'
        BY <1>6 DEF Rm, Dependants, DepsOf, SkipsDeserved, Recorded, Remembered, OneThing,
           DependenciesKept, Ledger, StoreInv, TypeOK
    <2> QED BY <2>1, <2>2, <2>3, <2>4, <2>5 DEF Ledger
<1>7. ASSUME NEW C \in SUBSET Channels, Clear(C)
     PROVE  Ledger'
    <2>1. Recorded'
        BY <1>7 DEF Clear, Unneeded, KeptDeps, Recorded, Ledger, StoreInv, TypeOK
    <2>2. Remembered'
        BY <1>7 DEF Clear, Unneeded, KeptDeps, Remembered, Recorded, Ledger, StoreInv, TypeOK, RowsNamed
    <2>3. OneThing'
        BY <1>7 DEF Clear, Unneeded, KeptDeps, OneThing, Recorded, Ledger, StoreInv, TypeOK
    <2>4. RanAsAsked'
        BY <1>7 DEF Clear, Unneeded, KeptDeps, RanAsAsked, Recorded, Remembered, Ledger, StoreInv, TypeOK
    <2>5. SkipsDeserved'
        BY <1>7 DEF Clear, Unneeded, KeptDeps, SkipsDeserved, Recorded, Remembered, OneThing,
           DependenciesKept, Ledger, StoreInv, TypeOK
    <2> QED BY <2>1, <2>2, <2>3, <2>4, <2>5 DEF Ledger
<1>8. ASSUME NEW c \in Channels, Pause(c)
     PROVE  Ledger'
    <2>1. Recorded'
        BY <1>8 DEF Pause, Recorded, Ledger, StoreInv, TypeOK
    <2>2. Remembered'
        BY <1>8 DEF Pause, Remembered, Recorded, Ledger, StoreInv, TypeOK, RowsNamed
    <2>3. OneThing'
        BY <1>8 DEF Pause, OneThing, Recorded, Ledger, StoreInv, TypeOK
    <2>4. RanAsAsked'
        BY <1>8 DEF Pause, RanAsAsked, Recorded, Remembered, Ledger, StoreInv, TypeOK
    <2>5. SkipsDeserved'
        BY <1>8 DEF Pause, SkipsDeserved, Recorded, Remembered, OneThing, DependenciesKept, Ledger,
           StoreInv, TypeOK
    <2> QED BY <2>1, <2>2, <2>3, <2>4, <2>5 DEF Ledger
<1>9. ASSUME NEW c \in Channels, Resume(c)
     PROVE  Ledger'
    <2>1. Recorded'
        BY <1>9 DEF Resume, Recorded, Ledger, StoreInv, TypeOK
    <2>2. Remembered'
        BY <1>9 DEF Resume, Remembered, Recorded, Ledger, StoreInv, TypeOK, RowsNamed
    <2>3. OneThing'
        BY <1>9 DEF Resume, OneThing, Recorded, Ledger, StoreInv, TypeOK
    <2>4. RanAsAsked'
        BY <1>9 DEF Resume, RanAsAsked, Recorded, Remembered, Ledger, StoreInv, TypeOK
    <2>5. SkipsDeserved'
        BY <1>9 DEF Resume, SkipsDeserved, Recorded, Remembered, OneThing, DependenciesKept, Ledger,
           StoreInv, TypeOK
    <2> QED BY <2>1, <2>2, <2>3, <2>4, <2>5 DEF Ledger
<1>10. ASSUME NEW j \in Ids, Start(j)
      PROVE  Ledger'
    <2>1. Recorded'
        BY <1>10 DEF Start, Turn, IsHead, Ready, Run, Recorded, Ledger, StoreInv, TypeOK
    <2>2. Remembered'
        BY <1>10 DEF Start, Turn, IsHead, Ready, Run, Remembered, Recorded, Ledger, StoreInv, TypeOK,
           RowsNamed
    <2>3. OneThing'
        BY <1>10 DEF Start, Turn, IsHead, Ready, Run, OneThing, Recorded, Ledger, StoreInv, TypeOK
    <2>4. RanAsAsked'
        <3>1. /\ status[j] = "queued" /\ Ready(j) /\ wanted' = wanted /\ outcome' = outcome
              /\ \A k \in Ids \ {j} : status'[k] = status[k]
            BY <1>10 DEF Start, Turn, IsHead, Run, StoreInv, TypeOK
        <3>2. ASSUME NEW r \in wanted, r[1] = j
              PROVE  outcome[r[2]] \in IF r[3] = "success" THEN {"done"} ELSE Terminal
            <4>1. r[2] \in Ids /\ r[3] \in Modes /\ r = <<j, r[2], r[3]>>
                BY <3>2 DEF StoreInv, TypeOK
            <4>2. <<j, r[2], r[3]>> \in deps
                BY <3>1, <4>1 DEF Ledger, Remembered
            <4>3. status[r[2]] = "done" \/ (r[3] = "any" /\ status[r[2]] \in Terminal)
                BY <3>1, <4>1, <4>2 DEF Ready
            <4> QED BY <4>1, <4>3 DEF Ledger, Recorded
        <3>3. ASSUME NEW r \in wanted, r[1] # j, status'[r[1]] = "running" \/ outcome[r[1]] \in {"done", "failed"}
              PROVE  outcome[r[2]] \in IF r[3] = "success" THEN {"done"} ELSE Terminal
            <4>1. r[1] \in Ids
                BY DEF StoreInv, TypeOK
            <4> QED BY <3>1, <3>3, <4>1 DEF Ledger, RanAsAsked
        <3> QED BY <3>1, <3>2, <3>3 DEF RanAsAsked
    <2>5. SkipsDeserved'
        BY <1>10 DEF Start, Turn, IsHead, Ready, Run, SkipsDeserved, Recorded, Remembered, OneThing,
           DependenciesKept, Ledger, StoreInv, TypeOK
    <2> QED BY <2>1, <2>2, <2>3, <2>4, <2>5 DEF Ledger
<1>11. ASSUME NEW j \in Ids, StartNow(j)
      PROVE  Ledger'
    <2>1. Recorded'
        BY <1>11 DEF StartNow, IsHead, Run, Recorded, Ledger, StoreInv, TypeOK
    <2>2. Remembered'
        BY <1>11 DEF StartNow, IsHead, Run, Remembered, Recorded, Ledger, StoreInv, TypeOK, RowsNamed
    <2>3. OneThing'
        BY <1>11 DEF StartNow, IsHead, Run, OneThing, Recorded, Ledger, StoreInv, TypeOK
    <2>4. RanAsAsked'
        BY <1>11 DEF StartNow, IsHead, Run, RanAsAsked, Recorded, Remembered, Ledger, StoreInv, TypeOK
    <2>5. SkipsDeserved'
        BY <1>11 DEF StartNow, IsHead, Run, SkipsDeserved, Recorded, Remembered, OneThing,
           DependenciesKept, Ledger, StoreInv, TypeOK
    <2> QED BY <2>1, <2>2, <2>3, <2>4, <2>5 DEF Ledger
<1>12. ASSUME NEW j \in Ids, SkipHead(j)
      PROVE  Ledger'
    <2>0. Ended(j, "skipped") /\ j \in Ids
        BY <1>12, EndedAs DEF StoreInv, RowsNamed, SkipHead, SkipBlocked, Turn, IsHead, Blocked
    <2>1. EndsRightly(j, "skipped")
        BY <2>0, <1>12, BlockedNeeds, ConstantsOK DEF EndsRightly, SkipHead, SkipBlocked, Turn, IsHead,
           Blocked, Ledger, OneThing, Recorded
    <2>2. OneThing'
        BY <2>0, <1>12 DEF SkipHead, SkipBlocked, Turn, IsHead, Blocked, Ended, OneThing, Recorded,
           Ledger, StoreInv, TypeOK
    <2> QED BY <2>0, <2>1, <2>2, EndedLedger DEF Ledger
<1>13. ASSUME NEW j \in Ids, NEW st \in Outcomes, Finish(j, st)
      PROVE  Ledger'
    <2>0. Ended(j, st) /\ j \in Ids
        BY <1>13, EndedAs DEF StoreInv, ConstantsOK, RowsNamed, Finish
    <2>1. EndsRightly(j, st)
        BY <2>0, <1>13, BlockedNeeds, ConstantsOK DEF EndsRightly, Finish, Ledger, OneThing, Recorded
    <2>2. OneThing'
        BY <2>0, <1>13 DEF Finish, Ended, OneThing, Recorded, Ledger, StoreInv, TypeOK
    <2> QED BY <2>0, <2>1, <2>2, EndedLedger DEF Ledger
<1>14. ASSUME Check, Blocked(checking)
      PROVE  Ledger'
    <2>0. Ended(checking, "skipped") /\ checking \in Ids
        BY <1>14, EndedAs DEF StoreInv, StoreInv, TypeOK, RowsNamed, Check, SkipBlocked, Blocked
    <2>1. EndsRightly(checking, "skipped")
        BY <2>0, <1>14, BlockedNeeds, ConstantsOK DEF EndsRightly, Check, SkipBlocked, Blocked, Ledger,
           OneThing, Recorded
    <2>2. OneThing'
        BY <2>0, <1>14 DEF Check, SkipBlocked, Blocked, Ended, OneThing, Recorded, Ledger, StoreInv,
           TypeOK
    <2> QED BY <2>0, <2>1, <2>2, EndedLedger DEF Ledger
<1>15. ASSUME Check, ~Blocked(checking)
      PROVE  Ledger'
    <2>1. Recorded'
        BY <1>15 DEF Check, Blocked, Recorded, Ledger, StoreInv, TypeOK
    <2>2. Remembered'
        BY <1>15 DEF Check, Blocked, Remembered, Recorded, Ledger, StoreInv, TypeOK, RowsNamed
    <2>3. OneThing'
        BY <1>15 DEF Check, Blocked, OneThing, Recorded, Ledger, StoreInv, TypeOK
    <2>4. RanAsAsked'
        BY <1>15 DEF Check, Blocked, RanAsAsked, Recorded, Remembered, Ledger, StoreInv, TypeOK
    <2>5. SkipsDeserved'
        BY <1>15 DEF Check, Blocked, SkipsDeserved, Recorded, Remembered, OneThing, DependenciesKept,
           Ledger, StoreInv, TypeOK
    <2> QED BY <2>1, <2>2, <2>3, <2>4, <2>5 DEF Ledger
<1>16. ASSUME AfterFinish, AutoRetry(finishing)
      PROVE  Ledger'
    <2>0. Inserted(chan[finishing], FALSE, retries[finishing], attempt[finishing] + 1, pauses[finishing], finishing)
        BY <1>16, InsertedAs DEF AfterFinish, AutoRetry
    <2>1. Recorded'
        BY <2>0, <1>16 DEF AfterFinish, AutoRetry, Inserted, Recorded, Ledger, StoreInv, TypeOK
    <2>2. Remembered'
        BY <2>0, <1>16 DEF AfterFinish, AutoRetry, Inserted, Remembered, Recorded, Ledger, StoreInv,
           TypeOK, RowsNamed
    <2>3. OneThing'
        BY <2>0, <1>16 DEF AfterFinish, AutoRetry, Inserted, OneThing, Recorded, Ledger, StoreInv, TypeOK
    <2>4. RanAsAsked'
        BY <2>0, <1>16 DEF AfterFinish, AutoRetry, Inserted, RanAsAsked, Recorded, Remembered, Ledger,
           StoreInv, TypeOK
    <2>5. SkipsDeserved'
        BY <2>0, <1>16 DEF AfterFinish, AutoRetry, Inserted, SkipsDeserved, Recorded, Remembered,
           OneThing, DependenciesKept, Ledger, StoreInv, TypeOK
    <2> QED BY <2>1, <2>2, <2>3, <2>4, <2>5 DEF Ledger
<1>17. ASSUME AfterFinish, ~AutoRetry(finishing)
      PROVE  Ledger'
    <2>1. Recorded'
        BY <1>17 DEF AfterFinish, AutoRetry, PauseAsked, Recorded, Ledger, StoreInv, TypeOK
    <2>2. Remembered'
        <3>1. UNCHANGED <<status, columns, deps, wanted>>
            BY <1>17 DEF AfterFinish
        <3> QED BY <3>1 DEF Ledger, Remembered
    <2>3. OneThing'
        BY <1>17 DEF AfterFinish, AutoRetry, PauseAsked, OneThing, Recorded, Ledger, StoreInv, TypeOK
    <2>4. RanAsAsked'
        <3>1. UNCHANGED <<status, outcome, wanted>>
            BY <1>17 DEF AfterFinish
        <3> QED BY <3>1 DEF Ledger, RanAsAsked
    <2>5. SkipsDeserved'
        BY <1>17 DEF AfterFinish, AutoRetry, PauseAsked, SkipsDeserved, Recorded, Remembered, OneThing,
           DependenciesKept, Ledger, StoreInv, TypeOK
    <2> QED BY <2>1, <2>2, <2>3, <2>4, <2>5 DEF Ledger
<1>18. ASSUME NEW d \in Ids, Settled(d)
      PROVE  Ledger'
    <2>1. Recorded'
        BY <1>18 DEF Settled, Doomed, Recorded, Ledger, StoreInv, TypeOK
    <2>2. Remembered'
        BY <1>18 DEF Settled, Doomed, Remembered, Recorded, Ledger, StoreInv, TypeOK, RowsNamed
    <2>3. OneThing'
        BY <1>18 DEF Settled, Doomed, OneThing, Recorded, Ledger, StoreInv, TypeOK
    <2>4. RanAsAsked'
        BY <1>18 DEF Settled, Doomed, RanAsAsked, Recorded, Remembered, Ledger, StoreInv, TypeOK
    <2>5. SkipsDeserved'
        BY <1>18 DEF Settled, Doomed, SkipsDeserved, Recorded, Remembered, OneThing, DependenciesKept,
           Ledger, StoreInv, TypeOK
    <2> QED BY <2>1, <2>2, <2>3, <2>4, <2>5 DEF Ledger
<1>19. ASSUME NEW j \in Ids, Recover(j)
      PROVE  Ledger'
    <2>0. Ended(j, "interrupted") /\ j \in Ids
        BY <1>19, EndedAs DEF StoreInv, RowsNamed, Recover
    <2>1. EndsRightly(j, "interrupted")
        BY <2>0, <1>19, BlockedNeeds, ConstantsOK DEF EndsRightly, Recover, Ledger, OneThing, Recorded
    <2>2. OneThing'
        BY <2>0, <1>19 DEF Recover, Ended, OneThing, Recorded, Ledger, StoreInv, TypeOK
    <2> QED BY <2>0, <2>1, <2>2, EndedLedger DEF Ledger
<1>20. ASSUME NEW d \in Ids, NEW w \in Ids, SkipDependant(d, w)
      PROVE  Ledger'
    <2>0. Ended(w, "skipped") /\ w \in Ids
        BY <1>20, EndedAs DEF StoreInv, RowsNamed, SkipDependant, Doomed
    <2>1. EndsRightly(w, "skipped")
        BY <2>0, <1>20, BlockedNeeds, ConstantsOK DEF EndsRightly, SkipDependant, Doomed, Ledger,
           OneThing, Recorded
    <2>2. OneThing'
        BY <2>0, <1>20 DEF SkipDependant, Doomed, Ended, OneThing, Recorded, Ledger, StoreInv, TypeOK
    <2> QED BY <2>0, <2>1, <2>2, EndedLedger DEF Ledger
<1>21. ASSUME Crash
      PROVE  Ledger'
    <2>1. Recorded'
        BY <1>21 DEF Crash, Dies, Recorded, Ledger, StoreInv, TypeOK
    <2>2. Remembered'
        BY <1>21 DEF Crash, Dies, Remembered, Recorded, Ledger, StoreInv, TypeOK, RowsNamed
    <2>3. OneThing'
        BY <1>21 DEF Crash, Dies, OneThing, Recorded, Ledger, StoreInv, TypeOK
    <2>4. RanAsAsked'
        BY <1>21 DEF Crash, Dies, RanAsAsked, Recorded, Remembered, Ledger, StoreInv, TypeOK
    <2>5. SkipsDeserved'
        BY <1>21 DEF Crash, Dies, SkipsDeserved, Recorded, Remembered, OneThing, DependenciesKept, Ledger,
           StoreInv, TypeOK
    <2> QED BY <2>1, <2>2, <2>3, <2>4, <2>5 DEF Ledger
<1>26. ASSUME NEW j \in Ids, CutOff(j)
      PROVE  Ledger'
    <2>1. /\ UNCHANGED <<status, chan, prio, deps, outcome, wanted>>
          /\ stale' = {k \in Ids : status[k] = "running"}
          /\ checking' = None /\ finishing' = None /\ todo' = {} /\ crashes' > 0
        BY <1>26 DEF CutOff, Dies, StoreInv, TypeOK
    <2>2. Recorded' /\ Remembered' /\ OneThing' /\ RanAsAsked' /\ SkipsDeserved'
        BY <2>1 DEF Recorded, Remembered, OneThing, RanAsAsked, SkipsDeserved, Ledger
    <2> QED BY <2>2 DEF Ledger
<1>27. ASSUME NEW j \in Ids, NEW st \in Terminal, EndUnpruned(j, st)
      PROVE  Ledger'
    <2>0. Ended(j, st)
        BY <1>27, RowEndedAs DEF EndUnpruned, RowEnds, StoreInv
    <2>1. EndsRightly(j, st)
        <3>1. CASE EndingQueued(j, st)
            <4>1. st \in {"cancelled", "skipped"} /\ status[j] = "queued"
                BY <3>1 DEF EndingQueued
            <4>2. st = "skipped" => \E d \in Ids : /\ <<j, d, "success">> \in deps
                                                 /\ status[d] \in Terminal \ {"done"}
                BY <3>1, <4>1, BlockedNeeds DEF EndingQueued, Doomed, StoreInv, TypeOK
            <4> QED BY <4>1, <4>2, <1>27 DEF EndsRightly, EndUnpruned, Dies
        <3>2. CASE status[j] = "running" /\ st \in Outcomes
            BY <3>2, <1>27, ConstantsOK DEF EndsRightly, EndUnpruned, Dies, ConstantsOK
        <3>3. CASE j \in stale /\ st = "interrupted"
            BY <3>3, <1>27 DEF EndsRightly, EndUnpruned, Dies, Ledger, Recorded
        <3> QED BY <3>1, <3>2, <3>3, <1>27 DEF EndUnpruned
    <2>2. OneThing'
        BY <1>27 DEF EndUnpruned, Dies, OneThing, StoreInv, TypeOK
    <2> QED BY <2>0, <2>1, <2>2, EndedLedger DEF Ledger
<1>22. ASSUME UNCHANGED vars
      PROVE  Ledger'
    <2>1. Recorded'
        BY <1>22 DEF vars, Recorded, Ledger, StoreInv, TypeOK
    <2>2. Remembered'
        BY <1>22 DEF vars, Remembered, Recorded, Ledger, StoreInv, TypeOK, RowsNamed
    <2>3. OneThing'
        BY <1>22 DEF vars, OneThing, Recorded, Ledger, StoreInv, TypeOK
    <2>4. RanAsAsked'
        BY <1>22 DEF vars, RanAsAsked, Recorded, Remembered, Ledger, StoreInv, TypeOK
    <2>5. SkipsDeserved'
        BY <1>22 DEF vars, SkipsDeserved, Recorded, Remembered, OneThing, DependenciesKept, Ledger,
           StoreInv, TypeOK
    <2> QED BY <2>1, <2>2, <2>3, <2>4, <2>5 DEF Ledger
<1>23. ASSUME NEW C \in {Channels} \cup {{c} : c \in Channels}, Clear(C) PROVE Ledger'
    <2>1. C \in SUBSET Channels
        OBVIOUS
    <2> QED BY <1>23, <2>1, <1>7
<1>24. ASSUME Request PROVE Ledger'
    <2>1. ASSUME NEW c \in Channels, NEW M \in Given, NEW r \in 0..MaxRetries, NEW f \in OnFail,
                 \/ Add(c, "end", None, M, r, f)
                 \/ \E place \in {"before", "after"}, t \in Queued : Add(c, place, t, M, r, f)
          PROVE  Ledger'
        BY <2>1, <1>1
    <2> QED BY <2>1, <1>24, <1>2, <1>3, <1>4, <1>5, <1>6, <1>8, <1>9, <1>23 DEF Request
<1>25. ASSUME Bookkeeping PROVE Ledger'
    BY <1>25, <1>14, <1>15, <1>16, <1>17, <1>18, <1>19, <1>20 DEF Bookkeeping
<1> QED BY <1>24, <1>25, <1>10, <1>11, <1>12, <1>13, <1>21, <1>22, <1>26, <1>27 DEF Next

(* Whoever ends unsuccessfully is put on the todo list, and stays there until *)
(* nobody queued needs it any more.                                           *)
LEMMA ToldStep ==
    ASSUME ConstantsOK, StoreInv, Ledger, Told, [Next]_vars
    PROVE  Told'
<1> USE DEF Idle, Queued, columns, flags, progress, observers, None, Terminal, Unfinished
<1>1. ASSUME NEW c \in Channels, NEW place \in {"end", "before", "after"}, NEW t, NEW M \in Given,
             NEW n \in 0..MaxRetries, NEW f \in OnFail, Add(c, place, t, M, n, f)
     PROVE  Told'
    <2>0. Inserted(c, FALSE, n, 0, f, None)
        BY <1>1, InsertedAs DEF Add, DepRows, Given
    <2>1. Told'
        <3>1. PICK N : /\ deps' = deps \cup N /\ wanted' = wanted \cup N
                       /\ N # {} => checking' = nextId
                       /\ \A q \in N : q[1] = nextId /\ q[2] \in Ids /\ status[q[2]] # "none"
            <4>1. /\ deps' = deps \cup DepRows(nextId, M) /\ wanted' = wanted \cup DepRows(nextId, M)
                  /\ DepRows(nextId, M) # {} => checking' = nextId
                BY <1>1 DEF Add, DepRows
            <4>2. \A q \in DepRows(nextId, M) : q[1] = nextId /\ q[2] \in Rows
                BY <1>1 DEF Add, DepRows
            <4> QED BY <4>1, <4>2 DEF Rows
        <3>2. \A r \in deps : r[1] # nextId /\ r[1] \in Ids /\ r[2] \in Ids /\ r[2] # nextId
            BY <2>0 DEF Inserted, StoreInv, RowsNamed, TypeOK
        <3>3. checking = None /\ todo = {} /\ crashes' = crashes
            BY <1>1 DEF Add
        <3>4. \A k \in Ids : k # nextId => status'[k] = status[k]
            BY <2>0 DEF Inserted
        <3>5. ASSUME NEW r \in deps, crashes = 0
              PROVE  ~(status'[r[1]] = "queued" /\ r[3] = "success" /\ status'[r[2]] \in Terminal \ {"done"})
            <4>1. r[1] # None
                BY <3>2, NoneIsNoId
            <4> QED BY <3>2, <3>3, <3>4, <3>5, <4>1 DEF Told
        <3>6. \A r \in N : r[1] = checking'
            BY <3>1
        <3> QED BY <3>1, <3>3, <3>5, <3>6 DEF Told
    <2> QED BY <2>1
<1>2. ASSUME NEW c \in Channels, NEW r \in 0..MaxRetries, NEW f \in OnFail, AddNow(c, r, f)
     PROVE  Told'
    <2>0. Inserted(c, TRUE, r, 0, f, None)
        BY <1>2, InsertedAs DEF AddNow
    <2>1. Told'
        BY <2>0, <1>2 DEF AddNow, Inserted, Told, Recorded, OneThing, Ledger, StoreInv, TypeOK, RowsNamed
    <2> QED BY <2>1
<1>3. ASSUME NEW j \in Ids, Requeue(j)
     PROVE  Told'
    <2>0. Inserted(chan[j], FALSE, retries[j], 0, pauses[j], j)
        BY <1>3, InsertedAs DEF Requeue
    <2>1. Told'
        BY <2>0, <1>3 DEF Requeue, Inserted, Told, Recorded, OneThing, Ledger, StoreInv, TypeOK,
           RowsNamed
    <2> QED BY <2>1
<1>4. ASSUME NEW j \in Ids, NEW c \in Channels, NEW M \in Given, NEW n \in 0..MaxRetries,
             NEW f \in OnFail, Edit(j, c, M, n, f)
     PROVE  Told'
    <2>1. Told'
        <3>1. PICK N : /\ deps' = {w \in deps : w[1] # j} \cup N
                       /\ wanted' = {w \in wanted : w[1] # j} \cup N
                       /\ deps' = deps \/ checking' = j
                       /\ \A q \in N : q[1] = j /\ q[2] \in Ids /\ status[q[2]] # "none"
            <4>1. /\ deps' = {w \in deps : w[1] # j} \cup DepRows(j, M)
                  /\ wanted' = {w \in wanted : w[1] # j} \cup DepRows(j, M)
                  /\ deps' = deps \/ checking' = j
                BY <1>4 DEF Edit
            <4>2. \A q \in DepRows(j, M) : q[1] = j /\ q[2] \in Rows
                BY <1>4 DEF Edit, DepRows
            <4> QED BY <4>1, <4>2 DEF Rows
        <3>2. checking = None /\ todo = {} /\ todo' = todo /\ crashes' = crashes /\ status' = status
            BY <1>4 DEF Edit
        <3>3. ASSUME NEW r \in deps, crashes = 0
              PROVE  ~(status[r[1]] = "queued" /\ r[3] = "success" /\ status[r[2]] \in Terminal \ {"done"})
            <4>1. r[1] # None
                BY NoneIsNoId DEF StoreInv, TypeOK
            <4> QED BY <3>2, <3>3, <4>1 DEF Told
        <3>4. \A r \in deps' : r \in deps \/ r[1] = checking'
            BY <3>1
        <3> QED BY <3>2, <3>3, <3>4 DEF Told
    <2> QED BY <2>1
<1>5. ASSUME NEW j \in Ids, CancelQueued(j)
     PROVE  Told'
    <2>0. Ended(j, "cancelled") /\ j \in Ids
        BY <1>5, EndedAs DEF StoreInv, RowsNamed, CancelQueued
    <2>1. /\ status[j] \in Unfinished /\ j \in todo' /\ todo \subseteq todo'
          /\ checking' = checking \/ checking = j
          /\ crashes' = crashes
        BY <1>5, ConstantsOK DEF CancelQueued, Ledger, OneThing, Recorded
    <2> QED BY <2>0, <2>1, EndedTold
<1>6. ASSUME NEW j \in Ids, Rm(j)
     PROVE  Told'
    <2>1. Told'
        BY <1>6 DEF Rm, Dependants, DepsOf, Told, Recorded, OneThing, Ledger, StoreInv, TypeOK, RowsNamed
    <2> QED BY <2>1
<1>7. ASSUME NEW C \in SUBSET Channels, Clear(C)
     PROVE  Told'
    <2>1. Told'
        BY <1>7 DEF Clear, Unneeded, KeptDeps, Told, Recorded, OneThing, Ledger, StoreInv, TypeOK,
           RowsNamed
    <2> QED BY <2>1
<1>8. ASSUME NEW c \in Channels, Pause(c)
     PROVE  Told'
    <2>1. Told'
        BY <1>8 DEF Pause, Told, Recorded, OneThing, Ledger, StoreInv, TypeOK, RowsNamed
    <2> QED BY <2>1
<1>9. ASSUME NEW c \in Channels, Resume(c)
     PROVE  Told'
    <2>1. Told'
        BY <1>9 DEF Resume, Told, Recorded, OneThing, Ledger, StoreInv, TypeOK, RowsNamed
    <2> QED BY <2>1
<1>10. ASSUME NEW j \in Ids, Start(j)
      PROVE  Told'
    <2>1. Told'
        BY <1>10 DEF Start, Turn, IsHead, Ready, Run, Told, Recorded, OneThing, Ledger, StoreInv,
           TypeOK, RowsNamed
    <2> QED BY <2>1
<1>11. ASSUME NEW j \in Ids, StartNow(j)
      PROVE  Told'
    <2>1. Told'
        BY <1>11 DEF StartNow, IsHead, Run, Told, Recorded, OneThing, Ledger, StoreInv, TypeOK, RowsNamed
    <2> QED BY <2>1
<1>12. ASSUME NEW j \in Ids, SkipHead(j)
      PROVE  Told'
    <2>0. Ended(j, "skipped") /\ j \in Ids
        BY <1>12, EndedAs DEF StoreInv, RowsNamed, SkipHead, SkipBlocked, Turn, IsHead, Blocked
    <2>1. /\ status[j] \in Unfinished /\ j \in todo' /\ todo \subseteq todo'
          /\ checking' = checking \/ checking = j
          /\ crashes' = crashes
        BY <1>12, ConstantsOK DEF SkipHead, SkipBlocked, Turn, IsHead, Blocked, Ledger, OneThing,
           Recorded
    <2> QED BY <2>0, <2>1, EndedTold
<1>13. ASSUME NEW j \in Ids, NEW st \in Outcomes, Finish(j, st)
      PROVE  Told'
    <2>0. Ended(j, st) /\ j \in Ids
        BY <1>13, EndedAs DEF StoreInv, ConstantsOK, RowsNamed, Finish
    <2>1. /\ status[j] \in Unfinished /\ j \in todo' /\ todo \subseteq todo'
          /\ checking' = checking \/ checking = j
          /\ crashes' = crashes
        BY <1>13, ConstantsOK DEF Finish, Ledger, OneThing, Recorded
    <2> QED BY <2>0, <2>1, EndedTold
<1>14. ASSUME Check, Blocked(checking)
      PROVE  Told'
    <2>0. Ended(checking, "skipped") /\ checking \in Ids
        BY <1>14, EndedAs DEF StoreInv, StoreInv, TypeOK, RowsNamed, Check, SkipBlocked, Blocked
    <2>1. /\ status[checking] \in Unfinished /\ checking \in todo' /\ todo \subseteq todo'
          /\ checking' = checking \/ checking = checking
          /\ crashes' = crashes
        BY <1>14, ConstantsOK DEF Check, SkipBlocked, Blocked, Ledger, OneThing, Recorded
    <2> QED BY <2>0, <2>1, EndedTold
<1>15. ASSUME Check, ~Blocked(checking)
      PROVE  Told'
    <2>1. Told'
        <3>1. UNCHANGED <<status, deps, todo, crashes>> /\ ~Blocked(checking)
            BY <1>15 DEF Check
        <3>2. ASSUME NEW r \in deps, r[3] = "success", status[r[2]] \in Terminal \ {"done"}
              PROVE  r[1] # checking
            <4>1. r[2] \in Ids /\ r[3] \in Modes /\ r = <<r[1], r[2], r[3]>>
                BY DEF StoreInv, TypeOK
            <4> QED BY <3>1, <3>2, <4>1 DEF Blocked
        <3> QED BY <3>1, <3>2 DEF Told
    <2> QED BY <2>1
<1>16. ASSUME AfterFinish, AutoRetry(finishing)
      PROVE  Told'
    <2>0. Inserted(chan[finishing], FALSE, retries[finishing], attempt[finishing] + 1, pauses[finishing], finishing)
        BY <1>16, InsertedAs DEF AfterFinish, AutoRetry
    <2>1. Told'
        BY <2>0, <1>16 DEF AfterFinish, AutoRetry, Inserted, Told, Recorded, OneThing, Ledger,
           StoreInv, TypeOK, RowsNamed
    <2> QED BY <2>1
<1>17. ASSUME AfterFinish, ~AutoRetry(finishing)
      PROVE  Told'
    <2>1. Told'
        BY <1>17 DEF AfterFinish, AutoRetry, PauseAsked, Told, Recorded, OneThing, Ledger, StoreInv,
           TypeOK, RowsNamed
    <2> QED BY <2>1
<1>18. ASSUME NEW d \in Ids, Settled(d)
      PROVE  Told'
    <2>1. Told'
        BY <1>18 DEF Settled, Doomed, Told, Recorded, OneThing, Ledger, StoreInv, TypeOK, RowsNamed
    <2> QED BY <2>1
<1>19. ASSUME NEW j \in Ids, Recover(j)
      PROVE  Told'
    <2>0. Ended(j, "interrupted") /\ j \in Ids
        BY <1>19, EndedAs DEF StoreInv, RowsNamed, Recover
    <2>1. /\ status[j] \in Unfinished /\ j \in todo' /\ todo \subseteq todo'
          /\ checking' = checking \/ checking = j
          /\ crashes' = crashes
        BY <1>19, ConstantsOK DEF Recover, Ledger, OneThing, Recorded
    <2> QED BY <2>0, <2>1, EndedTold
<1>20. ASSUME NEW d \in Ids, NEW w \in Ids, SkipDependant(d, w)
      PROVE  Told'
    <2>0. Ended(w, "skipped") /\ w \in Ids
        BY <1>20, EndedAs DEF StoreInv, RowsNamed, SkipDependant, Doomed
    <2>1. /\ status[w] \in Unfinished /\ w \in todo' /\ todo \subseteq todo'
          /\ checking' = checking \/ checking = w
          /\ crashes' = crashes
        BY <1>20, ConstantsOK DEF SkipDependant, Doomed, Ledger, OneThing, Recorded
    <2> QED BY <2>0, <2>1, EndedTold
<1>21. ASSUME Crash \/ (\E j \in Ids : CutOff(j) \/ \E st \in Terminal : EndUnpruned(j, st))
      PROVE  Told'
    <2>1. crashes' # 0
        BY <1>21 DEF Crash, CutOff, EndUnpruned, Dies, StoreInv, TypeOK
    <2> QED BY <2>1 DEF Told
<1>22. ASSUME UNCHANGED vars
      PROVE  Told'
    <2>1. Told'
        BY <1>22 DEF vars, Told, Recorded, OneThing, Ledger, StoreInv, TypeOK, RowsNamed
    <2> QED BY <2>1
<1>23. ASSUME NEW C \in {Channels} \cup {{c} : c \in Channels}, Clear(C) PROVE Told'
    <2>1. C \in SUBSET Channels
        OBVIOUS
    <2> QED BY <1>23, <2>1, <1>7
<1>24. ASSUME Request PROVE Told'
    <2>1. ASSUME NEW c \in Channels, NEW M \in Given, NEW r \in 0..MaxRetries, NEW f \in OnFail,
                 \/ Add(c, "end", None, M, r, f)
                 \/ \E place \in {"before", "after"}, t \in Queued : Add(c, place, t, M, r, f)
          PROVE  Told'
        BY <2>1, <1>1
    <2> QED BY <2>1, <1>24, <1>2, <1>3, <1>4, <1>5, <1>6, <1>8, <1>9, <1>23 DEF Request
<1>25. ASSUME Bookkeeping PROVE Told'
    BY <1>25, <1>14, <1>15, <1>16, <1>17, <1>18, <1>19, <1>20 DEF Bookkeeping
<1> QED BY <1>24, <1>25, <1>10, <1>11, <1>12, <1>13, <1>21, <1>22 DEF Next

(* The row is in the history when `_maybe_auto_retry` and `_pause_if_asked`   *)
(* read it, so every failure is answered.                                     *)
LEMMA AnsweringStep ==
    ASSUME ConstantsOK, StoreInv, Ledger, InHistory, Answering, [Next]_vars
    PROVE  Answering'
<1> USE DEF Idle, Queued, columns, flags, progress, observers, None, Terminal, Unfinished
<1>1. ASSUME NEW c \in Channels, NEW place \in {"end", "before", "after"}, NEW t, NEW M \in Given,
             NEW r \in 0..MaxRetries, NEW f \in OnFail, Add(c, place, t, M, r, f)
     PROVE  Answering'
    <2>0. Inserted(c, FALSE, r, 0, f, None)
        BY <1>1, InsertedAs DEF Add, DepRows, Given
    <2>1. FirstParent'
        BY <2>0, <1>1 DEF Add, DepRows, Given, Inserted, FirstParent, Answering, StoreInv, TypeOK,
           RowsNamed, RetriesSettled
    <2>2. Retrying'
        <3>1. UNCHANGED <<outcome, finishing, crashes>>
            BY <1>1 DEF Add
        <3>2. ASSUME NEW k \in Ids, outcome[k] # "none" PROVE k # nextId
            BY <2>0, <3>2 DEF Inserted, Ledger, Recorded
        <3>3. ASSUME NEW k \in Ids, k # nextId, NextMade(k) PROVE NextMade(k)'
            <4>1. PICK i \in Ids : parent[i] = k /\ attempt[i] = attempt[k] + 1
                BY <3>3 DEF NextMade
            <4>2. i # nextId
                BY <2>0, <4>1, <3>3, NoneIsNoId DEF Inserted, Answering, FirstParent
            <4> QED BY <2>0, <4>1, <4>2, <3>3 DEF NextMade, Inserted, StoreInv, TypeOK
        <3> QED BY <2>0, <3>1, <3>2, <3>3 DEF Retrying, WillRetry, Inserted, Answering, StoreInv, TypeOK
    <2>3. Pausing'
        BY <2>0, <1>1 DEF Add, DepRows, Given, Inserted, Pausing, Answering, WillRetry, Recorded,
           OneThing, Ledger, InHistory, StoreInv, TypeOK
    <2> QED BY <2>1, <2>2, <2>3 DEF Answering
<1>2. ASSUME NEW c \in Channels, NEW r \in 0..MaxRetries, NEW f \in OnFail, AddNow(c, r, f)
     PROVE  Answering'
    <2>0. Inserted(c, TRUE, r, 0, f, None)
        BY <1>2, InsertedAs DEF AddNow
    <2>1. FirstParent'
        BY <2>0, <1>2 DEF AddNow, Inserted, FirstParent, Answering, StoreInv, TypeOK, RowsNamed,
           RetriesSettled
    <2>2. Retrying'
        BY <2>0, <1>2 DEF AddNow, Inserted, Retrying, FirstParent, Answering, NextMade, WillRetry,
           Recorded, OneThing, Ledger, InHistory, StoreInv, TypeOK
    <2>3. Pausing'
        BY <2>0, <1>2 DEF AddNow, Inserted, Pausing, Answering, WillRetry, Recorded, OneThing, Ledger,
           InHistory, StoreInv, TypeOK
    <2> QED BY <2>1, <2>2, <2>3 DEF Answering
<1>3. ASSUME NEW j \in Ids, Requeue(j)
     PROVE  Answering'
    <2>0. Inserted(chan[j], FALSE, retries[j], 0, pauses[j], j)
        BY <1>3, InsertedAs DEF Requeue
    <2>1. FirstParent'
        BY <2>0, <1>3 DEF Requeue, Inserted, FirstParent, Answering, StoreInv, TypeOK, RowsNamed,
           RetriesSettled
    <2>2. Retrying'
        BY <2>0, <1>3 DEF Requeue, Inserted, Retrying, FirstParent, Answering, NextMade, WillRetry,
           Recorded, OneThing, Ledger, InHistory, StoreInv, TypeOK
    <2>3. Pausing'
        BY <2>0, <1>3 DEF Requeue, Inserted, Pausing, Answering, WillRetry, Recorded, OneThing, Ledger,
           InHistory, StoreInv, TypeOK
    <2> QED BY <2>1, <2>2, <2>3 DEF Answering
<1>4. ASSUME NEW j \in Ids, NEW c \in Channels, NEW M \in Given, NEW r \in 0..MaxRetries,
             NEW f \in OnFail, Edit(j, c, M, r, f)
     PROVE  Answering'
    <2>1. FirstParent'
        BY <1>4 DEF Edit, DepRows, Given, FirstParent, Answering, StoreInv, TypeOK, RowsNamed,
           RetriesSettled
    <2>2. Retrying'
        <3>1. UNCHANGED <<attempt, parent, finishing, outcome, crashes>> /\ status[j] = "queued"
            BY <1>4 DEF Edit
        <3>2. \A k \in Ids \ {j} : retries'[k] = retries[k]
            BY <1>4 DEF Edit, StoreInv, TypeOK
        <3>3. outcome[j] # "failed"
            BY <3>1 DEF Ledger, Recorded
        <3> QED BY <3>1, <3>2, <3>3 DEF Retrying, WillRetry, NextMade, Answering
    <2>3. Pausing'
        BY <1>4 DEF Edit, DepRows, Given, Pausing, Answering, WillRetry, Recorded, OneThing, Ledger,
           InHistory, StoreInv, TypeOK
    <2> QED BY <2>1, <2>2, <2>3 DEF Answering
<1>5. ASSUME NEW j \in Ids, CancelQueued(j)
     PROVE  Answering'
    <2>0. Ended(j, "cancelled") /\ j \in Ids
        BY <1>5, EndedAs DEF StoreInv, RowsNamed, CancelQueued
    <2>1. FirstParent'
        BY <2>0, <1>5 DEF CancelQueued, Ended, FirstParent, Answering, StoreInv, TypeOK, RowsNamed,
           RetriesSettled
    <2>2. Retrying'
        BY <2>0, <1>5 DEF CancelQueued, Ended, Retrying, FirstParent, Answering, NextMade, WillRetry,
           Recorded, OneThing, Ledger, InHistory, StoreInv, TypeOK
    <2>3. Pausing'
        BY <2>0, <1>5 DEF CancelQueued, Ended, Pausing, Answering, WillRetry, Recorded, OneThing,
           Ledger, InHistory, StoreInv, TypeOK
    <2> QED BY <2>1, <2>2, <2>3 DEF Answering
<1>6. ASSUME NEW j \in Ids, Rm(j)
     PROVE  Answering'
    <2>1. FirstParent'
        BY <1>6 DEF Rm, Dependants, DepsOf, FirstParent, Answering, StoreInv, TypeOK, RowsNamed,
           RetriesSettled
    <2>2. Retrying'
        BY <1>6 DEF Rm, Dependants, DepsOf, Retrying, FirstParent, Answering, NextMade, WillRetry,
           Recorded, OneThing, Ledger, InHistory, StoreInv, TypeOK
    <2>3. Pausing'
        BY <1>6 DEF Rm, Dependants, DepsOf, Pausing, Answering, WillRetry, Recorded, OneThing, Ledger,
           InHistory, StoreInv, TypeOK
    <2> QED BY <2>1, <2>2, <2>3 DEF Answering
<1>7. ASSUME NEW C \in SUBSET Channels, Clear(C)
     PROVE  Answering'
    <2>1. FirstParent'
        BY <1>7 DEF Clear, Unneeded, KeptDeps, FirstParent, Answering, StoreInv, TypeOK, RowsNamed,
           RetriesSettled
    <2>2. Retrying'
        BY <1>7 DEF Clear, Unneeded, KeptDeps, Retrying, FirstParent, Answering, NextMade, WillRetry,
           Recorded, OneThing, Ledger, InHistory, StoreInv, TypeOK
    <2>3. Pausing'
        BY <1>7 DEF Clear, Unneeded, KeptDeps, Pausing, Answering, WillRetry, Recorded, OneThing,
           Ledger, InHistory, StoreInv, TypeOK
    <2> QED BY <2>1, <2>2, <2>3 DEF Answering
<1>8. ASSUME NEW c \in Channels, Pause(c)
     PROVE  Answering'
    <2>1. FirstParent'
        BY <1>8 DEF Pause, FirstParent, Answering, StoreInv, TypeOK, RowsNamed, RetriesSettled
    <2>2. Retrying'
        BY <1>8 DEF Pause, Retrying, FirstParent, Answering, NextMade, WillRetry, Recorded, OneThing,
           Ledger, InHistory, StoreInv, TypeOK
    <2>3. Pausing'
        BY <1>8 DEF Pause, Pausing, Answering, WillRetry, Recorded, OneThing, Ledger, InHistory,
           StoreInv, TypeOK
    <2> QED BY <2>1, <2>2, <2>3 DEF Answering
<1>9. ASSUME NEW c \in Channels, Resume(c)
     PROVE  Answering'
    <2>1. FirstParent'
        BY <1>9 DEF Resume, FirstParent, Answering, StoreInv, TypeOK, RowsNamed, RetriesSettled
    <2>2. Retrying'
        BY <1>9 DEF Resume, Retrying, FirstParent, Answering, NextMade, WillRetry, Recorded, OneThing,
           Ledger, InHistory, StoreInv, TypeOK
    <2>3. Pausing'
        BY <1>9 DEF Resume, Pausing, Answering, WillRetry, Recorded, OneThing, Ledger, InHistory,
           StoreInv, TypeOK
    <2> QED BY <2>1, <2>2, <2>3 DEF Answering
<1>10. ASSUME NEW j \in Ids, Start(j)
      PROVE  Answering'
    <2>1. FirstParent'
        BY <1>10 DEF Start, Turn, IsHead, Ready, Run, FirstParent, Answering, StoreInv, TypeOK,
           RowsNamed, RetriesSettled
    <2>2. Retrying'
        BY <1>10 DEF Start, Turn, IsHead, Ready, Run, Retrying, FirstParent, Answering, NextMade,
           WillRetry, Recorded, OneThing, Ledger, InHistory, StoreInv, TypeOK
    <2>3. Pausing'
        BY <1>10 DEF Start, Turn, IsHead, Ready, Run, Pausing, Answering, WillRetry, Recorded,
           OneThing, Ledger, InHistory, StoreInv, TypeOK
    <2> QED BY <2>1, <2>2, <2>3 DEF Answering
<1>11. ASSUME NEW j \in Ids, StartNow(j)
      PROVE  Answering'
    <2>1. FirstParent'
        BY <1>11 DEF StartNow, IsHead, Run, FirstParent, Answering, StoreInv, TypeOK, RowsNamed,
           RetriesSettled
    <2>2. Retrying'
        BY <1>11 DEF StartNow, IsHead, Run, Retrying, FirstParent, Answering, NextMade, WillRetry,
           Recorded, OneThing, Ledger, InHistory, StoreInv, TypeOK
    <2>3. Pausing'
        BY <1>11 DEF StartNow, IsHead, Run, Pausing, Answering, WillRetry, Recorded, OneThing, Ledger,
           InHistory, StoreInv, TypeOK
    <2> QED BY <2>1, <2>2, <2>3 DEF Answering
<1>12. ASSUME NEW j \in Ids, SkipHead(j)
      PROVE  Answering'
    <2>0. Ended(j, "skipped") /\ j \in Ids
        BY <1>12, EndedAs DEF StoreInv, RowsNamed, SkipHead, SkipBlocked, Turn, IsHead, Blocked
    <2>1. FirstParent'
        BY <2>0, <1>12 DEF SkipHead, SkipBlocked, Turn, IsHead, Blocked, Ended, FirstParent, Answering,
           StoreInv, TypeOK, RowsNamed, RetriesSettled
    <2>2. Retrying'
        BY <2>0, <1>12 DEF SkipHead, SkipBlocked, Turn, IsHead, Blocked, Ended, Retrying, FirstParent,
           Answering, NextMade, WillRetry, Recorded, OneThing, Ledger, InHistory, StoreInv, TypeOK
    <2>3. Pausing'
        BY <2>0, <1>12 DEF SkipHead, SkipBlocked, Turn, IsHead, Blocked, Ended, Pausing, Answering,
           WillRetry, Recorded, OneThing, Ledger, InHistory, StoreInv, TypeOK
    <2> QED BY <2>1, <2>2, <2>3 DEF Answering
<1>13. ASSUME NEW j \in Ids, NEW st \in Outcomes, Finish(j, st)
      PROVE  Answering'
    <2>0. Ended(j, st) /\ j \in Ids
        BY <1>13, EndedAs DEF StoreInv, ConstantsOK, RowsNamed, Finish
    <2>1. FirstParent'
        BY <2>0, <1>13 DEF Finish, Ended, FirstParent, Answering, StoreInv, TypeOK, RowsNamed,
           RetriesSettled
    <2>2. Retrying'
        <3>1. UNCHANGED <<attempt, retries, parent>> /\ finishing' = j /\ finishing = None /\ crashes' = crashes
            BY <1>13 DEF Finish
        <3>2. \A k \in Ids \ {j} : outcome'[k] = outcome[k]
            BY <2>0 DEF Ended
        <3>3. \A k \in Ids : k # finishing
            BY <3>1, NoneIsNoId
        <3> QED BY <3>1, <3>2, <3>3 DEF Retrying, WillRetry, NextMade, Answering
    <2>3. Pausing'
        <3>1. UNCHANGED <<attempt, retries, pauses, chan, paused>> /\ finishing' = j /\ finishing = None
              /\ crashes' = crashes
            BY <1>13 DEF Finish
        <3>2. outcome'[j] = st /\ \A k \in Ids \ {j} : outcome'[k] = outcome[k]
            BY <2>0 DEF Ended, StoreInv, TypeOK
        <3>3. \A k \in Ids : k # finishing
            BY <3>1, NoneIsNoId
        <3>4. \/ shouldPause' = shouldPause
              \/ shouldPause' = shouldPause \cup {j} /\ st = "failed" /\ pauses[j] /\ ~WillRetry(j)
            BY <1>13 DEF Finish
        <3>5. outcome[j] = "none" /\ shouldPause \subseteq Ids
            BY <1>13 DEF Finish, Ledger, Recorded, StoreInv, TypeOK
        <3> QED BY <3>1, <3>2, <3>3, <3>4, <3>5 DEF Pausing, WillRetry, Answering
    <2> QED BY <2>1, <2>2, <2>3 DEF Answering
<1>14. ASSUME Check, Blocked(checking)
      PROVE  Answering'
    <2>0. Ended(checking, "skipped") /\ checking \in Ids
        BY <1>14, EndedAs DEF StoreInv, StoreInv, TypeOK, RowsNamed, Check, SkipBlocked, Blocked
    <2>1. FirstParent'
        <3>1. parent' = parent
            BY <1>14 DEF Check, SkipBlocked
        <3> QED BY <2>0, <3>1 DEF Ended, FirstParent, Answering
    <2>2. Retrying'
        <3>1. UNCHANGED <<attempt, retries, parent, finishing, crashes>>
            BY <1>14 DEF Check, SkipBlocked
        <3>2. \A k \in Ids : outcome'[k] = "failed" => outcome[k] = "failed"
            BY <2>0 DEF Ended, StoreInv, TypeOK
        <3> QED BY <3>1, <3>2 DEF Retrying, WillRetry, NextMade, Answering
    <2>3. Pausing'
        <3>1. UNCHANGED <<attempt, retries, pauses, chan, paused, finishing, shouldPause, crashes>>
            BY <1>14 DEF Check, SkipBlocked
        <3>2. \A k \in Ids : outcome[k] = "failed" => outcome'[k] = "failed"
            BY <2>0, <1>14 DEF Check, Blocked, Ended, Ledger, Recorded, OneThing, StoreInv, TypeOK, RowsNamed
        <3>3. shouldPause \subseteq Ids
            BY DEF StoreInv, TypeOK
        <3> QED BY <3>1, <3>2, <3>3 DEF Pausing, WillRetry, Answering
    <2> QED BY <2>1, <2>2, <2>3 DEF Answering
<1>15. ASSUME Check, ~Blocked(checking)
      PROVE  Answering'
    <2>1. FirstParent'
        BY <1>15 DEF Check, Blocked, FirstParent, Answering, StoreInv, TypeOK, RowsNamed, RetriesSettled
    <2>2. Retrying'
        BY <1>15 DEF Check, Blocked, Retrying, FirstParent, Answering, NextMade, WillRetry, Recorded,
           OneThing, Ledger, InHistory, StoreInv, TypeOK
    <2>3. Pausing'
        BY <1>15 DEF Check, Blocked, Pausing, Answering, WillRetry, Recorded, OneThing, Ledger,
           InHistory, StoreInv, TypeOK
    <2> QED BY <2>1, <2>2, <2>3 DEF Answering
<1>16. ASSUME AfterFinish, AutoRetry(finishing)
      PROVE  Answering'
    <2>0. Inserted(chan[finishing], FALSE, retries[finishing], attempt[finishing] + 1, pauses[finishing], finishing)
        BY <1>16, InsertedAs DEF AfterFinish, AutoRetry
    <2>1. FirstParent'
        BY <2>0, <1>16 DEF AfterFinish, AutoRetry, Inserted, FirstParent, Answering, StoreInv, TypeOK,
           RowsNamed, RetriesSettled
    <2>2. Retrying'
        BY <2>0, <1>16 DEF AfterFinish, AutoRetry, Inserted, Retrying, FirstParent, Answering,
           NextMade, WillRetry, Recorded, OneThing, Ledger, InHistory, StoreInv, TypeOK
    <2>3. Pausing'
        BY <2>0, <1>16 DEF AfterFinish, AutoRetry, Inserted, Pausing, Answering, WillRetry, Recorded,
           OneThing, Ledger, InHistory, StoreInv, TypeOK
    <2> QED BY <2>1, <2>2, <2>3 DEF Answering
<1>17. ASSUME AfterFinish, ~AutoRetry(finishing)
      PROVE  Answering'
    <2>1. FirstParent'
        BY <1>17 DEF AfterFinish, AutoRetry, PauseAsked, FirstParent, Answering, StoreInv, TypeOK,
           RowsNamed, RetriesSettled
    <2>2. Retrying'
        <3>1. UNCHANGED <<attempt, retries, parent, outcome, crashes>>
            BY <1>17 DEF AfterFinish
        <3>2. ASSUME finishing \in Ids, outcome[finishing] = "failed" PROVE ~WillRetry(finishing)
            BY <3>2, <1>17, NoneIsNoId DEF AutoRetry, InHistory, Ledger, Recorded
        <3> QED BY <3>1, <3>2 DEF Retrying, WillRetry, NextMade, Answering
    <2>3. Pausing'
        <3>1. UNCHANGED <<attempt, retries, pauses, chan, outcome, shouldPause, crashes>> /\ finishing # None
              /\ paused' = IF PauseAsked(finishing) THEN paused \cup {chan[finishing]} ELSE paused
            BY <1>17 DEF AfterFinish
        <3>2. ASSUME finishing \in Ids, outcome[finishing] = "failed" PROVE status[finishing] = "failed"
            BY <3>1, <3>2 DEF InHistory, Ledger, Recorded
        <3>3. shouldPause \subseteq Ids
            BY DEF StoreInv, TypeOK
        <3> QED BY <3>1, <3>2, <3>3 DEF Pausing, WillRetry, PauseAsked, Answering
    <2> QED BY <2>1, <2>2, <2>3 DEF Answering
<1>18. ASSUME NEW d \in Ids, Settled(d)
      PROVE  Answering'
    <2>1. FirstParent'
        BY <1>18 DEF Settled, Doomed, FirstParent, Answering, StoreInv, TypeOK, RowsNamed, RetriesSettled
    <2>2. Retrying'
        BY <1>18 DEF Settled, Doomed, Retrying, FirstParent, Answering, NextMade, WillRetry, Recorded,
           OneThing, Ledger, InHistory, StoreInv, TypeOK
    <2>3. Pausing'
        BY <1>18 DEF Settled, Doomed, Pausing, Answering, WillRetry, Recorded, OneThing, Ledger,
           InHistory, StoreInv, TypeOK
    <2> QED BY <2>1, <2>2, <2>3 DEF Answering
<1>19. ASSUME NEW j \in Ids, Recover(j)
      PROVE  Answering'
    <2>0. Ended(j, "interrupted") /\ j \in Ids
        BY <1>19, EndedAs DEF StoreInv, RowsNamed, Recover
    <2>1. FirstParent'
        BY <2>0, <1>19 DEF Recover, Ended, FirstParent, Answering, StoreInv, TypeOK, RowsNamed,
           RetriesSettled
    <2>2. Retrying'
        BY <2>0, <1>19 DEF Recover, Ended, Retrying, FirstParent, Answering, NextMade, WillRetry,
           Recorded, OneThing, Ledger, InHistory, StoreInv, TypeOK
    <2>3. Pausing'
        BY <2>0, <1>19 DEF Recover, Ended, Pausing, Answering, WillRetry, Recorded, OneThing, Ledger,
           InHistory, StoreInv, TypeOK
    <2> QED BY <2>1, <2>2, <2>3 DEF Answering
<1>20. ASSUME NEW d \in Ids, NEW w \in Ids, SkipDependant(d, w)
      PROVE  Answering'
    <2>0. Ended(w, "skipped") /\ w \in Ids
        BY <1>20, EndedAs DEF StoreInv, RowsNamed, SkipDependant, Doomed
    <2>1. FirstParent'
        BY <2>0, <1>20 DEF SkipDependant, Doomed, Ended, FirstParent, Answering, StoreInv, TypeOK,
           RowsNamed, RetriesSettled
    <2>2. Retrying'
        BY <2>0, <1>20 DEF SkipDependant, Doomed, Ended, Retrying, FirstParent, Answering, NextMade,
           WillRetry, Recorded, OneThing, Ledger, InHistory, StoreInv, TypeOK
    <2>3. Pausing'
        BY <2>0, <1>20 DEF SkipDependant, Doomed, Ended, Pausing, Answering, WillRetry, Recorded,
           OneThing, Ledger, InHistory, StoreInv, TypeOK
    <2> QED BY <2>1, <2>2, <2>3 DEF Answering
<1>21. ASSUME Crash \/ (\E j \in Ids : CutOff(j) \/ \E st \in Terminal : EndUnpruned(j, st))
      PROVE  Answering'
    <2>1. parent' = parent /\ crashes' # 0
        BY <1>21 DEF Crash, CutOff, EndUnpruned, Dies, StoreInv, TypeOK
    <2>2. \A k \in Ids : status'[k] = "none" => status[k] = "none"
        <3>1. CASE Crash \/ \E j \in Ids : CutOff(j)
            BY <3>1 DEF Crash, CutOff
        <3>2. ASSUME NEW j \in Ids, NEW st \in Terminal, EndUnpruned(j, st)
              PROVE  \A k \in Ids : status'[k] = "none" => status[k] = "none"
            <4>1. Ended(j, st)
                BY <3>2, RowEndedAs DEF EndUnpruned, RowEnds, StoreInv
            <4> QED BY <4>1 DEF Ended
        <3> QED BY <3>1, <3>2, <1>21
    <2>3. FirstParent'
        BY <2>1, <2>2 DEF FirstParent, Answering
    <2> QED BY <2>1, <2>3 DEF Answering, Retrying, Pausing
<1>22. ASSUME UNCHANGED vars
      PROVE  Answering'
    <2>1. FirstParent'
        BY <1>22 DEF vars, FirstParent, Answering, StoreInv, TypeOK, RowsNamed, RetriesSettled
    <2>2. Retrying'
        BY <1>22 DEF vars, Retrying, FirstParent, Answering, NextMade, WillRetry, Recorded, OneThing,
           Ledger, InHistory, StoreInv, TypeOK
    <2>3. Pausing'
        BY <1>22 DEF vars, Pausing, Answering, WillRetry, Recorded, OneThing, Ledger, InHistory,
           StoreInv, TypeOK
    <2> QED BY <2>1, <2>2, <2>3 DEF Answering
<1>23. ASSUME NEW C \in {Channels} \cup {{c} : c \in Channels}, Clear(C) PROVE Answering'
    <2>1. C \in SUBSET Channels
        OBVIOUS
    <2> QED BY <1>23, <2>1, <1>7
<1>24. ASSUME Request PROVE Answering'
    <2>1. ASSUME NEW c \in Channels, NEW M \in Given, NEW r \in 0..MaxRetries, NEW f \in OnFail,
                 \/ Add(c, "end", None, M, r, f)
                 \/ \E place \in {"before", "after"}, t \in Queued : Add(c, place, t, M, r, f)
          PROVE  Answering'
        BY <2>1, <1>1
    <2> QED BY <2>1, <1>24, <1>2, <1>3, <1>4, <1>5, <1>6, <1>8, <1>9, <1>23 DEF Request
<1>25. ASSUME Bookkeeping PROVE Answering'
    BY <1>25, <1>14, <1>15, <1>16, <1>17, <1>18, <1>19, <1>20 DEF Bookkeeping
<1> QED BY <1>24, <1>25, <1>10, <1>11, <1>12, <1>13, <1>21, <1>22 DEF Next

(* With a history that holds all jobs, the ended one is there as it was. *)
StillThere == finishing # None => status[finishing] \in Terminal

(* A history that holds all jobs is never pruned. *)
LEMMA NothingPruned ==
    ASSUME ConstantsOK, TypeOK, Keep >= MaxId, NEW j \in Ids, NEW st \in Terminal, End(j, st)
    PROVE  status' = [status EXCEPT ![j] = st]
<1>1. ASSUME NEW s, NEW en \in [Ids -> Nat], NEW c PROVE Prunable(s, en, c) = {}
    <2> SUFFICES ASSUME NEW k \in Ids, Cardinality({i \in Unneeded(s, c) : en[i] > en[k]}) >= Keep,
                        k \in Unneeded(s, c)
                 PROVE  FALSE
        BY DEF Prunable, Unneeded
    <2> DEFINE later == {i \in Unneeded(s, c) : en[i] > en[k]}
    <2>0. 1 \in Int /\ MaxId \in Nat /\ Keep \in Nat
        BY DEF ConstantsOK
    <2>1. IsFiniteSet(Ids) /\ Cardinality(Ids) = MaxId
        BY <2>0, FS_Interval DEF Ids
    <2>2. later \subseteq Ids
        BY DEF Unneeded
    <2>3. Cardinality(later) <= Cardinality(Ids \ {k})
        <3>1. CASE k \notin later
            <4>1. later \subseteq Ids \ {k} /\ IsFiniteSet(Ids \ {k})
                BY <3>1, <2>1, <2>2, FS_Subset
            <4> QED BY <4>1, FS_Subset
        <3>2. CASE k \in later
            BY <3>2
        <3> QED BY <3>1, <3>2
    <2>4. Cardinality(Ids \ {k}) = MaxId - 1
        BY <2>1, FS_RemoveElement
    <2>5. Cardinality(later) \in Nat
        BY <2>1, <2>2, FS_Subset, FS_CardinalityType
    <2> QED BY <2>0, <2>3, <2>4, <2>5
<1>2. status' = [k \in Ids |-> [status EXCEPT ![j] = st][k]]
    <2> DEFINE marked == [status EXCEPT ![j] = st]
               ranked == [ended EXCEPT ![j] = Cardinality({k \in Ids : ended[k] # 0}) + 1]
    <2>1. ended' \in [Ids -> Nat]
        BY EndEffect, EndIsRowEnds
    <2>2. ended' = ranked /\ status' = [k \in Ids |-> IF k \in Prunable(marked, ranked, chan[j])
                                                     THEN "gone" ELSE marked[k]]
        BY DEF End, EndPruning, Marked, Ranked
    <2> HIDE DEF marked, ranked
    <2>3. Prunable(marked, ranked, chan[j]) = {}
        BY <1>1, <2>1, <2>2
    <2>4. status' = [k \in Ids |-> marked[k]]
        BY <2>2, <2>3
    <2> QED BY <2>4 DEF marked
<1> QED BY <1>2 DEF TypeOK

(* Nothing but pruning takes an ended row before its bookkeeping is done.     *)
LEMMA StillThereStep ==
    ASSUME ConstantsOK, Keep >= MaxId, StoreInv, Ledger, StillThere, [Next]_vars
    PROVE  StillThere'
<1> USE DEF Idle, Queued, columns, flags, progress, observers, None, Terminal, Unfinished
<1>1. ASSUME NEW c \in Channels, NEW place \in {"end", "before", "after"}, NEW t, NEW M \in Given,
             NEW r \in 0..MaxRetries, NEW f \in OnFail, Add(c, place, t, M, r, f)
     PROVE  StillThere'
    <2>0. Inserted(c, FALSE, r, 0, f, None)
        BY <1>1, InsertedAs DEF Add, DepRows, Given
    <2>1. StillThere'
        BY <2>0, <1>1 DEF Add, DepRows, Given, Inserted, StillThere, Recorded, OneThing, Ledger,
           StoreInv, TypeOK
    <2> QED BY <2>1
<1>2. ASSUME NEW c \in Channels, NEW r \in 0..MaxRetries, NEW f \in OnFail, AddNow(c, r, f)
     PROVE  StillThere'
    <2>0. Inserted(c, TRUE, r, 0, f, None)
        BY <1>2, InsertedAs DEF AddNow
    <2>1. StillThere'
        BY <2>0, <1>2 DEF AddNow, Inserted, StillThere, Recorded, OneThing, Ledger, StoreInv, TypeOK
    <2> QED BY <2>1
<1>3. ASSUME NEW j \in Ids, Requeue(j)
     PROVE  StillThere'
    <2>0. Inserted(chan[j], FALSE, retries[j], 0, pauses[j], j)
        BY <1>3, InsertedAs DEF Requeue
    <2>1. StillThere'
        BY <2>0, <1>3 DEF Requeue, Inserted, StillThere, Recorded, OneThing, Ledger, StoreInv, TypeOK
    <2> QED BY <2>1
<1>4. ASSUME NEW j \in Ids, NEW c \in Channels, NEW M \in Given, NEW r \in 0..MaxRetries,
             NEW f \in OnFail, Edit(j, c, M, r, f)
     PROVE  StillThere'
    <2>1. StillThere'
        BY <1>4 DEF Edit, DepRows, Given, StillThere, Recorded, OneThing, Ledger, StoreInv, TypeOK
    <2> QED BY <2>1
<1>5. ASSUME NEW j \in Ids, CancelQueued(j)
     PROVE  StillThere'
    <2>0. Ended(j, "cancelled") /\ j \in Ids
        BY <1>5, EndedAs DEF StoreInv, RowsNamed, CancelQueued
    <2>1. End(j, "cancelled") /\ finishing' \in {finishing, j} /\ "cancelled" \in Terminal
          /\ status[j] \notin Terminal
        BY <1>5, ConstantsOK DEF ConstantsOK, CancelQueued, Ledger, OneThing, Recorded
    <2> QED BY <2>0, <2>1, NothingPruned DEF Ended, StillThere, StoreInv, TypeOK
<1>6. ASSUME NEW j \in Ids, Rm(j)
     PROVE  StillThere'
    <2>1. StillThere'
        BY <1>6 DEF Rm, Dependants, DepsOf, StillThere, Recorded, OneThing, Ledger, StoreInv, TypeOK
    <2> QED BY <2>1
<1>7. ASSUME NEW C \in SUBSET Channels, Clear(C)
     PROVE  StillThere'
    <2>1. StillThere'
        BY <1>7 DEF Clear, Unneeded, KeptDeps, StillThere, Recorded, OneThing, Ledger, StoreInv, TypeOK
    <2> QED BY <2>1
<1>8. ASSUME NEW c \in Channels, Pause(c)
     PROVE  StillThere'
    <2>1. StillThere'
        BY <1>8 DEF Pause, StillThere, Recorded, OneThing, Ledger, StoreInv, TypeOK
    <2> QED BY <2>1
<1>9. ASSUME NEW c \in Channels, Resume(c)
     PROVE  StillThere'
    <2>1. StillThere'
        BY <1>9 DEF Resume, StillThere, Recorded, OneThing, Ledger, StoreInv, TypeOK
    <2> QED BY <2>1
<1>10. ASSUME NEW j \in Ids, Start(j)
      PROVE  StillThere'
    <2>1. StillThere'
        BY <1>10 DEF Start, Turn, IsHead, Ready, Run, StillThere, Recorded, OneThing, Ledger, StoreInv,
           TypeOK
    <2> QED BY <2>1
<1>11. ASSUME NEW j \in Ids, StartNow(j)
      PROVE  StillThere'
    <2>1. StillThere'
        BY <1>11 DEF StartNow, IsHead, Run, StillThere, Recorded, OneThing, Ledger, StoreInv, TypeOK
    <2> QED BY <2>1
<1>12. ASSUME NEW j \in Ids, SkipHead(j)
      PROVE  StillThere'
    <2>0. Ended(j, "skipped") /\ j \in Ids
        BY <1>12, EndedAs DEF StoreInv, RowsNamed, SkipHead, SkipBlocked, Turn, IsHead, Blocked
    <2>1. End(j, "skipped") /\ finishing' \in {finishing, j} /\ "skipped" \in Terminal
          /\ status[j] \notin Terminal
        BY <1>12, ConstantsOK DEF ConstantsOK, SkipHead, SkipBlocked, Turn, IsHead, Blocked, Ledger,
           OneThing, Recorded
    <2> QED BY <2>0, <2>1, NothingPruned DEF Ended, StillThere, StoreInv, TypeOK
<1>13. ASSUME NEW j \in Ids, NEW st \in Outcomes, Finish(j, st)
      PROVE  StillThere'
    <2>0. Ended(j, st) /\ j \in Ids
        BY <1>13, EndedAs DEF StoreInv, ConstantsOK, RowsNamed, Finish
    <2>1. End(j, st) /\ finishing' \in {finishing, j} /\ st \in Terminal
          /\ status[j] \notin Terminal
        BY <1>13, ConstantsOK DEF ConstantsOK, Finish, Ledger, OneThing, Recorded
    <2> QED BY <2>0, <2>1, NothingPruned DEF Ended, StillThere, StoreInv, TypeOK
<1>14. ASSUME Check, Blocked(checking)
      PROVE  StillThere'
    <2>0. Ended(checking, "skipped") /\ checking \in Ids
        BY <1>14, EndedAs DEF StoreInv, StoreInv, TypeOK, RowsNamed, Check, SkipBlocked, Blocked
    <2>1. End(checking, "skipped") /\ finishing' \in {finishing, checking} /\ "skipped" \in Terminal
          /\ status[checking] \notin Terminal
        BY <1>14, ConstantsOK DEF ConstantsOK, Check, SkipBlocked, Blocked, Ledger, OneThing, Recorded
    <2> QED BY <2>0, <2>1, NothingPruned DEF Ended, StillThere, StoreInv, TypeOK
<1>15. ASSUME Check, ~Blocked(checking)
      PROVE  StillThere'
    <2>1. StillThere'
        BY <1>15 DEF Check, Blocked, StillThere, Recorded, OneThing, Ledger, StoreInv, TypeOK
    <2> QED BY <2>1
<1>16. ASSUME AfterFinish, AutoRetry(finishing)
      PROVE  StillThere'
    <2>0. Inserted(chan[finishing], FALSE, retries[finishing], attempt[finishing] + 1, pauses[finishing], finishing)
        BY <1>16, InsertedAs DEF AfterFinish, AutoRetry
    <2>1. StillThere'
        BY <2>0, <1>16 DEF AfterFinish, AutoRetry, Inserted, StillThere, Recorded, OneThing, Ledger,
           StoreInv, TypeOK
    <2> QED BY <2>1
<1>17. ASSUME AfterFinish, ~AutoRetry(finishing)
      PROVE  StillThere'
    <2>1. StillThere'
        BY <1>17 DEF AfterFinish, AutoRetry, PauseAsked, StillThere, Recorded, OneThing, Ledger,
           StoreInv, TypeOK
    <2> QED BY <2>1
<1>18. ASSUME NEW d \in Ids, Settled(d)
      PROVE  StillThere'
    <2>1. StillThere'
        BY <1>18 DEF Settled, Doomed, StillThere, Recorded, OneThing, Ledger, StoreInv, TypeOK
    <2> QED BY <2>1
<1>19. ASSUME NEW j \in Ids, Recover(j)
      PROVE  StillThere'
    <2>0. Ended(j, "interrupted") /\ j \in Ids
        BY <1>19, EndedAs DEF StoreInv, RowsNamed, Recover
    <2>1. End(j, "interrupted") /\ finishing' \in {finishing, j} /\ "interrupted" \in Terminal
          /\ status[j] \notin Terminal
        BY <1>19, ConstantsOK DEF ConstantsOK, Recover, Ledger, OneThing, Recorded
    <2> QED BY <2>0, <2>1, NothingPruned DEF Ended, StillThere, StoreInv, TypeOK
<1>20. ASSUME NEW d \in Ids, NEW w \in Ids, SkipDependant(d, w)
      PROVE  StillThere'
    <2>0. Ended(w, "skipped") /\ w \in Ids
        BY <1>20, EndedAs DEF StoreInv, RowsNamed, SkipDependant, Doomed
    <2>1. End(w, "skipped") /\ finishing' \in {finishing, w} /\ "skipped" \in Terminal
          /\ status[w] \notin Terminal
        BY <1>20, ConstantsOK DEF ConstantsOK, SkipDependant, Doomed, Ledger, OneThing, Recorded
    <2> QED BY <2>0, <2>1, NothingPruned DEF Ended, StillThere, StoreInv, TypeOK
<1>21. ASSUME Crash \/ (\E j \in Ids : CutOff(j) \/ \E st \in Terminal : EndUnpruned(j, st))
      PROVE  StillThere'
    <2>1. finishing' = None
        BY <1>21 DEF Crash, CutOff, EndUnpruned, Dies
    <2> QED BY <2>1 DEF StillThere
<1>22. ASSUME UNCHANGED vars
      PROVE  StillThere'
    <2>1. StillThere'
        BY <1>22 DEF vars, StillThere, Recorded, OneThing, Ledger, StoreInv, TypeOK
    <2> QED BY <2>1
<1>23. ASSUME NEW C \in {Channels} \cup {{c} : c \in Channels}, Clear(C) PROVE StillThere'
    <2>1. C \in SUBSET Channels
        OBVIOUS
    <2> QED BY <1>23, <2>1, <1>7
<1>24. ASSUME Request PROVE StillThere'
    <2>1. ASSUME NEW c \in Channels, NEW M \in Given, NEW r \in 0..MaxRetries, NEW f \in OnFail,
                 \/ Add(c, "end", None, M, r, f)
                 \/ \E place \in {"before", "after"}, t \in Queued : Add(c, place, t, M, r, f)
          PROVE  StillThere'
        BY <2>1, <1>1
    <2> QED BY <2>1, <1>24, <1>2, <1>3, <1>4, <1>5, <1>6, <1>8, <1>9, <1>23 DEF Request
<1>25. ASSUME Bookkeeping PROVE StillThere'
    BY <1>25, <1>14, <1>15, <1>16, <1>17, <1>18, <1>19, <1>20 DEF Bookkeeping
<1> QED BY <1>24, <1>25, <1>10, <1>11, <1>12, <1>13, <1>21, <1>22 DEF Next

LEMMA LedgerInit == Init => StoreInv /\ Ledger /\ Told /\ Answering /\ StillThere
<1> SUFFICES ASSUME Init PROVE StoreInv /\ Ledger /\ Told /\ Answering /\ StillThere
    OBVIOUS
<1>1. StoreInv
    BY StoreInit, ConstantsOK
<1>2. Ledger
    BY DEF Init, Ledger, Recorded, Remembered, OneThing, RanAsAsked, SkipsDeserved, Terminal, Queued, None
<1>3. Told /\ Answering /\ StillThere
    BY DEF Init, Told, Answering, FirstParent, Retrying, Pausing, StillThere
<1> QED BY <1>1, <1>2, <1>3

LEMMA LedgerInvariant == Spec => [](StoreInv /\ Ledger /\ Told)
<1>1. StoreInv /\ Ledger /\ Told /\ [Next]_vars => (StoreInv /\ Ledger /\ Told)'
    BY ConstantsOK, StoreStep, LedgerStep, ToldStep
<1> QED BY <1>1, LedgerInit, PTL DEF Spec

(* A job runs only if every job it was last asked to wait for ended as asked, *)
(* whatever was retried, edited, skipped, pruned, cleared or lost meanwhile.  *)
THEOREM OnlyRunsAsAsked == Spec => []RanAsAsked
<1>1. Ledger => RanAsAsked
    BY DEF Ledger
<1> QED BY <1>1, LedgerInvariant, PTL

(* No job is skipped unless one it needed to succeed ended otherwise: a       *)
(* removed or pruned row never is the reason.                                 *)
THEOREM OnlyDeservedSkips == Spec => []SkipsDeserved
<1>1. Ledger => SkipsDeserved
    BY DEF Ledger
<1> QED BY <1>1, LedgerInvariant, PTL

(* As long as the daemon is not killed, nobody is left waiting for a failed   *)
(* job between two requests: neither an add or edit that came too late for    *)
(* the telling, nor a chain of skipped jobs, on whatever channels.            *)
THEOREM NobodyWaitsInVain == Spec => []NoDoomedWaiter
<1>1. ASSUME StoreInv, Told PROVE NoDoomedWaiter
    <2> SUFFICES ASSUME Idle, crashes = 0, NEW j \in Queued, Blocked(j) PROVE FALSE
        BY DEF NoDoomedWaiter
    <2>1. j \in Ids /\ status[j] = "queued"
        BY DEF Queued
    <2>2. PICK d \in Ids : <<j, d, "success">> \in deps /\ status[d] \in Terminal \ {"done"}
        BY <1>1, <2>1, BlockedNeeds
    <2>3. d \in todo \/ j = checking
        BY <1>1, <2>1, <2>2 DEF Told
    <2> QED BY <2>1, <2>3, NoneIsNoId DEF Idle
<1> QED BY <1>1, LedgerInvariant, PTL

LEMMA AnsweringInvariant == Spec /\ []InHistory => []Answering
<1>1. StoreInv /\ Ledger /\ InHistory /\ Answering /\ [Next]_vars => Answering'
    BY ConstantsOK, AnsweringStep
<1> QED BY <1>1, LedgerInit, LedgerInvariant, PTL DEF Spec

(* Every failure with attempts left is followed by the next attempt, unless   *)
(* the row is pruned before `_maybe_auto_retry` reads it: a history shorter   *)
(* than the jobs skipped on its account would push it out.                    *)
THEOREM FailuresRetried == Spec /\ []InHistory => []RetriesHappen
<1>1. Answering => RetriesHappen
    BY NoneIsNoId DEF Answering, Retrying, RetriesHappen, Idle, NextMade
<1> QED BY <1>1, AnsweringInvariant, PTL

(* Under the same condition the last failure of an `--on-fail pause` job      *)
(* leaves its channel paused until it is resumed.                             *)
THEOREM FailuresPause == Spec /\ []InHistory => []FailurePauses
<1>1. StoreInv /\ Answering => FailurePauses
    BY NoneIsNoId DEF Answering, Pausing, FailurePauses, Idle, StoreInv, TypeOK
<1> QED BY <1>1, LedgerInvariant, AnsweringInvariant, PTL

(* The condition holds of every behaviour when the history holds all jobs.    *)
THEOREM LongHistoryKeeps ==
    ASSUME Keep >= MaxId
    PROVE  Spec => []InHistory
<1>1. StoreInv /\ Ledger /\ StillThere /\ [Next]_vars => StillThere'
    BY ConstantsOK, StillThereStep
<1>2. StillThere => InHistory
    BY DEF StillThere, InHistory, Terminal
<1> QED BY <1>1, <1>2, LedgerInit, LedgerInvariant, PTL DEF Spec

=============================================================================
