--------------------------- MODULE ChannelProofs ---------------------------
(***************************************************************************)
(* Proofs about module Channel: that its states are of their types, and    *)
(* that its two lanes never run at once.                                   *)
(***************************************************************************)
EXTENDS Channel, TLAPS

(* The columns a new row gets are of their types, if its own values are. *)
LEMMA NewColumnsTyped ==
    ASSUME TypeOK, NEW p \in BOOLEAN, NEW t \in BOOLEAN, NEW r \in Nat,
           NEW from \in Ids \cup {None}, NewColumns(p, t, r, from)
    PROVE  /\ prio' \in [Ids -> BOOLEAN] /\ timed' \in [Ids -> BOOLEAN]
           /\ left' \in [Ids -> Nat] /\ parent' \in [Ids -> Ids \cup {None}]
           /\ nextId \in Ids /\ nextId' \in 1..(MaxId + 1)
BY ConstantsOK DEF ConstantsOK, TypeOK, NewColumns, Ids

(* Recording an outcome, with the retry it may queue, keeps the table typed. *)
LEMMA RecordTyped ==
    ASSUME TypeOK, NEW j \in Ids, NEW st \in Terminal, Record(j, st)
    PROVE  /\ row' \in [Ids -> Status]
           /\ prio' \in [Ids -> BOOLEAN] /\ timed' \in [Ids -> BOOLEAN]
           /\ left' \in [Ids -> Nat] /\ parent' \in [Ids -> Ids \cup {None}]
           /\ nextId' \in 1..(MaxId + 1)
<1>1. CASE st = "failed" /\ left[j] > 0
  <2>1. NewColumns(FALSE, timed[j], left[j] - 1, j) /\ row' = [row EXCEPT ![j] = st, ![nextId] = "queued"]
    BY <1>1 DEF Record
  <2>2. timed[j] \in BOOLEAN /\ left[j] - 1 \in Nat
    BY <1>1 DEF TypeOK
  <2>3. row' \in [Ids -> Status]
    BY <2>1 DEF TypeOK, Status
  <2> QED
    BY <2>1, <2>2, <2>3, NewColumnsTyped
<1>2. CASE ~(st = "failed" /\ left[j] > 0)
  BY <1>2 DEF Record, TypeOK, Status, columns
<1> QED
  BY <1>1, <1>2

(* The end of `_run_job`, by any of its paths. *)
LEMMA EndOfJobTyped ==
    ASSUME TypeOK, NEW j \in Ids, NEW st \in Terminal, Record(j, st),
           pc' = [pc EXCEPT ![j] = "idle"],
           proc' = [proc EXCEPT ![j] = "none"] \/ proc' = proc,
           Release(j) \/ slot' = slot,
           cancelled' = cancelled \ {j} \/ cancelled' = cancelled,
           UNCHANGED <<paused, phase, frozen, laneTask, dying, condemned, stops, observers>>
    PROVE  TypeOK'
<1>1. pc' \in [Ids -> Stage] /\ proc' \in [Ids -> {"none"} \cup Live \cup Gone]
  BY DEF TypeOK, Stage
<1>2. slot' \in Ids \cup {None} /\ cancelled' \subseteq Ids
  BY DEF TypeOK, Release
<1> QED
  BY <1>1, <1>2, RecordTyped DEF TypeOK, observers

(* The initial state is of the types. *)
LEMMA TypeInit == ASSUME Init PROVE TypeOK
<1>1. nextId \in 1..(MaxId + 1)
  BY ConstantsOK DEF ConstantsOK, Init
<1> QED
  BY <1>1 DEF Init, TypeOK, None, Status, Phase, Stage

(* Every step keeps the types. *)
LEMMA TypeStep == ASSUME TypeOK, [Next]_vars PROVE TypeOK'
<1> USE DEF None, Status, Terminal, Phase, Stage, Live, Gone, vars, db, columns, lane, observers
<1>1. ASSUME NEW t \in BOOLEAN, NEW r \in 0..MaxRetries, AddNormal(t, r) PROVE TypeOK'
  <2>1. r \in Nat
    BY ConstantsOK DEF ConstantsOK
  <2>2. row' \in [Ids -> Status] /\ proc' \in [Ids -> {"none"} \cup Live \cup Gone] /\ refused' \subseteq Ids
    BY <1>1, <2>1, NewColumnsTyped DEF AddNormal, TypeOK
  <2>3. /\ prio' \in [Ids -> BOOLEAN] /\ timed' \in [Ids -> BOOLEAN]
        /\ left' \in [Ids -> Nat] /\ parent' \in [Ids -> Ids \cup {None}]
        /\ nextId' \in 1..(MaxId + 1)
    BY <1>1, <2>1, NewColumnsTyped DEF AddNormal
  <2> QED
    BY <1>1, <2>2, <2>3 DEF AddNormal, TypeOK
<1>2. ASSUME NEW t \in BOOLEAN, NEW r \in 0..MaxRetries, AddNow(t, r) PROVE TypeOK'
  <2>1. r \in Nat
    BY ConstantsOK DEF ConstantsOK
  <2>2. /\ row' \in [Ids -> Status] /\ frozen' \in Ids \cup {None}
        /\ proc' \in [Ids -> {"none"} \cup Live \cup Gone]
    BY <1>2 DEF AddNow, WillFreeze, TypeOK
  <2>3. laneTask' \in BOOLEAN
    BY <1>2 DEF AddNow, EnsureRunner, TypeOK
  <2>4. /\ prio' \in [Ids -> BOOLEAN] /\ timed' \in [Ids -> BOOLEAN]
        /\ left' \in [Ids -> Nat] /\ parent' \in [Ids -> Ids \cup {None}]
        /\ nextId' \in 1..(MaxId + 1)
    BY <1>2, <2>1, NewColumnsTyped DEF AddNow
  <2> QED
    BY <1>2, <2>2, <2>3, <2>4 DEF AddNow, TypeOK
<1>3. ASSUME NEW t \in BOOLEAN, NEW r \in 0..MaxRetries, AddNowRaises(t, r) PROVE TypeOK'
  <2>1. r \in Nat
    BY ConstantsOK DEF ConstantsOK
  <2>2. row' \in [Ids -> Status] /\ proc' \in [Ids -> {"none"} \cup Live \cup Gone] /\ refused' \subseteq Ids
    BY <1>3, <2>1, NewColumnsTyped DEF AddNowRaises, TypeOK
  <2>3. /\ prio' \in [Ids -> BOOLEAN] /\ timed' \in [Ids -> BOOLEAN]
        /\ left' \in [Ids -> Nat] /\ parent' \in [Ids -> Ids \cup {None}]
        /\ nextId' \in 1..(MaxId + 1)
    BY <1>3, <2>1, NewColumnsTyped DEF AddNowRaises
  <2> QED
    BY <1>3, <2>2, <2>3 DEF AddNowRaises, TypeOK
<1>4. ASSUME NEW b \in BOOLEAN, SetPaused(b) PROVE TypeOK'
  BY <1>4 DEF SetPaused, TypeOK
<1>5. ASSUME NEW j \in Ids, CancelQueued(j) PROVE TypeOK'
  BY <1>5 DEF CancelQueued, Accept, TypeOK
<1>6. ASSUME NEW j \in Ids, CancelSlot(j) PROVE TypeOK'
  BY <1>6 DEF CancelSlot, Accept, TypeOK
<1>7. ASSUME NEW j \in Ids, CancelFrozen(j) PROVE TypeOK'
  BY <1>7 DEF CancelFrozen, Accept, TypeOK
<1>8. ASSUME NEW j \in Ids, WorkerStart(j) PROVE TypeOK'
  BY <1>8 DEF WorkerStart, Begin, TypeOK
<1>9. ASSUME NEW j \in Ids, LaneStart(j) PROVE TypeOK'
  BY <1>9 DEF LaneStart, Begin, TypeOK
<1>10. ASSUME NEW j \in Ids, SpawnReturns(j) PROVE TypeOK'
  BY <1>10 DEF SpawnReturns, TypeOK
<1>11. ASSUME NEW j \in Ids, SpawnFails(j) PROVE TypeOK'
  BY <1>11, EndOfJobTyped DEF SpawnFails
<1>12. ASSUME NEW j \in Ids, WaitReturns(j) PROVE TypeOK'
  BY <1>12 DEF WaitReturns, Goto, TypeOK
<1>13. ASSUME NEW j \in Ids, TimeoutFires(j) PROVE TypeOK'
  BY <1>13 DEF TimeoutFires, Goto, TypeOK
<1>14. ASSUME NEW j \in Ids, TimeoutRecords(j) PROVE TypeOK'
  BY <1>14, EndOfJobTyped DEF TimeoutRecords, Finish, Forget
<1>15. ASSUME NEW j \in Ids, DrainReturns(j) PROVE TypeOK'
  <2>1. CASE \E st \in Terminal : Finish(j, st)
    BY <2>1, EndOfJobTyped DEF Finish, Forget
  <2>2. CASE Goto(j, "drain", "race") /\ UNCHANGED <<db, phase, lane, cancelled, proc, dying, condemned, stops, observers>>
    BY <2>2 DEF Goto, TypeOK
  <2> QED
    BY <1>15, <2>1, <2>2 DEF DrainReturns
<1>16. ASSUME NEW j \in Ids, RaceReturns(j) PROVE TypeOK'
  BY <1>16, EndOfJobTyped DEF RaceReturns, Forget
<1>17. ASSUME AdoptLane PROVE TypeOK'
  BY <1>17 DEF AdoptLane, TypeOK
<1>18. ASSUME LaneEnds PROVE TypeOK'
  <2>1. /\ row' \in [Ids -> Status] /\ frozen' \in Ids \cup {None} /\ slot' \in Ids \cup {None}
        /\ proc' \in [Ids -> {"none"} \cup Live \cup Gone]
    BY <1>18 DEF LaneEnds, Resume, TypeOK
  <2> QED
    BY <1>18, <2>1 DEF LaneEnds, TypeOK
<1>19. ASSUME NEW j \in Ids, NEW how \in Gone, Exit(j, how) PROVE TypeOK'
  BY <1>19 DEF Exit, TypeOK
<1>20. ASSUME NEW j \in Ids, KillGroup(j) PROVE TypeOK'
  BY <1>20 DEF KillGroup, Exit, TypeOK
<1>21. ASSUME StopSignal PROVE TypeOK'
  BY <1>21 DEF StopSignal, TypeOK
<1>22. ASSUME ShutdownKills PROVE TypeOK'
  BY <1>22 DEF ShutdownKills, ShutdownTargets, TypeOK
<1>23. ASSUME ShutdownExits PROVE TypeOK'
  BY <1>23 DEF ShutdownExits, ForgetMemory, TypeOK
<1>24. ASSUME NEW survive \in BOOLEAN, Crash(survive) PROVE TypeOK'
  <2>1. proc' \in [Ids -> {"none"} \cup Live \cup Gone]
    BY <1>24 DEF Crash, TypeOK
  <2>2. pc' \in [Ids -> Stage] /\ phase' \in Phase /\ stops' \in Nat
    BY <1>24 DEF Crash, ForgetMemory, TypeOK
  <2> QED
    BY <1>24, <2>1, <2>2 DEF Crash, ForgetMemory, TypeOK
<1>25. ASSUME Start PROVE TypeOK'
  BY <1>25 DEF Start, OneOf, TypeOK
<1>26. ASSUME UNCHANGED vars PROVE TypeOK'
  BY <1>26 DEF TypeOK
<1> QED
  BY <1>1, <1>2, <1>3, <1>4, <1>5, <1>6, <1>7, <1>8, <1>9, <1>10, <1>11, <1>12, <1>13, <1>14,
     <1>15, <1>16, <1>17, <1>18, <1>19, <1>20, <1>21, <1>22, <1>23, <1>24, <1>25, <1>26 DEF
     Next, Request, Runner, Stop

(* Every row, slot, stage and process of a channel always is one of the     *)
(* values the code knows, whatever is added, cancelled, stopped or crashes. *)
THEOREM TypeCorrect == Spec => []TypeOK
<1>1. Init => TypeOK
  BY TypeInit
<1>2. TypeOK /\ [Next]_vars => TypeOK'
  BY TypeStep
<1> QED
  BY <1>1, <1>2, PTL DEF Spec

----------------------------------------------------------------------------
(***************************************************************************)
(* README.md:145: a normal job never runs beside a `--now` job, as long as *)
(* no `--now` job arrives while a normal job's process is being created.   *)
(* The invariant is Exclusion of module Channel.                           *)
(***************************************************************************)
(* A new row takes an id no runner has, and moves no other job to another lane. *)
LEMMA NewRowIsIdle ==
    ASSUME TypeOK, RowsAndProcs, NEW p \in BOOLEAN, NEW t, NEW r, NEW from, NewColumns(p, t, r, from)
    PROVE  /\ nextId \in Ids /\ nextId' = nextId + 1
           /\ row[nextId] = "none" /\ pc[nextId] = "idle" /\ proc[nextId] = "none"
           /\ prio'[nextId] = p
           /\ \A k \in Ids : k # nextId => prio'[k] = prio[k]
<1>1. nextId \in Ids /\ nextId' = nextId + 1
  BY DEF NewColumns
<1>2. row[nextId] = "none" /\ pc[nextId] = "idle" /\ proc[nextId] = "none"
  BY <1>1, ConstantsOK DEF ConstantsOK, RowsAndProcs, Unborn, Ids
<1>3. prio'[nextId] = p /\ \A k \in Ids : k # nextId => prio'[k] = prio[k]
  BY <1>1 DEF NewColumns, TypeOK
<1> QED
  BY <1>1, <1>2, <1>3

(* An add leaves every runner with the job it waits for. *)
LEMMA OneEachAfterAdd ==
    ASSUME TypeOK, TypeOK', RowsAndProcs, OneEach, NEW p \in BOOLEAN, NEW t, NEW r, NEW from, NewColumns(p, t, r, from),
           phase \in Serving, UNCHANGED <<phase, pc>>, laneTask => laneTask'
    PROVE  OneEach'
<1>1. \A k \in Ids : pc[k] # "idle" => prio'[k] = prio[k]
  BY NewRowIsIdle
<1> QED
  BY <1>1 DEF OneEach

(* The end of `_run_job` leaves rows and processes in step. *)
LEMMA RowsAfterRecord ==
    ASSUME TypeOK, RowsAndProcs, NEW j \in Ids, row[j] # "none", NEW st \in Terminal, Record(j, st),
           pc' = [pc EXCEPT ![j] = "idle"],
           proc' = [proc EXCEPT ![j] = "none"] \/ proc' = proc
    PROVE  RowsAndProcs'
<1> USE DEF Unborn, Waiting, Terminal
<1>1. CASE st = "failed" /\ left[j] > 0
  <2>1. NewColumns(FALSE, timed[j], left[j] - 1, j) /\ row' = [row EXCEPT ![j] = st, ![nextId] = "queued"]
    BY <1>1 DEF Record
  <2>2. /\ nextId \in Ids /\ nextId' = nextId + 1 /\ nextId # j
        /\ row[nextId] = "none" /\ pc[nextId] = "idle" /\ proc[nextId] = "none"
    BY <2>1, NewRowIsIdle
  <2>3. /\ row'[j] = st /\ row'[nextId] = "queued"
        /\ \A k \in Ids : k # j /\ k # nextId => row'[k] = row[k]
    BY <2>1, <2>2 DEF TypeOK
  <2>4. /\ pc'[j] = "idle"
        /\ \A k \in Ids : /\ k # j => pc'[k] = pc[k]
                         /\ proc[k] = "none" => proc'[k] = "none"
    BY DEF TypeOK
  <2>5. j < nextId
    BY <2>2 DEF RowsAndProcs, Ids
  <2>6. ASSUME NEW k \in Ids
        PROVE  /\ k >= nextId' => row'[k] = "none"
               /\ row'[k] = "none" => pc'[k] = "idle"
               /\ row'[k] \in Unborn => proc'[k] = "none"
               /\ pc'[k] = "spawn" => row'[k] = "queued"
               /\ pc'[k] \in Waiting => row'[k] \notin Unborn
    <3>1. k \in Int /\ nextId \in Int
      BY ConstantsOK DEF ConstantsOK, TypeOK, Ids
    <3>2. CASE k = j
      <4>1. ~(k >= nextId')
        BY <2>2, <2>5, <3>1, <3>2
      <4>2. row'[k] = st /\ pc'[k] = "idle"
        BY <2>3, <2>4, <3>2
      <4> QED
        BY <4>1, <4>2
    <3>3. CASE k = nextId
      BY <2>2, <2>3, <2>4, <3>1, <3>3
    <3>4. CASE k # j /\ k # nextId
      BY <2>2, <2>3, <2>4, <3>1, <3>4 DEF RowsAndProcs
    <3> QED
      BY <3>2, <3>3, <3>4
  <2> QED
    BY <2>6 DEF RowsAndProcs
<1>2. CASE ~(st = "failed" /\ left[j] > 0)
  BY <1>2 DEF Record, RowsAndProcs, TypeOK, columns
<1> QED
  BY <1>1, <1>2

(* The part of Exclusion that does not depend on when a `--now` job arrives. *)
Grounded == RowsAndProcs /\ OneEach /\ Slots

(* The initial state has no job, runner or process. *)
LEMMA ExclusionInit == ASSUME Init PROVE Exclusion
BY DEF Init, Exclusion, RowsAndProcs, OneEach, Slots, LaneExcludes, Serving, Waiting, Unborn, None

(* Every step keeps what does not depend on the lanes' exclusion. *)
LEMMA GroundedStep ==
    ASSUME TypeOK, Grounded, [Next]_vars
    PROVE  Grounded'
<1> USE DEF vars, db, columns, lane, observers, Waiting, Unborn, Live, Gone, None, Serving
<1> TypeOK'
  BY TypeStep DEF vars
<1>1. ASSUME NEW t \in BOOLEAN, NEW r \in 0..MaxRetries, AddNormal(t, r) PROVE Grounded'
  <2>1. RowsAndProcs'
    BY <1>1 DEF AddNormal, NewColumns, Grounded, RowsAndProcs, OneEach, Slots, TypeOK
  <2>2. OneEach'
    BY <1>1, OneEachAfterAdd DEF AddNormal, CanAdd, Grounded
  <2>3. Slots'
    BY <1>1 DEF AddNormal, NewColumns, Grounded, RowsAndProcs, OneEach, Slots, TypeOK
  <2> QED
    BY <2>1, <2>2, <2>3 DEF Grounded
<1>2. ASSUME NEW t \in BOOLEAN, NEW r \in 0..MaxRetries, AddNow(t, r) PROVE Grounded'
  <2>0. /\ NewColumns(TRUE, t, r, None) /\ phase \in Serving
        /\ EnsureRunner /\ UNCHANGED <<phase, pc, slot, dying>>
    BY <1>2 DEF AddNow, CanAdd
  <2>1. RowsAndProcs'
    BY <1>2 DEF AddNow, NewColumns, WillFreeze, Grounded, RowsAndProcs, OneEach, Slots, TypeOK
  <2>2. OneEach'
    BY <2>0, OneEachAfterAdd DEF EnsureRunner, Grounded
  <2>3. Slots'
    <3>1. CASE WillFreeze
      <4>1. /\ row' = [row EXCEPT ![nextId] = "queued", ![slot] = "stopped"]
            /\ proc' = [proc EXCEPT ![slot] = "frozen"]
            /\ frozen' = slot /\ slot \in Ids /\ ~prio[slot] /\ row[slot] = "running" /\ phase \notin {"stopping", "killing"}
        BY <1>2, <3>1 DEF AddNow, WillFreeze, TypeOK, Stopping
      <4>2. slot # nextId
        BY <2>0, <4>1, NewRowIsIdle DEF Grounded
      <4>3. ~prio'[slot]
        BY <2>0, <4>1, <4>2, NewRowIsIdle DEF Grounded
      <4>4. pc[slot] \in Waiting
        BY <4>1 DEF Grounded, Slots, Ids
      <4> QED
        BY <2>0, <4>1, <4>2, <4>3, <4>4 DEF Slots, EnsureRunner, TypeOK, Stopping
    <3>2. CASE ~WillFreeze
      <4>1. /\ row' = [row EXCEPT ![nextId] = "queued"] /\ UNCHANGED <<proc, frozen>>
        BY <1>2, <3>2 DEF AddNow
      <4>2. frozen # None => ~prio'[frozen]
        BY <2>0, NewRowIsIdle DEF Grounded, Slots, TypeOK
      <4>3. frozen # None => row'[frozen] \notin Unborn
        BY <2>0, <4>1, NewRowIsIdle DEF Grounded, Slots, TypeOK
      <4> QED
        BY <2>0, <4>1, <4>2, <4>3 DEF Slots, EnsureRunner, Grounded, TypeOK
    <3> QED
      BY <3>1, <3>2
  <2> QED
    BY <2>1, <2>2, <2>3 DEF Grounded
<1>3. ASSUME NEW t \in BOOLEAN, NEW r \in 0..MaxRetries, AddNowRaises(t, r) PROVE Grounded'
  <2>1. RowsAndProcs'
    BY <1>3 DEF AddNowRaises, NewColumns, WillFreeze, Grounded, RowsAndProcs, OneEach, Slots, TypeOK
  <2>2. OneEach'
    BY <1>3, OneEachAfterAdd DEF AddNowRaises, CanAdd, Grounded
  <2>3. Slots'
    BY <1>3 DEF AddNowRaises, NewColumns, WillFreeze, Grounded, RowsAndProcs, OneEach, Slots, TypeOK
  <2> QED
    BY <2>1, <2>2, <2>3 DEF Grounded
<1>4. ASSUME NEW j \in Ids, SpawnFails(j) PROVE Grounded'
  <2>1. RowsAndProcs'
    <3>1. row[j] # "none"
      BY <1>4 DEF SpawnFails, Grounded, RowsAndProcs
    <3> QED
      BY <1>4, <3>1, RowsAfterRecord DEF SpawnFails, Grounded, Terminal
  <2>2. OneEach'
    BY <1>4 DEF SpawnFails, Record, NewColumns, Terminal, Grounded, RowsAndProcs, OneEach, Slots, TypeOK
  <2>3. Slots'
    BY <1>4 DEF SpawnFails, Record, NewColumns, Terminal, Grounded, RowsAndProcs, OneEach, Slots, TypeOK
  <2> QED
    BY <2>1, <2>2, <2>3 DEF Grounded
<1>5. ASSUME NEW j \in Ids, TimeoutRecords(j) PROVE Grounded'
  <2>1. RowsAndProcs'
    BY <1>5 DEF TimeoutRecords, Finish, Record, NewColumns, Release, Forget, Terminal, Grounded,
       RowsAndProcs, OneEach, Slots, TypeOK
  <2>2. OneEach'
    BY <1>5 DEF TimeoutRecords, Finish, Record, NewColumns, Release, Forget, Terminal, Grounded,
       RowsAndProcs, OneEach, Slots, TypeOK
  <2>3. Slots'
    BY <1>5 DEF TimeoutRecords, Finish, Record, NewColumns, Release, Forget, Terminal, Grounded,
       RowsAndProcs, OneEach, Slots, TypeOK
  <2> QED
    BY <2>1, <2>2, <2>3 DEF Grounded
<1>6. ASSUME NEW j \in Ids, RaceReturns(j) PROVE Grounded'
  <2>1. RowsAndProcs'
    BY <1>6 DEF RaceReturns, Record, NewColumns, Release, Forget, Terminal, Grounded, RowsAndProcs,
       OneEach, Slots, TypeOK
  <2>2. OneEach'
    BY <1>6 DEF RaceReturns, Record, NewColumns, Release, Forget, Terminal, Grounded, RowsAndProcs,
       OneEach, Slots, TypeOK
  <2>3. Slots'
    BY <1>6 DEF RaceReturns, Record, NewColumns, Release, Forget, Terminal, Grounded, RowsAndProcs,
       OneEach, Slots, TypeOK
  <2> QED
    BY <2>1, <2>2, <2>3 DEF Grounded
<1>7. ASSUME NEW j \in Ids, DrainReturns(j) PROVE Grounded'
  <2>1. RowsAndProcs'
    <3>1. CASE \E st \in Terminal : Finish(j, st)
      <4>1. row[j] # "none"
        BY <1>7 DEF DrainReturns, Grounded, RowsAndProcs
      <4> QED
        BY <3>1, <4>1, RowsAfterRecord DEF Finish, Forget, Grounded
    <3>3. CASE Goto(j, "drain", "race") /\ UNCHANGED <<db, phase, lane, cancelled, proc, dying,
       condemned, stops, observers>>
      BY <3>3 DEF Goto, Grounded, RowsAndProcs, TypeOK
    <3> QED
      BY <1>7, <3>1, <3>3 DEF DrainReturns, Terminal
  <2>2. OneEach'
    BY <1>7 DEF DrainReturns, Finish, Goto, Record, NewColumns, Release, Forget, Terminal, Grounded,
       RowsAndProcs, OneEach, Slots, TypeOK
  <2>3. Slots'
    BY <1>7 DEF DrainReturns, Finish, Goto, Record, NewColumns, Release, Forget, Terminal, Grounded,
       RowsAndProcs, OneEach, Slots, TypeOK
  <2> QED
    BY <2>1, <2>2, <2>3 DEF Grounded
<1>8. ASSUME UNCHANGED vars PROVE Grounded'
  <2>1. RowsAndProcs'
    BY <1>8 DEF vars, Grounded, RowsAndProcs, OneEach, Slots, TypeOK
  <2>2. OneEach'
    BY <1>8 DEF vars, Grounded, RowsAndProcs, OneEach, Slots, TypeOK
  <2>3. Slots'
    BY <1>8 DEF vars, Grounded, RowsAndProcs, OneEach, Slots, TypeOK
  <2> QED
    BY <2>1, <2>2, <2>3 DEF Grounded
<1>9. ASSUME NEW b \in BOOLEAN, SetPaused(b) PROVE Grounded'
  <2>1. RowsAndProcs'
    BY <1>9 DEF SetPaused, Grounded, RowsAndProcs, OneEach, Slots, TypeOK
  <2>2. OneEach'
    BY <1>9 DEF SetPaused, Grounded, RowsAndProcs, OneEach, Slots, TypeOK
  <2>3. Slots'
    BY <1>9 DEF SetPaused, Grounded, RowsAndProcs, OneEach, Slots, TypeOK
  <2> QED
    BY <2>1, <2>2, <2>3 DEF Grounded
<1>10. ASSUME NEW j \in Ids, CancelQueued(j) PROVE Grounded'
  <2>1. RowsAndProcs'
    BY <1>10 DEF CancelQueued, Grounded, RowsAndProcs, OneEach, Slots, TypeOK
  <2>2. OneEach'
    BY <1>10 DEF CancelQueued, Grounded, RowsAndProcs, OneEach, Slots, TypeOK
  <2>3. Slots'
    BY <1>10 DEF CancelQueued, Grounded, RowsAndProcs, OneEach, Slots, TypeOK
  <2> QED
    BY <2>1, <2>2, <2>3 DEF Grounded
<1>11. ASSUME NEW j \in Ids, CancelSlot(j) PROVE Grounded'
  <2>1. RowsAndProcs'
    BY <1>11 DEF CancelSlot, Grounded, RowsAndProcs, OneEach, Slots, TypeOK
  <2>2. OneEach'
    BY <1>11 DEF CancelSlot, Grounded, RowsAndProcs, OneEach, Slots, TypeOK
  <2>3. Slots'
    BY <1>11 DEF CancelSlot, Grounded, RowsAndProcs, OneEach, Slots, TypeOK
  <2> QED
    BY <2>1, <2>2, <2>3 DEF Grounded
<1>12. ASSUME NEW j \in Ids, CancelFrozen(j) PROVE Grounded'
  <2>1. RowsAndProcs'
    BY <1>12 DEF CancelFrozen, Grounded, RowsAndProcs, OneEach, Slots, TypeOK
  <2>2. OneEach'
    BY <1>12 DEF CancelFrozen, Grounded, RowsAndProcs, OneEach, Slots, TypeOK
  <2>3. Slots'
    BY <1>12 DEF CancelFrozen, Grounded, RowsAndProcs, OneEach, Slots, TypeOK
  <2> QED
    BY <2>1, <2>2, <2>3 DEF Grounded
<1>13. ASSUME NEW j \in Ids, WorkerStart(j) PROVE Grounded'
  <2>1. RowsAndProcs'
    BY <1>13 DEF WorkerStart, Begin, LaneBusy, IsHead, Queued, Active, Grounded, RowsAndProcs, OneEach,
       Slots, TypeOK
  <2>2. OneEach'
    BY <1>13 DEF WorkerStart, Begin, LaneBusy, IsHead, Queued, Active, Grounded, RowsAndProcs, OneEach,
       Slots, TypeOK
  <2>3. Slots'
    BY <1>13 DEF WorkerStart, Begin, LaneBusy, IsHead, Queued, Active, Grounded, RowsAndProcs, OneEach,
       Slots, TypeOK
  <2> QED
    BY <2>1, <2>2, <2>3 DEF Grounded
<1>14. ASSUME NEW j \in Ids, LaneStart(j) PROVE Grounded'
  <2>1. RowsAndProcs'
    BY <1>14 DEF LaneStart, Begin, IsHead, Queued, Active, Grounded, RowsAndProcs, OneEach, Slots, TypeOK
  <2>2. OneEach'
    BY <1>14 DEF LaneStart, Begin, IsHead, Queued, Active, Grounded, RowsAndProcs, OneEach, Slots, TypeOK
  <2>3. Slots'
    BY <1>14 DEF LaneStart, Begin, IsHead, Queued, Active, Grounded, RowsAndProcs, OneEach, Slots, TypeOK
  <2> QED
    BY <2>1, <2>2, <2>3 DEF Grounded
<1>15. ASSUME NEW j \in Ids, SpawnReturns(j) PROVE Grounded'
  <2>1. RowsAndProcs'
    BY <1>15 DEF SpawnReturns, Grounded, RowsAndProcs, OneEach, Slots, TypeOK
  <2>2. OneEach'
    BY <1>15 DEF SpawnReturns, Grounded, RowsAndProcs, OneEach, Slots, TypeOK
  <2>3. Slots'
    BY <1>15 DEF SpawnReturns, Grounded, RowsAndProcs, OneEach, Slots, TypeOK
  <2> QED
    BY <2>1, <2>2, <2>3 DEF Grounded
<1>16. ASSUME NEW j \in Ids, WaitReturns(j) PROVE Grounded'
  <2>1. RowsAndProcs'
    BY <1>16 DEF WaitReturns, Goto, Grounded, RowsAndProcs, OneEach, Slots, TypeOK
  <2>2. OneEach'
    BY <1>16 DEF WaitReturns, Goto, Grounded, RowsAndProcs, OneEach, Slots, TypeOK
  <2>3. Slots'
    BY <1>16 DEF WaitReturns, Goto, Grounded, RowsAndProcs, OneEach, Slots, TypeOK
  <2> QED
    BY <2>1, <2>2, <2>3 DEF Grounded
<1>17. ASSUME NEW j \in Ids, TimeoutFires(j) PROVE Grounded'
  <2>1. RowsAndProcs'
    BY <1>17 DEF TimeoutFires, Goto, Grounded, RowsAndProcs, OneEach, Slots, TypeOK
  <2>2. OneEach'
    BY <1>17 DEF TimeoutFires, Goto, Grounded, RowsAndProcs, OneEach, Slots, TypeOK
  <2>3. Slots'
    BY <1>17 DEF TimeoutFires, Goto, Grounded, RowsAndProcs, OneEach, Slots, TypeOK
  <2> QED
    BY <2>1, <2>2, <2>3 DEF Grounded
<1>18. ASSUME AdoptLane PROVE Grounded'
  <2>1. RowsAndProcs'
    BY <1>18 DEF AdoptLane, Active, Grounded, RowsAndProcs, OneEach, Slots, TypeOK
  <2>2. OneEach'
    BY <1>18 DEF AdoptLane, Active, Grounded, RowsAndProcs, OneEach, Slots, TypeOK
  <2>3. Slots'
    BY <1>18 DEF AdoptLane, Active, Grounded, RowsAndProcs, OneEach, Slots, TypeOK
  <2> QED
    BY <2>1, <2>2, <2>3 DEF Grounded
<1>19. ASSUME LaneEnds PROVE Grounded'
  <2>1. RowsAndProcs'
    BY <1>19 DEF LaneEnds, Resume, Active, Stopping, Grounded, RowsAndProcs, OneEach, Slots, TypeOK
  <2>2. OneEach'
    BY <1>19 DEF LaneEnds, Resume, Active, Stopping, Grounded, RowsAndProcs, OneEach, Slots, TypeOK
  <2>3. Slots'
    BY <1>19 DEF LaneEnds, Resume, Active, Stopping, Grounded, RowsAndProcs, OneEach, Slots, TypeOK
  <2> QED
    BY <2>1, <2>2, <2>3 DEF Grounded
<1>20. ASSUME NEW j \in Ids, NEW how \in Gone, Exit(j, how) PROVE Grounded'
  <2>1. RowsAndProcs'
    BY <1>20 DEF Exit, Grounded, RowsAndProcs, OneEach, Slots, TypeOK
  <2>2. OneEach'
    BY <1>20 DEF Exit, Grounded, RowsAndProcs, OneEach, Slots, TypeOK
  <2>3. Slots'
    BY <1>20 DEF Exit, Grounded, RowsAndProcs, OneEach, Slots, TypeOK
  <2> QED
    BY <2>1, <2>2, <2>3 DEF Grounded
<1>21. ASSUME NEW j \in Ids, KillGroup(j) PROVE Grounded'
  <2>1. RowsAndProcs'
    BY <1>21 DEF KillGroup, Exit, Grounded, RowsAndProcs, OneEach, Slots, TypeOK
  <2>2. OneEach'
    BY <1>21 DEF KillGroup, Exit, Grounded, RowsAndProcs, OneEach, Slots, TypeOK
  <2>3. Slots'
    BY <1>21 DEF KillGroup, Exit, Grounded, RowsAndProcs, OneEach, Slots, TypeOK
  <2> QED
    BY <2>1, <2>2, <2>3 DEF Grounded
<1>22. ASSUME StopSignal PROVE Grounded'
  <2>1. RowsAndProcs'
    BY <1>22 DEF StopSignal, Grounded, RowsAndProcs, OneEach, Slots, TypeOK
  <2>2. OneEach'
    BY <1>22 DEF StopSignal, Grounded, RowsAndProcs, OneEach, Slots, TypeOK
  <2>3. Slots'
    BY <1>22 DEF StopSignal, Grounded, RowsAndProcs, OneEach, Slots, TypeOK
  <2> QED
    BY <2>1, <2>2, <2>3 DEF Grounded
<1>23. ASSUME ShutdownKills PROVE Grounded'
  <2>1. RowsAndProcs'
    BY <1>23 DEF ShutdownKills, ShutdownTargets, Grounded, RowsAndProcs, OneEach, Slots, TypeOK
  <2>2. OneEach'
    BY <1>23 DEF ShutdownKills, ShutdownTargets, Grounded, RowsAndProcs, OneEach, Slots, TypeOK
  <2>3. Slots'
    BY <1>23 DEF ShutdownKills, ShutdownTargets, Grounded, RowsAndProcs, OneEach, Slots, TypeOK
  <2> QED
    BY <2>1, <2>2, <2>3 DEF Grounded
<1>24. ASSUME ShutdownExits PROVE Grounded'
  <2>1. RowsAndProcs'
    BY <1>24 DEF ShutdownExits, ForgetMemory, Grounded, RowsAndProcs, OneEach, Slots, TypeOK
  <2>2. OneEach'
    BY <1>24 DEF ShutdownExits, ForgetMemory, Grounded, RowsAndProcs, OneEach, Slots, TypeOK
  <2>3. Slots'
    BY <1>24 DEF ShutdownExits, ForgetMemory, Grounded, RowsAndProcs, OneEach, Slots, TypeOK
  <2> QED
    BY <2>1, <2>2, <2>3 DEF Grounded
<1>25. ASSUME NEW survive \in BOOLEAN, Crash(survive) PROVE Grounded'
  <2>1. RowsAndProcs'
    BY <1>25 DEF Crash, ForgetMemory, Grounded, RowsAndProcs, OneEach, Slots, TypeOK
  <2>2. OneEach'
    BY <1>25 DEF Crash, ForgetMemory, Grounded, RowsAndProcs, OneEach, Slots, TypeOK
  <2>3. Slots'
    BY <1>25 DEF Crash, ForgetMemory, Grounded, RowsAndProcs, OneEach, Slots, TypeOK
  <2> QED
    BY <2>1, <2>2, <2>3 DEF Grounded
<1>26. ASSUME Start PROVE Grounded'
  <2>1. RowsAndProcs'
    BY <1>26 DEF Start, OneOf, Grounded, RowsAndProcs, OneEach, Slots, TypeOK
  <2>2. OneEach'
    BY <1>26 DEF Start, OneOf, Grounded, RowsAndProcs, OneEach, Slots, TypeOK
  <2>3. Slots'
    BY <1>26 DEF Start, OneOf, Grounded, RowsAndProcs, OneEach, Slots, TypeOK
  <2> QED
    BY <2>1, <2>2, <2>3 DEF Grounded
<1> QED
  BY <1>1, <1>2, <1>3, <1>4, <1>5, <1>6, <1>7, <1>8, <1>9, <1>10, <1>11, <1>12, <1>13, <1>14, <1>15,
     <1>16, <1>17, <1>18, <1>19, <1>20, <1>21, <1>22, <1>23, <1>24, <1>25, <1>26 DEF Next, Request,
     Runner, Stop

(* Every step keeps the lanes apart. *)
LEMMA LaneExcludesStep ==
    ASSUME NowDuringSpawn = FALSE, TypeOK, Exclusion, [Next]_vars
    PROVE  LaneExcludes'
<1> USE DEF vars, db, columns, lane, observers, Waiting, Unborn, Live, Gone, None, Serving
<1> TypeOK'
  BY TypeStep DEF vars
<1>1. ASSUME NEW t \in BOOLEAN, NEW r \in 0..MaxRetries, AddNormal(t, r) PROVE LaneExcludes'
  BY <1>1 DEF AddNormal, NewColumns, Exclusion, RowsAndProcs, OneEach, Slots, LaneExcludes, TypeOK
<1>2. ASSUME NEW t \in BOOLEAN, NEW r \in 0..MaxRetries, AddNow(t, r) PROVE LaneExcludes'
  <2>0. /\ NewColumns(TRUE, t, r, None) /\ phase \in Serving
        /\ EnsureRunner /\ UNCHANGED <<phase, pc, slot, dying>>
    BY <1>2 DEF AddNow, CanAdd
  <2>1. \A k \in Ids : ~prio'[k] => ~prio[k] \/ k = nextId
    BY <2>0, NewRowIsIdle DEF Exclusion
  <2>2. \A k \in Ids : proc'[k] = "alive" => proc[k] = "alive" /\ (WillFreeze => k # slot)
    BY <1>2 DEF AddNow, WillFreeze, TypeOK
  <2>3. pc'[nextId] = "idle"
    BY <2>0, NewRowIsIdle DEF Exclusion
  <2>4. \A k \in Ids : ~prio[k] => pc[k] # "spawn"
    BY <1>2 DEF AddNow, NowMayArrive, Active
  <2>5. ASSUME NEW k \in Ids, ~prio[k], pc[k] # "idle", proc'[k] = "alive", laneTask' PROVE k \in dying
    <3>1. CASE laneTask
      BY <2>2, <2>5, <3>1 DEF Exclusion, LaneExcludes
    <3>2. CASE ~laneTask
      <4>1. ~Stopping /\ phase = "up" /\ frozen = None
        BY <2>0, <2>5, <3>2 DEF EnsureRunner, Stopping, Exclusion, Slots, TypeOK
      <4>2. slot = k \/ k \in dying
        BY <2>2, <2>5 DEF Exclusion, LaneExcludes
      <4>3. slot = k => WillFreeze
        BY <2>2, <2>5, <4>1 DEF WillFreeze, Ids
      <4> QED
        BY <2>2, <2>5, <4>2, <4>3
    <3> QED
      BY <3>1, <3>2
  <2> QED
    BY <2>0, <2>1, <2>2, <2>3, <2>4, <2>5 DEF LaneExcludes, Exclusion
<1>3. ASSUME NEW t \in BOOLEAN, NEW r \in 0..MaxRetries, AddNowRaises(t, r) PROVE LaneExcludes'
  BY <1>3 DEF AddNowRaises, NewColumns, WillFreeze, Exclusion, RowsAndProcs, OneEach, Slots,
     LaneExcludes, TypeOK
<1>4. ASSUME NEW j \in Ids, SpawnFails(j) PROVE LaneExcludes'
  BY <1>4 DEF SpawnFails, Record, NewColumns, Terminal, Exclusion, RowsAndProcs, OneEach, Slots,
     LaneExcludes, TypeOK
<1>5. ASSUME NEW j \in Ids, TimeoutRecords(j) PROVE LaneExcludes'
  BY <1>5 DEF TimeoutRecords, Finish, Record, NewColumns, Release, Forget, Terminal, Exclusion,
     RowsAndProcs, OneEach, Slots, LaneExcludes, TypeOK
<1>6. ASSUME NEW j \in Ids, RaceReturns(j) PROVE LaneExcludes'
  BY <1>6 DEF RaceReturns, Record, NewColumns, Release, Forget, Terminal, Exclusion, RowsAndProcs,
     OneEach, Slots, LaneExcludes, TypeOK
<1>7. ASSUME NEW j \in Ids, DrainReturns(j) PROVE LaneExcludes'
  BY <1>7 DEF DrainReturns, Finish, Goto, Record, NewColumns, Release, Forget, Terminal, Exclusion,
     RowsAndProcs, OneEach, Slots, LaneExcludes, TypeOK
<1>8. ASSUME UNCHANGED vars PROVE LaneExcludes'
  BY <1>8 DEF vars, Exclusion, RowsAndProcs, OneEach, Slots, LaneExcludes, TypeOK
<1>9. ASSUME NEW b \in BOOLEAN, SetPaused(b) PROVE LaneExcludes'
  BY <1>9 DEF SetPaused, Exclusion, RowsAndProcs, OneEach, Slots, LaneExcludes, TypeOK
<1>10. ASSUME NEW j \in Ids, CancelQueued(j) PROVE LaneExcludes'
  BY <1>10 DEF CancelQueued, Exclusion, RowsAndProcs, OneEach, Slots, LaneExcludes, TypeOK
<1>11. ASSUME NEW j \in Ids, CancelSlot(j) PROVE LaneExcludes'
  BY <1>11 DEF CancelSlot, Exclusion, RowsAndProcs, OneEach, Slots, LaneExcludes, TypeOK
<1>12. ASSUME NEW j \in Ids, CancelFrozen(j) PROVE LaneExcludes'
  BY <1>12 DEF CancelFrozen, Exclusion, RowsAndProcs, OneEach, Slots, LaneExcludes, TypeOK
<1>13. ASSUME NEW j \in Ids, WorkerStart(j) PROVE LaneExcludes'
  BY <1>13 DEF WorkerStart, Begin, LaneBusy, IsHead, Queued, Active, Exclusion, RowsAndProcs, OneEach,
     Slots, LaneExcludes, TypeOK
<1>14. ASSUME NEW j \in Ids, LaneStart(j) PROVE LaneExcludes'
  BY <1>14 DEF LaneStart, Begin, IsHead, Queued, Active, Exclusion, RowsAndProcs, OneEach, Slots,
     LaneExcludes, TypeOK
<1>15. ASSUME NEW j \in Ids, SpawnReturns(j) PROVE LaneExcludes'
  BY <1>15 DEF SpawnReturns, Exclusion, RowsAndProcs, OneEach, Slots, LaneExcludes, TypeOK
<1>16. ASSUME NEW j \in Ids, WaitReturns(j) PROVE LaneExcludes'
  BY <1>16 DEF WaitReturns, Goto, Exclusion, RowsAndProcs, OneEach, Slots, LaneExcludes, TypeOK
<1>17. ASSUME NEW j \in Ids, TimeoutFires(j) PROVE LaneExcludes'
  BY <1>17 DEF TimeoutFires, Goto, Exclusion, RowsAndProcs, OneEach, Slots, LaneExcludes, TypeOK
<1>18. ASSUME AdoptLane PROVE LaneExcludes'
  BY <1>18 DEF AdoptLane, Active, Exclusion, RowsAndProcs, OneEach, Slots, LaneExcludes, TypeOK
<1>19. ASSUME LaneEnds PROVE LaneExcludes'
  BY <1>19 DEF LaneEnds, Resume, Active, Stopping, Exclusion, RowsAndProcs, OneEach, Slots,
     LaneExcludes, TypeOK
<1>20. ASSUME NEW j \in Ids, NEW how \in Gone, Exit(j, how) PROVE LaneExcludes'
  BY <1>20 DEF Exit, Exclusion, RowsAndProcs, OneEach, Slots, LaneExcludes, TypeOK
<1>21. ASSUME NEW j \in Ids, KillGroup(j) PROVE LaneExcludes'
  BY <1>21 DEF KillGroup, Exit, Exclusion, RowsAndProcs, OneEach, Slots, LaneExcludes, TypeOK
<1>22. ASSUME StopSignal PROVE LaneExcludes'
  BY <1>22 DEF StopSignal, Exclusion, RowsAndProcs, OneEach, Slots, LaneExcludes, TypeOK
<1>23. ASSUME ShutdownKills PROVE LaneExcludes'
  BY <1>23 DEF ShutdownKills, ShutdownTargets, Exclusion, RowsAndProcs, OneEach, Slots, LaneExcludes,
     TypeOK
<1>24. ASSUME ShutdownExits PROVE LaneExcludes'
  BY <1>24 DEF ShutdownExits, ForgetMemory, Exclusion, RowsAndProcs, OneEach, Slots, LaneExcludes, TypeOK
<1>25. ASSUME NEW survive \in BOOLEAN, Crash(survive) PROVE LaneExcludes'
  BY <1>25 DEF Crash, ForgetMemory, Exclusion, RowsAndProcs, OneEach, Slots, LaneExcludes, TypeOK
<1>26. ASSUME Start PROVE LaneExcludes'
  BY <1>26 DEF Start, OneOf, Exclusion, RowsAndProcs, OneEach, Slots, LaneExcludes, TypeOK
<1> QED
  BY <1>1, <1>2, <1>3, <1>4, <1>5, <1>6, <1>7, <1>8, <1>9, <1>10, <1>11, <1>12, <1>13, <1>14, <1>15,
     <1>16, <1>17, <1>18, <1>19, <1>20, <1>21, <1>22, <1>23, <1>24, <1>25, <1>26 DEF Next, Request,
     Runner, Stop

(* Every step keeps Exclusion. *)
LEMMA ExclusionStep ==
    ASSUME NowDuringSpawn = FALSE, TypeOK, Exclusion, [Next]_vars
    PROVE  Exclusion'
BY GroundedStep, LaneExcludesStep DEF Exclusion, Grounded

(* Exclusion is invariant: it is inductive with the type invariant. *)
THEOREM ExclusionInvariant == ASSUME NowDuringSpawn = FALSE PROVE Spec => []Exclusion
<1>1. Init => TypeOK /\ Exclusion
  BY TypeInit, ExclusionInit
<1>2. TypeOK /\ Exclusion /\ [Next]_vars => (TypeOK /\ Exclusion)'
  BY TypeStep, ExclusionStep
<1> QED
  BY <1>1, <1>2, PTL DEF Spec

(* README.md:145: two jobs of a channel never run at once, for every number *)
(* of jobs, retries, stops and crashes, unless one of them has been told to *)
(* end; the one condition is that no `--now` arrives during a spawn.        *)
THEOREM ExclusiveChannel == ASSUME NowDuringSpawn = FALSE PROVE Spec => []OneAtATime
<1>1. TypeOK /\ Exclusion => OneAtATime
  <2> SUFFICES ASSUME TypeOK, Exclusion, NEW i \in Ids, NEW j \in Ids, Running(i), Running(j)
               PROVE  i = j
    BY DEF OneAtATime
  <2>1. CASE prio[i] = prio[j]
    BY <2>1 DEF Running, Exclusion, OneEach
  <2>2. CASE prio[i] /\ ~prio[j]
    BY <2>2 DEF Running, Exclusion, OneEach, LaneExcludes
  <2>3. CASE ~prio[i] /\ prio[j]
    BY <2>3 DEF Running, Exclusion, OneEach, LaneExcludes
  <2> QED
    BY <2>1, <2>2, <2>3 DEF TypeOK
<1> QED
  BY <1>1, TypeCorrect, ExclusionInvariant, PTL
=============================================================================
