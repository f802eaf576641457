---------------------------- MODULE QueueProofs ----------------------------
(***************************************************************************)
(* The proof that a channel of the daemon (module Channel) implements the  *)
(* serial queue with an express lane of module SerialQueue, as long as no  *)
(* `--now` job arrives while a normal job's process is being created; and  *)
(* that no job of it is ever left without somebody to look after it.       *)
(***************************************************************************)
EXTENDS ChannelProofs

(* What the refinement needs beyond Exclusion: rows and processes of jobs    *)
(* that are waited for, ids in use, and whose turn it is.                    *)
Open == {"running", "stopped"}

RowsOpen == \A j \in Ids : pc[j] \in Waiting => row[j] \in Open /\ proc[j] # "none"
EndedSeen == \A j \in Ids : pc[j] \in {"drain", "race"} => proc[j] \in Gone
IdsUsed == \A j \in Ids : /\ j < nextId => row[j] # "none"
                          /\ row[j] = "none" => ~prio[j]
FirstSpawned ==
    \A i, j \in Ids : pc[j] = "spawn" /\ row[i] = "queued" =>
        /\ prio[i] = prio[j] => j <= i
        /\ ~prio[j] => ~prio[i]

Placed == RowsOpen /\ EndedSeen /\ IdsUsed
Turns == RowsOpen /\ EndedSeen /\ IdsUsed /\ FirstSpawned

(* A new row is behind every job whose turn it is. *)
LEMMA SpawnedAfterAdd ==
    ASSUME TypeOK, RowsAndProcs, FirstSpawned, NEW p \in BOOLEAN, NEW t, NEW r, NEW from, NewColumns(p, t, r, from),
           p => \A k \in Ids : pc[k] = "spawn" => prio[k],
           \A k \in Ids : k # nextId /\ row'[k] = "queued" => row[k] = "queued",
           \A k \in Ids : pc'[k] = "spawn" => pc[k] = "spawn"
    PROVE  FirstSpawned'
<1>1. /\ nextId \in Ids /\ row[nextId] = "none" /\ pc[nextId] = "idle"
      /\ prio'[nextId] = p /\ \A k \in Ids : k # nextId => prio'[k] = prio[k]
  BY NewRowIsIdle
<1> SUFFICES ASSUME NEW i \in Ids, NEW j \in Ids, pc'[j] = "spawn", row'[i] = "queued"
             PROVE  (prio'[i] = prio'[j] => j <= i) /\ (~prio'[j] => ~prio'[i])
  BY DEF FirstSpawned
<1>2. pc[j] = "spawn" /\ row[j] = "queued" /\ j # nextId /\ prio'[j] = prio[j]
  BY <1>1 DEF RowsAndProcs
<1>3. CASE i = nextId
  <2>1. j < nextId
    BY <1>2, ConstantsOK DEF RowsAndProcs, TypeOK, Ids, ConstantsOK
  <2> QED
    BY <1>1, <1>2, <1>3, <2>1, ConstantsOK DEF TypeOK, Ids, ConstantsOK
<1>4. CASE i # nextId
  BY <1>1, <1>2, <1>4 DEF FirstSpawned
<1> QED
  BY <1>3, <1>4

(* An outcome and its retry move nobody in front of a job whose turn it is. *)
LEMMA SpawnedAfterRecord ==
    ASSUME TypeOK, RowsAndProcs, FirstSpawned, NEW j \in Ids, NEW st \in Terminal, Record(j, st),
           \A k \in Ids : pc'[k] = "spawn" => pc[k] = "spawn"
    PROVE  FirstSpawned'
<1>1. CASE st = "failed" /\ left[j] > 0
  <2>1. NewColumns(FALSE, timed[j], left[j] - 1, j) /\ row' = [row EXCEPT ![j] = st, ![nextId] = "queued"]
    BY <1>1 DEF Record
  <2>2. \A k \in Ids : k # nextId /\ row'[k] = "queued" => row[k] = "queued"
    BY <2>1 DEF TypeOK, Terminal
  <2> QED
    BY <2>1, <2>2, SpawnedAfterAdd
<1>2. CASE ~(st = "failed" /\ left[j] > 0)
  <2>1. row' = [row EXCEPT ![j] = st] /\ prio' = prio
    BY <1>2 DEF Record, columns
  <2>2. \A k \in Ids : row'[k] = "queued" => row[k] = "queued"
    BY <2>1 DEF TypeOK, Terminal
  <2> QED
    BY <2>1, <2>2 DEF FirstSpawned
<1> QED
  BY <1>1, <1>2

(* ... and leave the ids in use in use. *)
LEMMA IdsAfterRecord ==
    ASSUME TypeOK, RowsAndProcs, IdsUsed, NEW j \in Ids, row[j] # "none", NEW st \in Terminal, Record(j, st)
    PROVE  IdsUsed'
<1>1. CASE st = "failed" /\ left[j] > 0
  <2>1. NewColumns(FALSE, timed[j], left[j] - 1, j) /\ row' = [row EXCEPT ![j] = st, ![nextId] = "queued"]
    BY <1>1 DEF Record
  <2>2. /\ nextId \in Ids /\ nextId' = nextId + 1
        /\ \A k \in Ids : k # nextId => prio'[k] = prio[k]
    BY <2>1, NewRowIsIdle
  <2>3. ASSUME NEW k \in Ids PROVE (k < nextId' => row'[k] # "none") /\ (row'[k] = "none" => ~prio'[k])
    BY <2>1, <2>2, ConstantsOK DEF IdsUsed, TypeOK, Terminal, Ids, ConstantsOK
  <2> QED
    BY <2>3 DEF IdsUsed
<1>2. CASE ~(st = "failed" /\ left[j] > 0)
  <2>1. row' = [row EXCEPT ![j] = st] /\ prio' = prio /\ nextId' = nextId
    BY <1>2 DEF Record, columns
  <2> QED
    BY <2>1 DEF IdsUsed, TypeOK, Terminal
<1> QED
  BY <1>1, <1>2

(* ... and the rows of the jobs still waited for open. *)
LEMMA OpenAfterRecord ==
    ASSUME TypeOK, RowsAndProcs, RowsOpen, NEW j \in Ids, NEW st \in Terminal, Record(j, st),
           \A k \in Ids : pc'[k] # "idle" => k # j /\ pc'[k] = pc[k] /\ proc'[k] = proc[k]
    PROVE  RowsOpen'
<1> SUFFICES ASSUME NEW k \in Ids, pc'[k] \in Waiting PROVE row'[k] \in Open /\ proc'[k] # "none"
  BY DEF RowsOpen
<1>1. k # j /\ pc[k] \in Waiting /\ row[k] \in Open /\ proc'[k] # "none"
  BY DEF RowsOpen, Waiting
<1>2. row[k] # "none"
  BY <1>1 DEF Open
<1>3. CASE st = "failed" /\ left[j] > 0
  <2>1. NewColumns(FALSE, timed[j], left[j] - 1, j) /\ row' = [row EXCEPT ![j] = st, ![nextId] = "queued"]
    BY <1>3 DEF Record
  <2>2. k # nextId
    BY <1>2, <2>1, NewRowIsIdle
  <2> QED
    BY <1>1, <2>1, <2>2 DEF TypeOK
<1>4. CASE ~(st = "failed" /\ left[j] > 0)
  BY <1>1, <1>4 DEF Record, TypeOK
<1> QED
  BY <1>3, <1>4

(* Every step keeps the rows of the jobs waited for open, and the ids in use. *)
LEMMA PlacedStep ==
    ASSUME TypeOK, Grounded, Placed, [Next]_vars
    PROVE  Placed'
<1> USE ConstantsOK DEF ConstantsOK, Open, Ids, vars, db, columns, lane, observers, Waiting, Unborn, Live, Gone, None, Serving, Terminal, TypeOK
<1>1. ASSUME NEW t \in BOOLEAN, NEW r \in 0..MaxRetries, AddNormal(t, r) PROVE Placed'
  <2>1. RowsOpen'
    BY <1>1 DEF AddNormal, CanAdd, NewColumns, Placed, Grounded, RowsOpen, RowsAndProcs, Slots
  <2>2. EndedSeen'
    BY <1>1 DEF AddNormal, CanAdd, NewColumns, Placed, Grounded, EndedSeen, RowsAndProcs
  <2>3. IdsUsed'
    BY <1>1 DEF AddNormal, CanAdd, NewColumns, Placed, Grounded, IdsUsed, RowsAndProcs
  <2> QED
    BY <2>1, <2>2, <2>3 DEF Placed
<1>2. ASSUME NEW t \in BOOLEAN, NEW r \in 0..MaxRetries, AddNow(t, r) PROVE Placed'
  <2>1. RowsOpen'
    BY <1>2 DEF AddNow, CanAdd, NewColumns, WillFreeze, NowMayArrive, Active, Placed, Grounded,
       RowsOpen, RowsAndProcs, Slots
  <2>2. EndedSeen'
    BY <1>2 DEF AddNow, CanAdd, NewColumns, WillFreeze, NowMayArrive, Active, Placed, Grounded,
       EndedSeen, RowsAndProcs
  <2>3. IdsUsed'
    BY <1>2 DEF AddNow, CanAdd, NewColumns, WillFreeze, NowMayArrive, Active, Placed, Grounded,
       IdsUsed, RowsAndProcs
  <2> QED
    BY <2>1, <2>2, <2>3 DEF Placed
<1>3. ASSUME NEW t \in BOOLEAN, NEW r \in 0..MaxRetries, AddNowRaises(t, r) PROVE Placed'
  <2>1. RowsOpen'
    BY <1>3 DEF AddNowRaises, CanAdd, NewColumns, WillFreeze, NowMayArrive, Active, Placed, Grounded,
       RowsOpen, RowsAndProcs, Slots
  <2>2. EndedSeen'
    BY <1>3 DEF AddNowRaises, CanAdd, NewColumns, WillFreeze, NowMayArrive, Active, Placed, Grounded,
       EndedSeen, RowsAndProcs
  <2>3. IdsUsed'
    BY <1>3 DEF AddNowRaises, CanAdd, NewColumns, WillFreeze, NowMayArrive, Active, Placed, Grounded,
       IdsUsed, RowsAndProcs
  <2> QED
    BY <2>1, <2>2, <2>3 DEF Placed
<1>4. ASSUME NEW b \in BOOLEAN, SetPaused(b) PROVE Placed'
  <2>1. RowsOpen'
    BY <1>4 DEF SetPaused, Placed, Grounded, RowsOpen, RowsAndProcs, Slots
  <2>2. EndedSeen'
    BY <1>4 DEF SetPaused, Placed, Grounded, EndedSeen, RowsAndProcs
  <2>3. IdsUsed'
    BY <1>4 DEF SetPaused, Placed, Grounded, IdsUsed, RowsAndProcs
  <2> QED
    BY <2>1, <2>2, <2>3 DEF Placed
<1>5. ASSUME NEW j \in Ids, CancelQueued(j) PROVE Placed'
  <2>1. RowsOpen'
    BY <1>5 DEF CancelQueued, Placed, Grounded, RowsOpen, RowsAndProcs, Slots
  <2>2. EndedSeen'
    BY <1>5 DEF CancelQueued, Placed, Grounded, EndedSeen, RowsAndProcs
  <2>3. IdsUsed'
    BY <1>5 DEF CancelQueued, Placed, Grounded, IdsUsed, RowsAndProcs
  <2> QED
    BY <2>1, <2>2, <2>3 DEF Placed
<1>6. ASSUME NEW j \in Ids, CancelSlot(j) PROVE Placed'
  <2>1. RowsOpen'
    BY <1>6 DEF CancelSlot, Placed, Grounded, RowsOpen, RowsAndProcs, Slots
  <2>2. EndedSeen'
    BY <1>6 DEF CancelSlot, Placed, Grounded, EndedSeen, RowsAndProcs
  <2>3. IdsUsed'
    BY <1>6 DEF CancelSlot, Placed, Grounded, IdsUsed, RowsAndProcs
  <2> QED
    BY <2>1, <2>2, <2>3 DEF Placed
<1>7. ASSUME NEW j \in Ids, CancelFrozen(j) PROVE Placed'
  <2>1. RowsOpen'
    BY <1>7 DEF CancelFrozen, Placed, Grounded, RowsOpen, RowsAndProcs, Slots
  <2>2. EndedSeen'
    BY <1>7 DEF CancelFrozen, Placed, Grounded, EndedSeen, RowsAndProcs
  <2>3. IdsUsed'
    BY <1>7 DEF CancelFrozen, Placed, Grounded, IdsUsed, RowsAndProcs
  <2> QED
    BY <2>1, <2>2, <2>3 DEF Placed
<1>8. ASSUME NEW j \in Ids, WorkerStart(j) PROVE Placed'
  <2>1. RowsOpen'
    BY <1>8 DEF WorkerStart, Begin, LaneBusy, IsHead, Queued, Active, Placed, Grounded, RowsOpen,
       RowsAndProcs, Slots
  <2>2. EndedSeen'
    BY <1>8 DEF WorkerStart, Begin, LaneBusy, IsHead, Queued, Active, Placed, Grounded, EndedSeen,
       RowsAndProcs
  <2>3. IdsUsed'
    BY <1>8 DEF WorkerStart, Begin, LaneBusy, IsHead, Queued, Active, Placed, Grounded, IdsUsed,
       RowsAndProcs
  <2> QED
    BY <2>1, <2>2, <2>3 DEF Placed
<1>9. ASSUME NEW j \in Ids, LaneStart(j) PROVE Placed'
  <2>1. RowsOpen'
    BY <1>9 DEF LaneStart, Begin, IsHead, Queued, Active, Placed, Grounded, RowsOpen, RowsAndProcs, Slots
  <2>2. EndedSeen'
    BY <1>9 DEF LaneStart, Begin, IsHead, Queued, Active, Placed, Grounded, EndedSeen, RowsAndProcs
  <2>3. IdsUsed'
    BY <1>9 DEF LaneStart, Begin, IsHead, Queued, Active, Placed, Grounded, IdsUsed, RowsAndProcs
  <2> QED
    BY <2>1, <2>2, <2>3 DEF Placed
<1>10. ASSUME NEW j \in Ids, SpawnReturns(j) PROVE Placed'
  <2>1. RowsOpen'
    BY <1>10 DEF SpawnReturns, Placed, Grounded, RowsOpen, RowsAndProcs, Slots
  <2>2. EndedSeen'
    BY <1>10 DEF SpawnReturns, Placed, Grounded, EndedSeen, RowsAndProcs
  <2>3. IdsUsed'
    BY <1>10 DEF SpawnReturns, Placed, Grounded, IdsUsed, RowsAndProcs
  <2> QED
    BY <2>1, <2>2, <2>3 DEF Placed
<1>11. ASSUME NEW j \in Ids, SpawnFails(j) PROVE Placed'
  <2>1. RowsOpen'
    BY <1>11 DEF SpawnFails, Record, NewColumns, Placed, Grounded, RowsOpen, RowsAndProcs, Slots
  <2>2. EndedSeen'
    BY <1>11 DEF SpawnFails, Record, NewColumns, Placed, Grounded, EndedSeen, RowsAndProcs
  <2>3. IdsUsed'
    BY <1>11, IdsAfterRecord DEF SpawnFails, Placed, Grounded, RowsAndProcs
  <2> QED
    BY <2>1, <2>2, <2>3 DEF Placed
<1>12. ASSUME NEW j \in Ids, WaitReturns(j) PROVE Placed'
  <2>1. RowsOpen'
    BY <1>12 DEF WaitReturns, Goto, Placed, Grounded, RowsOpen, RowsAndProcs, Slots
  <2>2. EndedSeen'
    BY <1>12 DEF WaitReturns, Goto, Placed, Grounded, EndedSeen, RowsAndProcs
  <2>3. IdsUsed'
    BY <1>12 DEF WaitReturns, Goto, Placed, Grounded, IdsUsed, RowsAndProcs
  <2> QED
    BY <2>1, <2>2, <2>3 DEF Placed
<1>13. ASSUME NEW j \in Ids, TimeoutFires(j) PROVE Placed'
  <2>1. RowsOpen'
    BY <1>13 DEF TimeoutFires, Goto, Placed, Grounded, RowsOpen, RowsAndProcs, Slots
  <2>2. EndedSeen'
    BY <1>13 DEF TimeoutFires, Goto, Placed, Grounded, EndedSeen, RowsAndProcs
  <2>3. IdsUsed'
    BY <1>13 DEF TimeoutFires, Goto, Placed, Grounded, IdsUsed, RowsAndProcs
  <2> QED
    BY <2>1, <2>2, <2>3 DEF Placed
<1>14. ASSUME NEW j \in Ids, TimeoutRecords(j) PROVE Placed'
  <2>1. RowsOpen'
    BY <1>14, SMTT(30) DEF TimeoutRecords, Finish, Forget, Record, NewColumns, Placed, Grounded, RowsOpen,
       RowsAndProcs, Slots
  <2>2. EndedSeen'
    BY <1>14 DEF TimeoutRecords, Finish, Forget, Record, NewColumns, Placed, Grounded, EndedSeen,
       RowsAndProcs
  <2>3. IdsUsed'
    BY <1>14, SMTT(30) DEF TimeoutRecords, Finish, Forget, Record, NewColumns, Placed, Grounded, IdsUsed,
       RowsAndProcs
  <2> QED
    BY <2>1, <2>2, <2>3 DEF Placed
<1>15. ASSUME NEW j \in Ids, DrainReturns(j) PROVE Placed'
  <2>1. RowsOpen'
    <3>1. CASE \E st \in Terminal : Finish(j, st)
      BY <1>15, <3>1, OpenAfterRecord DEF DrainReturns, Finish, Forget, Placed, Grounded
    <3>2. CASE Goto(j, "drain", "race") /\ UNCHANGED <<db, phase, lane, cancelled, proc, dying,
       condemned, stops, observers>>
      BY <3>2 DEF Goto, Placed, RowsOpen
    <3> QED
      BY <1>15, <3>1, <3>2 DEF DrainReturns
  <2>2. EndedSeen'
    BY <1>15, SMTT(30) DEF DrainReturns, Goto, Finish, Forget, Record, NewColumns, Placed, Grounded, EndedSeen,
       RowsAndProcs
  <2>3. IdsUsed'
    <3>1. CASE \E st \in Terminal : Finish(j, st)
      BY <1>15, <3>1, IdsAfterRecord DEF DrainReturns, Finish, Forget, Placed, Grounded, RowsAndProcs
    <3>2. CASE Goto(j, "drain", "race") /\ UNCHANGED <<db, phase, lane, cancelled, proc, dying,
       condemned, stops, observers>>
      BY <3>2 DEF Goto, Placed, IdsUsed
    <3> QED
      BY <1>15, <3>1, <3>2 DEF DrainReturns
  <2> QED
    BY <2>1, <2>2, <2>3 DEF Placed
<1>16. ASSUME NEW j \in Ids, RaceReturns(j) PROVE Placed'
  <2>1. RowsOpen'
    BY <1>16, SMTT(30) DEF RaceReturns, Forget, Record, NewColumns, Placed, Grounded, RowsOpen, RowsAndProcs, Slots
  <2>2. EndedSeen'
    BY <1>16 DEF RaceReturns, Forget, Record, NewColumns, Placed, Grounded, EndedSeen, RowsAndProcs
  <2>3. IdsUsed'
    BY <1>16, IdsAfterRecord DEF RaceReturns, Placed, Grounded, RowsAndProcs
  <2> QED
    BY <2>1, <2>2, <2>3 DEF Placed
<1>17. ASSUME AdoptLane PROVE Placed'
  <2>1. RowsOpen'
    BY <1>17 DEF AdoptLane, Placed, Grounded, RowsOpen, RowsAndProcs, Slots
  <2>2. EndedSeen'
    BY <1>17 DEF AdoptLane, Placed, Grounded, EndedSeen, RowsAndProcs
  <2>3. IdsUsed'
    BY <1>17 DEF AdoptLane, Placed, Grounded, IdsUsed, RowsAndProcs
  <2> QED
    BY <2>1, <2>2, <2>3 DEF Placed
<1>18. ASSUME LaneEnds PROVE Placed'
  <2>1. RowsOpen'
    BY <1>18 DEF LaneEnds, Resume, Placed, Grounded, RowsOpen, RowsAndProcs, Slots
  <2>2. EndedSeen'
    BY <1>18 DEF LaneEnds, Resume, Placed, Grounded, EndedSeen, RowsAndProcs
  <2>3. IdsUsed'
    BY <1>18 DEF LaneEnds, Resume, Placed, Grounded, IdsUsed, RowsAndProcs
  <2> QED
    BY <2>1, <2>2, <2>3 DEF Placed
<1>19. ASSUME NEW j \in Ids, NEW how \in Gone, Exit(j, how) PROVE Placed'
  <2>1. RowsOpen'
    BY <1>19 DEF Exit, Placed, Grounded, RowsOpen, RowsAndProcs, Slots
  <2>2. EndedSeen'
    BY <1>19 DEF Exit, Placed, Grounded, EndedSeen, RowsAndProcs
  <2>3. IdsUsed'
    BY <1>19 DEF Exit, Placed, Grounded, IdsUsed, RowsAndProcs
  <2> QED
    BY <2>1, <2>2, <2>3 DEF Placed
<1>20. ASSUME NEW j \in Ids, KillGroup(j) PROVE Placed'
  <2>1. RowsOpen'
    BY <1>20 DEF KillGroup, Exit, Placed, Grounded, RowsOpen, RowsAndProcs, Slots
  <2>2. EndedSeen'
    BY <1>20 DEF KillGroup, Exit, Placed, Grounded, EndedSeen, RowsAndProcs
  <2>3. IdsUsed'
    BY <1>20 DEF KillGroup, Exit, Placed, Grounded, IdsUsed, RowsAndProcs
  <2> QED
    BY <2>1, <2>2, <2>3 DEF Placed
<1>21. ASSUME StopSignal PROVE Placed'
  <2>1. RowsOpen'
    BY <1>21 DEF StopSignal, Placed, Grounded, RowsOpen, RowsAndProcs, Slots
  <2>2. EndedSeen'
    BY <1>21 DEF StopSignal, Placed, Grounded, EndedSeen, RowsAndProcs
  <2>3. IdsUsed'
    BY <1>21 DEF StopSignal, Placed, Grounded, IdsUsed, RowsAndProcs
  <2> QED
    BY <2>1, <2>2, <2>3 DEF Placed
<1>22. ASSUME ShutdownKills PROVE Placed'
  <2>1. RowsOpen'
    BY <1>22 DEF ShutdownKills, ShutdownTargets, Placed, Grounded, RowsOpen, RowsAndProcs, Slots
  <2>2. EndedSeen'
    BY <1>22 DEF ShutdownKills, ShutdownTargets, Placed, Grounded, EndedSeen, RowsAndProcs
  <2>3. IdsUsed'
    BY <1>22 DEF ShutdownKills, ShutdownTargets, Placed, Grounded, IdsUsed, RowsAndProcs
  <2> QED
    BY <2>1, <2>2, <2>3 DEF Placed
<1>23. ASSUME ShutdownExits PROVE Placed'
  <2>1. RowsOpen'
    BY <1>23 DEF ShutdownExits, ForgetMemory, Placed, Grounded, RowsOpen, RowsAndProcs, Slots
  <2>2. EndedSeen'
    BY <1>23 DEF ShutdownExits, ForgetMemory, Placed, Grounded, EndedSeen, RowsAndProcs
  <2>3. IdsUsed'
    BY <1>23 DEF ShutdownExits, ForgetMemory, Placed, Grounded, IdsUsed, RowsAndProcs
  <2> QED
    BY <2>1, <2>2, <2>3 DEF Placed
<1>24. ASSUME NEW survive \in BOOLEAN, Crash(survive) PROVE Placed'
  <2>1. RowsOpen'
    BY <1>24 DEF Crash, ForgetMemory, Placed, Grounded, RowsOpen, RowsAndProcs, Slots
  <2>2. EndedSeen'
    BY <1>24 DEF Crash, ForgetMemory, Placed, Grounded, EndedSeen, RowsAndProcs
  <2>3. IdsUsed'
    BY <1>24 DEF Crash, ForgetMemory, Placed, Grounded, IdsUsed, RowsAndProcs
  <2> QED
    BY <2>1, <2>2, <2>3 DEF Placed
<1>25. ASSUME Start PROVE Placed'
  <2>1. RowsOpen'
    BY <1>25 DEF Start, OneOf, Placed, Grounded, RowsOpen, OneEach
  <2>2. EndedSeen'
    BY <1>25 DEF Start, OneOf, Placed, Grounded, EndedSeen, RowsAndProcs
  <2>3. IdsUsed'
    BY <1>25 DEF Start, OneOf, Placed, Grounded, IdsUsed, RowsAndProcs
  <2> QED
    BY <2>1, <2>2, <2>3 DEF Placed
<1>26. ASSUME UNCHANGED vars PROVE Placed'
  <2>1. RowsOpen'
    BY <1>26 DEF vars, Placed, Grounded, RowsOpen, RowsAndProcs, Slots
  <2>2. EndedSeen'
    BY <1>26 DEF vars, Placed, Grounded, EndedSeen, RowsAndProcs
  <2>3. IdsUsed'
    BY <1>26 DEF vars, Placed, Grounded, IdsUsed, RowsAndProcs
  <2> QED
    BY <2>1, <2>2, <2>3 DEF Placed
<1> QED
  BY <1>1, <1>2, <1>3, <1>4, <1>5, <1>6, <1>7, <1>8, <1>9, <1>10, <1>11, <1>12, <1>13, <1>14, <1>15,
     <1>16, <1>17, <1>18, <1>19, <1>20, <1>21, <1>22, <1>23, <1>24, <1>25, <1>26 DEF Next, Request,
     Runner, Stop

(* Every step keeps the turns. *)
LEMMA FirstSpawnedStep ==
    ASSUME NowDuringSpawn = FALSE, TypeOK, Exclusion, Turns, [Next]_vars
    PROVE  FirstSpawned'
<1> USE ConstantsOK DEF ConstantsOK, Open, Ids, vars, db, columns, lane, observers, Waiting, Unborn, Live, Gone, None, Serving, Terminal, TypeOK
<1>1. ASSUME NEW t \in BOOLEAN, NEW r \in 0..MaxRetries, AddNormal(t, r) PROVE FirstSpawned'
  <2>1. /\ NewColumns(FALSE, t, r, None) /\ pc' = pc
        /\ \A k \in Ids : k # nextId /\ row'[k] = "queued" => row[k] = "queued"
    BY <1>1 DEF AddNormal
  <2> QED
    BY <2>1, SpawnedAfterAdd DEF Turns, Exclusion
<1>2. ASSUME NEW t \in BOOLEAN, NEW r \in 0..MaxRetries, AddNow(t, r) PROVE FirstSpawned'
  <2>1. /\ NewColumns(TRUE, t, r, None) /\ pc' = pc
        /\ \A k \in Ids : k # nextId /\ row'[k] = "queued" => row[k] = "queued"
    BY <1>2 DEF AddNow, WillFreeze
  <2>2. \A k \in Ids : pc[k] = "spawn" => prio[k]
    BY <1>2 DEF AddNow, NowMayArrive, Active
  <2> QED
    BY <2>1, <2>2, SpawnedAfterAdd DEF Turns, Exclusion
<1>3. ASSUME NEW t \in BOOLEAN, NEW r \in 0..MaxRetries, AddNowRaises(t, r) PROVE FirstSpawned'
  <2>1. /\ NewColumns(TRUE, t, r, None) /\ pc' = pc
        /\ \A k \in Ids : k # nextId /\ row'[k] = "queued" => row[k] = "queued"
    BY <1>3 DEF AddNowRaises, WillFreeze
  <2>2. \A k \in Ids : pc[k] = "spawn" => prio[k]
    BY <1>3 DEF AddNowRaises, NowMayArrive, Active
  <2> QED
    BY <2>1, <2>2, SpawnedAfterAdd DEF Turns, Exclusion
<1>4. ASSUME NEW b \in BOOLEAN, SetPaused(b) PROVE FirstSpawned'
  BY <1>4 DEF SetPaused, Turns, Exclusion, FirstSpawned, IdsUsed, RowsAndProcs, OneEach, LaneExcludes
<1>5. ASSUME NEW j \in Ids, CancelQueued(j) PROVE FirstSpawned'
  BY <1>5 DEF CancelQueued, Turns, Exclusion, FirstSpawned, IdsUsed, RowsAndProcs, OneEach, LaneExcludes
<1>6. ASSUME NEW j \in Ids, CancelSlot(j) PROVE FirstSpawned'
  BY <1>6 DEF CancelSlot, Turns, Exclusion, FirstSpawned, IdsUsed, RowsAndProcs, OneEach, LaneExcludes
<1>7. ASSUME NEW j \in Ids, CancelFrozen(j) PROVE FirstSpawned'
  BY <1>7 DEF CancelFrozen, Turns, Exclusion, FirstSpawned, IdsUsed, RowsAndProcs, OneEach, LaneExcludes
<1>8. ASSUME NEW j \in Ids, WorkerStart(j) PROVE FirstSpawned'
  <2>1. /\ pc' = [pc EXCEPT ![j] = "spawn"] /\ UNCHANGED <<row, prio>>
        /\ ~prio[j] /\ \A i \in Ids : row[i] = "queued" => ~prio[i] /\ j <= i
    <3>1. pc' = [pc EXCEPT ![j] = "spawn"] /\ UNCHANGED <<row, prio>>
      BY <1>8 DEF WorkerStart, Begin, db
    <3>2. j \in Queued(FALSE) /\ Queued(TRUE) = {} /\ \A i \in Queued(FALSE) : j <= i
      BY <1>8 DEF WorkerStart, LaneBusy, IsHead
    <3>3. \A i \in Ids : row[i] = "queued" => i \in Queued(FALSE)
      BY <3>2 DEF Queued, TypeOK
    <3>4. \A i \in Queued(FALSE) : prio[i] = FALSE
      BY DEF Queued
    <3> QED
      BY <3>1, <3>2, <3>3, <3>4
  <2>2. \A i \in Ids \ {j} : pc'[i] = pc[i]
    BY <2>1
  <2>3. FirstSpawned
    BY DEF Turns
  <2>4. ASSUME NEW i \in Ids, NEW k \in Ids, pc'[k] = "spawn", row[i] = "queued"
        PROVE  (prio[i] = prio[k] => k <= i) /\ (~prio[k] => ~prio[i])
    <3>1. CASE k = j
      BY <3>1, <2>1, <2>4
    <3>2. CASE k # j
      BY <3>2, <2>2, <2>3, <2>4 DEF FirstSpawned
    <3> QED
      BY <3>1, <3>2
  <2> QED
    BY <2>1, <2>4 DEF FirstSpawned
<1>9. ASSUME NEW j \in Ids, LaneStart(j) PROVE FirstSpawned'
  BY <1>9 DEF LaneStart, Begin, IsHead, Queued, Active, Turns, Exclusion, FirstSpawned, IdsUsed,
     RowsAndProcs, OneEach, LaneExcludes
<1>10. ASSUME NEW j \in Ids, SpawnReturns(j) PROVE FirstSpawned'
  BY <1>10 DEF SpawnReturns, Turns, Exclusion, FirstSpawned, IdsUsed, RowsAndProcs, OneEach, LaneExcludes
<1>11. ASSUME NEW j \in Ids, SpawnFails(j) PROVE FirstSpawned'
  BY <1>11, SpawnedAfterRecord DEF SpawnFails, Turns, Exclusion
<1>12. ASSUME NEW j \in Ids, WaitReturns(j) PROVE FirstSpawned'
  BY <1>12 DEF WaitReturns, Goto, Turns, Exclusion, FirstSpawned, IdsUsed, RowsAndProcs, OneEach,
     LaneExcludes
<1>13. ASSUME NEW j \in Ids, TimeoutFires(j) PROVE FirstSpawned'
  BY <1>13 DEF TimeoutFires, Goto, Turns, Exclusion, FirstSpawned, IdsUsed, RowsAndProcs, OneEach,
     LaneExcludes
<1>14. ASSUME NEW j \in Ids, TimeoutRecords(j) PROVE FirstSpawned'
  BY <1>14, SpawnedAfterRecord DEF TimeoutRecords, Finish, Forget, Turns, Exclusion
<1>15. ASSUME NEW j \in Ids, DrainReturns(j) PROVE FirstSpawned'
  <2>1. CASE \E st \in Terminal : Finish(j, st)
    BY <1>15, <2>1, SpawnedAfterRecord DEF DrainReturns, Finish, Forget, Turns, Exclusion
  <2>2. CASE Goto(j, "drain", "race") /\ UNCHANGED <<db, phase, lane, cancelled, proc, dying,
     condemned, stops, observers>>
    BY <2>2 DEF Goto, Turns, FirstSpawned
  <2> QED
    BY <1>15, <2>1, <2>2 DEF DrainReturns
<1>16. ASSUME NEW j \in Ids, RaceReturns(j) PROVE FirstSpawned'
  BY <1>16, SpawnedAfterRecord DEF RaceReturns, Forget, Turns, Exclusion
<1>17. ASSUME AdoptLane PROVE FirstSpawned'
  BY <1>17 DEF AdoptLane, Turns, Exclusion, FirstSpawned, IdsUsed, RowsAndProcs, OneEach, LaneExcludes
<1>18. ASSUME LaneEnds PROVE FirstSpawned'
  BY <1>18 DEF LaneEnds, Resume, Turns, Exclusion, FirstSpawned, IdsUsed, RowsAndProcs, OneEach,
     LaneExcludes
<1>19. ASSUME NEW j \in Ids, NEW how \in Gone, Exit(j, how) PROVE FirstSpawned'
  BY <1>19 DEF Exit, Turns, Exclusion, FirstSpawned, IdsUsed, RowsAndProcs, OneEach, LaneExcludes
<1>20. ASSUME NEW j \in Ids, KillGroup(j) PROVE FirstSpawned'
  BY <1>20 DEF KillGroup, Exit, Turns, Exclusion, FirstSpawned, IdsUsed, RowsAndProcs, OneEach,
     LaneExcludes
<1>21. ASSUME StopSignal PROVE FirstSpawned'
  BY <1>21 DEF StopSignal, Turns, Exclusion, FirstSpawned, IdsUsed, RowsAndProcs, OneEach, LaneExcludes
<1>22. ASSUME ShutdownKills PROVE FirstSpawned'
  BY <1>22 DEF ShutdownKills, ShutdownTargets, Turns, Exclusion, FirstSpawned, IdsUsed, RowsAndProcs,
     OneEach, LaneExcludes
<1>23. ASSUME ShutdownExits PROVE FirstSpawned'
  BY <1>23 DEF ShutdownExits, ForgetMemory, Turns, Exclusion, FirstSpawned, IdsUsed, RowsAndProcs,
     OneEach, LaneExcludes
<1>24. ASSUME NEW survive \in BOOLEAN, Crash(survive) PROVE FirstSpawned'
  BY <1>24 DEF Crash, ForgetMemory, Turns, Exclusion, FirstSpawned, IdsUsed, RowsAndProcs, OneEach,
     LaneExcludes
<1>25. ASSUME Start PROVE FirstSpawned'
  BY <1>25 DEF Start, OneOf, Turns, Exclusion, FirstSpawned, IdsUsed, RowsAndProcs, OneEach, LaneExcludes
<1>26. ASSUME UNCHANGED vars PROVE FirstSpawned'
  BY <1>26 DEF vars, Turns, Exclusion, FirstSpawned, IdsUsed, RowsAndProcs, OneEach, LaneExcludes
<1> QED
  BY <1>1, <1>2, <1>3, <1>4, <1>5, <1>6, <1>7, <1>8, <1>9, <1>10, <1>11, <1>12, <1>13, <1>14, <1>15,
     <1>16, <1>17, <1>18, <1>19, <1>20, <1>21, <1>22, <1>23, <1>24, <1>25, <1>26 DEF Next, Request,
     Runner, Stop

(* Every step keeps Turns. *)
LEMMA TurnsStep ==
    ASSUME NowDuringSpawn = FALSE, TypeOK, Exclusion, Turns, [Next]_vars
    PROVE  Turns'
<1>1. Placed'
  BY PlacedStep DEF Exclusion, Grounded, Turns, Placed
<1> QED
  BY <1>1, FirstSpawnedStep DEF Turns, Placed

----------------------------------------------------------------------------
(* The stages of jobs, and the queue's view of a step.                     *)
USE DEF Terminal, Live

LEMMA StagesTyped == QueueStages \in [Ids -> Queue!Stages]
BY DEF QueueStages, QueueStage, Queue!Stages, Queue!InHand

LEMMA StagesTypedNext == QueueStages' \in [Ids -> Queue!Stages]
BY DEF QueueStages, QueueStage, Queue!Stages, Queue!InHand

(* A job is in hand only while it is waited for. *)
LEMMA InHandIsActive ==
    ASSUME NEW k \in Ids, QueueStage(k) \in Queue!InHand
    PROVE  pc[k] # "idle" /\ row[k] \notin Unborn \cup Terminal
BY DEF QueueStage, Queue!InHand, Unborn, Terminal

(* The next id is the next job to come. *)
LEMMA NextIdComes ==
    ASSUME TypeOK, RowsAndProcs, IdsUsed, nextId \in Ids
    PROVE  Queue!Comes(nextId)
<1>1. row[nextId] = "none" /\ \A i \in Ids : i < nextId => row[i] # "none"
  BY ConstantsOK DEF RowsAndProcs, IdsUsed, TypeOK, Ids, ConstantsOK
<1> QED
  BY <1>1 DEF Queue!Comes, QueueStages, QueueStage

(* A job whose process is being created is the first of its lane. *)
LEMMA SpawnedIsFirst ==
    ASSUME TypeOK, RowsAndProcs, FirstSpawned, NEW j \in Ids, pc[j] = "spawn"
    PROVE  Queue!FirstOfLane(j)
<1>1. row[j] = "queued" /\ QueueStages[j] = "waiting"
  BY DEF RowsAndProcs, QueueStages, QueueStage
<1>2. ASSUME NEW i \in Ids, QueueStages[i] = "waiting", i < j
      PROVE  (i \in Express) # (j \in Express)
  <2>1. row[i] = "queued"
    BY <1>2 DEF QueueStages, QueueStage
  <2>2. i \in Nat /\ j \in Nat /\ ~(j <= i)
    BY <1>2, ConstantsOK DEF Ids, ConstantsOK
  <2>3. prio[i] # prio[j]
    BY <2>1, <2>2 DEF FirstSpawned
  <2> QED
    BY <2>3 DEF Express, TypeOK
<1> QED
  BY <1>1, <1>2 DEF Queue!FirstOfLane, Queue!In

(* Jobs that are only told to end, or end, move to `closing`. *)
LEMMA ClosesIf ==
    ASSUME UNCHANGED Express,
           \A k \in Ids : QueueStage(k)' # QueueStage(k) =>
               QueueStage(k) \in {"working", "suspended", "waiting"} /\ QueueStage(k)' = "closing"
    PROVE  Queue!Seen
<1>1. Queue!Close
  BY StagesTypedNext DEF Queue!Close, Queue!Move, QueueStages
<1> QED
  BY <1>1 DEF Queue!Seen, Queue!Next

(* Nothing the queue knows of has changed. *)
LEMMA StuttersIf ==
    ASSUME UNCHANGED Express, \A k \in Ids : QueueStage(k)' = QueueStage(k)
    PROVE  Queue!Seen
BY DEF Queue!Seen, Queue!vars, QueueStages

(* The outcome of a job, with or without a retry, is a Finish of the queue. *)
LEMMA FinishesIf ==
    ASSUME TypeOK, RowsAndProcs, IdsUsed, NEW j \in Ids, NEW st \in Terminal, Record(j, st),
           QueueStage(j) \in {"closing", "waiting"}, dying' = dying,
           \A k \in Ids : k # j => pc'[k] = pc[k] /\ proc'[k] = proc[k]
    PROVE  Queue!Seen
<1>1. row[j] # "none"
  BY DEF QueueStage
<1>2. CASE st = "failed" /\ left[j] > 0
  <2>1. NewColumns(FALSE, timed[j], left[j] - 1, j) /\ row' = [row EXCEPT ![j] = st, ![nextId] = "queued"]
    BY <1>2 DEF Record
  <2>2. /\ nextId \in Ids /\ row[nextId] = "none" /\ ~prio'[nextId]
        /\ \A k \in Ids : k # nextId => prio'[k] = prio[k]
    BY <2>1, NewRowIsIdle
  <2>3. Express' = Express
    BY <2>2 DEF Express, IdsUsed
  <2>4. \A k \in Ids : QueueStage(k)' = IF k = nextId THEN "waiting" ELSE IF k = j THEN "over" ELSE QueueStage(k)
    BY <1>1, <2>1, <2>2 DEF QueueStage, TypeOK
  <2>5. QueueStages' = [QueueStages EXCEPT ![j] = "over", ![nextId] = "waiting"]
    BY <1>1, <2>2, <2>4 DEF QueueStages
  <2>6. Queue!Finish(j)
    BY <2>2, <2>3, <2>5, NextIdComes DEF Queue!Finish, QueueStages
  <2> QED
    BY <2>6 DEF Queue!Seen, Queue!Next
<1>3. CASE ~(st = "failed" /\ left[j] > 0)
  <2>1. row' = [row EXCEPT ![j] = st] /\ prio' = prio
    BY <1>3 DEF Record, columns
  <2>2. \A k \in Ids : QueueStage(k)' = IF k = j THEN "over" ELSE QueueStage(k)
    BY <2>1 DEF QueueStage, TypeOK
  <2>3. QueueStages' = [QueueStages EXCEPT ![j] = "over"] /\ Express' = Express
    BY <2>1, <2>2 DEF QueueStages, Express
  <2>4. Queue!Finish(j)
    BY <2>3 DEF Queue!Finish, QueueStages
  <2> QED
    BY <2>4 DEF Queue!Seen, Queue!Next
<1> QED
  BY <1>2, <1>3

(* A `--now` job is submitted, and at most the working normal job is suspended. *)
LEMMA ExpressIf ==
    ASSUME TypeOK, RowsAndProcs, IdsUsed, NEW t, NEW r, NewColumns(TRUE, t, r, None),
           NEW n \in Ids, n = nextId, QueueStage(n)' = "waiting", NEW s,
           \A k \in Ids \ {n} : QueueStage(k)' # QueueStage(k) =>
               k = s /\ ~prio[k] /\ QueueStage(k) = "working" /\ QueueStage(k)' = "suspended"
    PROVE  Queue!Seen
<1>1. /\ prio'[n] /\ \A k \in Ids : k # n => prio'[k] = prio[k]
  BY NewRowIsIdle
<1>2. Express' = Express \cup {n} /\ Queue!Comes(n)
  BY <1>1, NextIdComes DEF Express
<1>3. CASE \A k \in Ids \ {n} : QueueStage(k)' = QueueStage(k)
  <2>1. QueueStages' = [QueueStages EXCEPT ![n] = "waiting"]
    BY <1>1, <1>3 DEF QueueStages
  <2>2. Queue!SubmitExpress(n)
    BY <1>2, <2>1 DEF Queue!SubmitExpress
  <2> QED
    BY <1>1, <2>2 DEF Queue!Seen, Queue!Next
<1>4. CASE s \in Ids \ {n} /\ QueueStage(s)' # QueueStage(s)
  <2>1. QueueStages' = [QueueStages EXCEPT ![n] = "waiting", ![s] = "suspended"]
    BY <1>1, <1>4 DEF QueueStages
  <2>2. s \in Queue!In("working") \ Express
    BY <1>4 DEF Queue!In, QueueStages, Express
  <2>3. Queue!SubmitExpress(n)
    BY <1>2, <2>1, <2>2 DEF Queue!SubmitExpress
  <2> QED
    BY <1>1, <2>3 DEF Queue!Seen, Queue!Next
<1> QED
  BY <1>3, <1>4

(* Every step of the daemon is a step of the queue, or does not show in it. *)
LEMMA QueueStep ==
    ASSUME NowDuringSpawn = FALSE, TypeOK, Exclusion, Turns, [Next]_vars
    PROVE  Queue!Seen
<1> USE DEF vars, db, columns, lane, observers, Live, Gone, Waiting, Open
<1>1. ASSUME NEW t \in BOOLEAN, NEW r \in 0..MaxRetries, AddNormal(t, r) PROVE Queue!Seen
  <2>1. /\ NewColumns(FALSE, t, r, None) /\ row' = [row EXCEPT ![nextId] = "queued"]
        /\ UNCHANGED <<pc, proc, dying>>
    BY <1>1 DEF AddNormal
  <2>2. /\ nextId \in Ids /\ row[nextId] = "none" /\ ~prio'[nextId]
        /\ \A k \in Ids : k # nextId => prio'[k] = prio[k]
    BY <2>1, NewRowIsIdle DEF Exclusion
  <2>3. Express' = Express
    BY <2>2 DEF Express, Turns, IdsUsed
  <2>4. \A k \in Ids : QueueStage(k)' = IF k = nextId THEN "waiting" ELSE QueueStage(k)
    BY <2>1, <2>2 DEF QueueStage, TypeOK
  <2>5. QueueStages' = [QueueStages EXCEPT ![nextId] = "waiting"]
    BY <2>4 DEF QueueStages
  <2>6. Queue!Submit(nextId)
    BY <2>2, <2>3, <2>5, NextIdComes DEF Queue!Submit, Exclusion, Turns
  <2> QED
    BY <2>2, <2>6 DEF Queue!Seen, Queue!Next
<1>2. ASSUME NEW t \in BOOLEAN, NEW r \in 0..MaxRetries, AddNow(t, r) PROVE Queue!Seen
  <2>1. NewColumns(TRUE, t, r, None) /\ UNCHANGED <<pc, dying>>
    BY <1>2 DEF AddNow
  <2>2. nextId \in Ids /\ row[nextId] = "none"
    BY <2>1, NewRowIsIdle DEF Exclusion
  <2>3. PICK n \in Ids : n = nextId
    BY <2>2
  <2>4. CASE WillFreeze
    <3>1. PICK s \in Ids : s = slot
      BY <2>4 DEF WillFreeze, TypeOK
    <3>2. /\ row' = [row EXCEPT ![n] = "queued", ![s] = "stopped"] /\ proc' = [proc EXCEPT ![s] = "frozen"]
          /\ s # n /\ ~prio[s] /\ proc[s] \in Live /\ row[s] = "running"
      BY <1>2, <2>2, <2>3, <2>4, <3>1 DEF AddNow, WillFreeze
    <3>3. QueueStage(n)' = "waiting"
      BY <2>2, <3>2 DEF QueueStage, TypeOK
    <3>4. \A k \in Ids \ {n, s} : QueueStage(k)' = QueueStage(k)
      BY <2>1, <3>2 DEF QueueStage, TypeOK
    <3>5. QueueStage(s)' # QueueStage(s) => QueueStage(s) = "working" /\ QueueStage(s)' = "suspended"
      BY <2>1, <3>2 DEF QueueStage, TypeOK
    <3> QED
      BY <2>1, <2>3, <3>2, <3>3, <3>4, <3>5, ExpressIf DEF Exclusion, Turns
  <2>5. CASE ~WillFreeze
    <3>1. row' = [row EXCEPT ![n] = "queued"] /\ proc' = proc
      BY <1>2, <2>3, <2>5 DEF AddNow
    <3>2. QueueStage(n)' = "waiting"
      BY <3>1 DEF QueueStage, TypeOK
    <3>3. \A k \in Ids \ {n} : QueueStage(k)' = QueueStage(k)
      BY <2>1, <3>1 DEF QueueStage, TypeOK
    <3> QED
      BY <2>1, <2>3, <3>2, <3>3, ExpressIf DEF Exclusion, Turns
  <2> QED
    BY <2>4, <2>5
<1>3. ASSUME NEW t \in BOOLEAN, NEW r \in 0..MaxRetries, AddNowRaises(t, r) PROVE Queue!Seen
  <2>1. PICK s \in Ids : s = slot
    BY <1>3 DEF AddNowRaises, WillFreeze, TypeOK
  <2>2. /\ NewColumns(TRUE, t, r, None) /\ UNCHANGED <<pc, dying>>
        /\ row' = [row EXCEPT ![nextId] = "queued"] /\ proc' = [proc EXCEPT ![s] = "frozen"]
        /\ ~prio[s] /\ proc[s] \in Live
    BY <1>3, <2>1 DEF AddNowRaises, WillFreeze
  <2>3. nextId \in Ids /\ row[nextId] = "none" /\ proc[nextId] = "none"
    BY <2>2, NewRowIsIdle DEF Exclusion
  <2>4. PICK n \in Ids : n = nextId
    BY <2>3
  <2>5. n # s
    BY <2>2, <2>3, <2>4
  <2>6. QueueStage(n)' = "waiting"
    BY <2>2, <2>4 DEF QueueStage, TypeOK
  <2>7. \A k \in Ids \ {n, s} : QueueStage(k)' = QueueStage(k)
    BY <2>2, <2>4 DEF QueueStage, TypeOK
  <2>8. QueueStage(s)' # QueueStage(s) => QueueStage(s) = "working" /\ QueueStage(s)' = "suspended"
    BY <2>2, <2>4, <2>5 DEF QueueStage, TypeOK
  <2> QED
    BY <2>2, <2>4, <2>5, <2>6, <2>7, <2>8, ExpressIf DEF Exclusion, Turns
<1>4. ASSUME NEW b \in BOOLEAN, SetPaused(b) PROVE Queue!Seen
  BY <1>4, StuttersIf DEF SetPaused, Express, QueueStage
<1>5. ASSUME NEW j \in Ids, CancelQueued(j) PROVE Queue!Seen
  <2>1. \A k \in Ids : QueueStage(k)' = IF k = j THEN "over" ELSE QueueStage(k)
    BY <1>5 DEF CancelQueued, QueueStage, TypeOK
  <2>2. QueueStages' = [QueueStages EXCEPT ![j] = "over"] /\ QueueStages[j] = "waiting" /\ Express' = Express
    BY <1>5, <2>1 DEF CancelQueued, QueueStages, QueueStage, Express
  <2>3. Queue!Finish(j)
    BY <2>2 DEF Queue!Finish
  <2> QED
    BY <2>3 DEF Queue!Seen, Queue!Next
<1>6. ASSUME NEW j \in Ids, CancelSlot(j) PROVE Queue!Seen
  BY <1>6, ClosesIf DEF CancelSlot, Express, QueueStage
<1>7. ASSUME NEW j \in Ids, CancelFrozen(j) PROVE Queue!Seen
  BY <1>7, ClosesIf DEF CancelFrozen, Express, QueueStage, TypeOK
<1>8. ASSUME NEW j \in Ids, WorkerStart(j) \/ LaneStart(j) PROVE Queue!Seen
  <2>1. row[j] = "queued" /\ pc' = [pc EXCEPT ![j] = "spawn"] /\ UNCHANGED <<row, prio, proc, dying>>
    BY <1>8 DEF WorkerStart, LaneStart, Begin, IsHead, Queued
  <2> QED
    BY <2>1, StuttersIf DEF Express, QueueStage, TypeOK
<1>9. ASSUME NEW j \in Ids, SpawnReturns(j) PROVE Queue!Seen
  <2>1. /\ row[j] = "queued" /\ pc[j] = "spawn" /\ phase \in Serving
        /\ row' = [row EXCEPT ![j] = "running"] /\ pc' = [pc EXCEPT ![j] = "wait"]
        /\ proc' = [proc EXCEPT ![j] = "alive"] /\ UNCHANGED columns
    BY <1>9 DEF SpawnReturns, Exclusion, RowsAndProcs
  <2>2. CASE j \in dying'
    BY <1>9, <2>1, <2>2, ClosesIf DEF SpawnReturns, Express, QueueStage, TypeOK
  <2>3. CASE j \notin dying'
    <3>1. dying' = dying
      BY <1>9, <2>3 DEF SpawnReturns
    <3>2. QueueStages' = [QueueStages EXCEPT ![j] = "working"] /\ Express' = Express
      BY <2>1, <2>3, <3>1 DEF QueueStages, QueueStage, Express, TypeOK, Terminal
    <3>3. ASSUME NEW i \in Ids \ {j}
          PROVE  IF j \in Express
                 THEN QueueStages[i] # "working" /\ (i \in Express => QueueStages[i] \notin Queue!InHand)
                 ELSE QueueStages[i] \notin Queue!InHand /\ (i \in Express => QueueStages[i] # "waiting")
      <4>1. QueueStages[i] = QueueStage(i)
        BY DEF QueueStages
      <4>2. prio[i] = prio[j] => QueueStage(i) \notin Queue!InHand
        BY <2>1, InHandIsActive DEF Exclusion, OneEach
      <4>3. CASE prio[j]
        <5>1. laneTask
          BY <2>1, <4>3 DEF Exclusion, OneEach
        <5>2. ~prio[i] => QueueStage(i) # "working"
          BY <5>1 DEF Exclusion, LaneExcludes, QueueStage
        <5>3. QueueStage(i) = "working" => QueueStage(i) \in Queue!InHand
          BY DEF Queue!InHand
        <5> QED
          BY <4>1, <4>2, <4>3, <5>2, <5>3 DEF Express, TypeOK
      <4>4. CASE ~prio[j]
        <5>1. ~laneTask
          BY <2>1, <4>4 DEF Exclusion, LaneExcludes
        <5>2. prio[i] => pc[i] = "idle"
          BY <5>1 DEF Exclusion, OneEach
        <5>3. prio[i] => QueueStage(i) \notin Queue!InHand
          BY <5>2, InHandIsActive
        <5>4. prio[i] => row[i] # "queued"
          BY <2>1, <4>4 DEF Turns, FirstSpawned
        <5>5. prio[i] => QueueStage(i) # "waiting"
          BY <5>4 DEF QueueStage
        <5> QED
          BY <4>1, <4>2, <4>4, <5>3, <5>5 DEF Express, TypeOK
      <4> QED
        BY <4>3, <4>4
    <3>4. Queue!Begin(j)
      BY <2>1, <3>2, <3>3, SpawnedIsFirst DEF Queue!Begin, Exclusion, Turns
    <3> QED
      BY <3>4 DEF Queue!Seen, Queue!Next
  <2> QED
    BY <2>2, <2>3
<1>10. ASSUME NEW j \in Ids, SpawnFails(j) PROVE Queue!Seen
  <2>1. row[j] = "queued" /\ Record(j, "failed") /\ pc' = [pc EXCEPT ![j] = "idle"] /\ UNCHANGED <<proc, dying>>
    BY <1>10 DEF SpawnFails, Exclusion, RowsAndProcs
  <2>2. QueueStage(j) = "waiting" /\ "failed" \in Terminal
    BY <2>1 DEF QueueStage
  <2>3. \A k \in Ids : k # j => pc'[k] = pc[k] /\ proc'[k] = proc[k]
    BY <2>1 DEF TypeOK
  <2> QED
    BY <2>1, <2>2, <2>3, FinishesIf DEF Exclusion, Turns
<1>11. ASSUME NEW j \in Ids, WaitReturns(j) PROVE Queue!Seen
  BY <1>11, StuttersIf DEF WaitReturns, Goto, Express, QueueStage, TypeOK
<1>12. ASSUME NEW j \in Ids, TimeoutFires(j) PROVE Queue!Seen
  BY <1>12, ClosesIf DEF TimeoutFires, Goto, Express, QueueStage, TypeOK
<1>13. ASSUME NEW j \in Ids, NEW st \in Terminal, pc[j] \in Waiting, proc[j] \in Gone, Record(j, st), Forget(j), dying' = dying
       PROVE  Queue!Seen
  <2>1. QueueStage(j) = "closing"
    BY <1>13 DEF QueueStage, Turns, RowsOpen, Terminal
  <2>2. \A k \in Ids : k # j => pc'[k] = pc[k] /\ proc'[k] = proc[k]
    BY <1>13 DEF Forget, TypeOK
  <2> QED
    BY <1>13, <2>1, <2>2, FinishesIf DEF Exclusion, Turns
<1>14. ASSUME NEW j \in Ids, TimeoutRecords(j) PROVE Queue!Seen
  BY <1>13, <1>14 DEF TimeoutRecords, Finish, Terminal
<1>15. ASSUME NEW j \in Ids, DrainReturns(j) PROVE Queue!Seen
  <2>1. pc[j] = "drain" /\ proc[j] \in Gone
    BY <1>15 DEF DrainReturns, Turns, EndedSeen
  <2>2. CASE \E st \in Terminal : Finish(j, st)
    BY <1>13, <2>1, <2>2 DEF Finish
  <2>3. CASE Goto(j, "drain", "race") /\ UNCHANGED <<db, phase, lane, cancelled, proc, dying, condemned, stops, observers>>
    BY <2>3, StuttersIf DEF Goto, Express, QueueStage, TypeOK
  <2> QED
    BY <1>15, <2>2, <2>3 DEF DrainReturns, Terminal
<1>16. ASSUME NEW j \in Ids, RaceReturns(j) PROVE Queue!Seen
  BY <1>13, <1>16 DEF RaceReturns, Turns, EndedSeen, Terminal
<1>17. ASSUME AdoptLane PROVE Queue!Seen
  BY <1>17, StuttersIf DEF AdoptLane, Express, QueueStage
<1>18. ASSUME LaneEnds PROVE Queue!Seen
  <2>1. laneTask /\ Active(TRUE) = {} /\ UNCHANGED <<pc, dying, prio>>
    BY <1>18 DEF LaneEnds
  <2>2. CASE frozen # None /\ ~Stopping /\ proc[frozen] \in Live
    <3>1. /\ frozen \in Ids /\ ~prio[frozen] /\ pc[frozen] \in Waiting /\ row[frozen] \in Open
          /\ proc' = [proc EXCEPT ![frozen] = "alive"] /\ row' = [row EXCEPT ![frozen] = "running"]
          /\ Queued(TRUE) = {}
      BY <1>18, <2>2 DEF LaneEnds, Resume, Exclusion, Slots, Turns, RowsOpen, TypeOK
    <3>2. CASE frozen \in dying
      BY <2>1, <3>1, <3>2, StuttersIf DEF Express, QueueStage, TypeOK
    <3>3. CASE frozen \notin dying
      <4>1. proc[frozen] = "frozen"
        BY <2>1, <2>2, <3>1, <3>3 DEF Exclusion, LaneExcludes
      <4>2. QueueStages[frozen] = "suspended" /\ QueueStages' = [QueueStages EXCEPT ![frozen] = "working"]
        BY <2>1, <3>1, <3>3, <4>1 DEF QueueStages, QueueStage, TypeOK
      <4>3. ASSUME NEW i \in Ids
            PROVE  QueueStages[i] # "working" /\ (i \in Express => QueueStages[i] \notin Queue!InHand \cup {"waiting"})
        <5>1. prio[i] => pc[i] = "idle" /\ row[i] # "queued"
          BY <2>1, <3>1 DEF Active, Queued
        <5>2. prio[i] => QueueStage(i) \notin Queue!InHand
          BY <5>1, InHandIsActive
        <5>3. prio[i] => QueueStage(i) # "waiting"
          BY <5>1 DEF QueueStage
        <5>4. ~prio[i] => QueueStage(i) # "working"
          BY <2>1 DEF Exclusion, LaneExcludes, QueueStage
        <5>5. QueueStage(i) = "working" => QueueStage(i) \in Queue!InHand
          BY DEF Queue!InHand
        <5> QED
          BY <5>2, <5>3, <5>4, <5>5 DEF QueueStages, Express, TypeOK
      <4>4. Queue!Continue(frozen)
        BY <2>1, <4>2, <4>3 DEF Queue!Continue, Express
      <4> QED
        BY <3>1, <4>4 DEF Queue!Seen, Queue!Next
    <3> QED
      BY <3>2, <3>3
  <2>3. CASE ~(frozen # None /\ ~Stopping /\ proc[frozen] \in Live)
    BY <1>18, <2>1, <2>3, StuttersIf DEF LaneEnds, Resume, Express, QueueStage
  <2> QED
    BY <2>2, <2>3
<1>19. ASSUME NEW j \in Ids, NEW how \in Gone, Exit(j, how) PROVE Queue!Seen
  BY <1>19, ClosesIf DEF Exit, Express, QueueStage, TypeOK
<1>20. ASSUME NEW j \in Ids, KillGroup(j) PROVE Queue!Seen
  BY <1>19, <1>20 DEF KillGroup
<1>21. ASSUME StopSignal PROVE Queue!Seen
  BY <1>21, StuttersIf DEF StopSignal, Express, QueueStage
<1>22. ASSUME ShutdownKills PROVE Queue!Seen
  BY <1>22, ClosesIf DEF ShutdownKills, ShutdownTargets, Express, QueueStage, TypeOK
<1>23. ASSUME ShutdownExits \/ \E survive \in BOOLEAN : Crash(survive) PROVE Queue!Seen
  <2>1. pc' = [k \in Ids |-> "idle"] /\ UNCHANGED <<row, prio>>
    BY <1>23 DEF ShutdownExits, Crash, ForgetMemory
  <2>2. \A k \in Ids : QueueStage(k)' = IF QueueStage(k) \in Queue!InHand THEN "lost" ELSE QueueStage(k)
    BY <2>1 DEF QueueStage, Queue!InHand, Terminal
  <2>3. Queue!Die
    BY <2>1, <2>2, StagesTypedNext DEF Queue!Die, Queue!Move, Queue!InHand, QueueStages, Express
  <2> QED
    BY <2>3 DEF Queue!Seen, Queue!Next
<1>24. ASSUME Start PROVE Queue!Seen
  <2>1. \A k \in Ids : pc[k] = "idle"
    BY <1>24 DEF Start, Exclusion, OneEach, Serving
  <2>2. \A k \in Ids : row'[k] # row[k] => row[k] \in Open /\ row'[k] = "interrupted"
    BY <1>24 DEF Start, OneOf, TypeOK, None, Ids
  <2>3. \A k \in Ids : QueueStage(k)' # QueueStage(k) => QueueStage(k) = "lost" /\ QueueStage(k)' = "over"
    BY <1>24, <2>1, <2>2 DEF Start, QueueStage
  <2>4. Queue!Recover
    BY <1>24, <2>3, StagesTypedNext DEF Start, Queue!Recover, Queue!Move, QueueStages, Express
  <2> QED
    BY <2>4 DEF Queue!Seen, Queue!Next
<1>25. ASSUME UNCHANGED vars PROVE Queue!Seen
  BY <1>25, StuttersIf DEF Express, QueueStage
<1> QED
  BY <1>1, <1>2, <1>3, <1>4, <1>5, <1>6, <1>7, <1>8, <1>9, <1>10, <1>11, <1>12, <1>14,
     <1>15, <1>16, <1>17, <1>18, <1>19, <1>20, <1>21, <1>22, <1>23, <1>24, <1>25 DEF
     Next, Request, Runner, Stop

(* The initial state has no jobs, and every id still to be given out. *)
LEMMA TurnsInit == ASSUME Init PROVE Turns
BY ConstantsOK DEF Init, Turns, RowsOpen, EndedSeen, IdsUsed, FirstSpawned, Waiting, Ids, ConstantsOK

LEMMA QueueInit == ASSUME Init PROVE Queue!Init
BY DEF Init, Queue!Init, QueueStages, QueueStage, Express

(* README.md:145: for every number of jobs, retries, stops and crashes a    *)
(* channel is the serial queue with an express lane of SerialQueue: first   *)
(* come first served in each lane, one job at a time, `--now` before the    *)
(* normal jobs, the suspended job continued when no `--now` job is left.    *)
THEOREM ChannelIsSerialQueue == ASSUME NowDuringSpawn = FALSE PROVE Spec => IsSerialQueue
<1>1. Init => TypeOK /\ Exclusion /\ Turns /\ Queue!Init
  BY TypeInit, ExclusionInit, TurnsInit, QueueInit
<1>2. TypeOK /\ Exclusion /\ Turns /\ [Next]_vars => (TypeOK /\ Exclusion /\ Turns)' /\ [Queue!Seen]_(Queue!vars)
  BY TypeStep, ExclusionStep, TurnsStep, QueueStep
<1> QED
  BY <1>1, <1>2, PTL DEF Spec, IsSerialQueue, Queue!Spec

----------------------------------------------------------------------------
(***************************************************************************)
(* Who looks after a job (README.md:526, :976, :986): every process is     *)
(* named by a slot or being killed, a cancel is what the row ends up       *)
(* saying, a restart finds every stopped row and a clean stop leaves none. *)
(***************************************************************************)
(* A running process the daemon waits for is named by the current slot, or is being killed. *)
SlotHolds == \A j \in Ids : pc[j] # "idle" /\ proc[j] = "alive" => slot = j \/ j \in dying

(* Once the shutdown has sent its signals, no process it waits for is left out. *)
KillingKills == phase = "killing" => \A j \in Ids : pc[j] # "idle" /\ proc[j] \in Live => j \in dying

(* At most one row is `stopped`; its job is the normal worker's and in the frozen slot or being killed. *)
StoppedRows ==
    /\ \A j \in Ids : row[j] = "stopped" =>
          /\ ~prio[j]
          /\ phase \in Serving => pc[j] # "idle"
          /\ pc[j] # "idle" /\ proc[j] \in Live => frozen = j \/ j \in dying
    /\ \A i, j \in Ids : row[i] = "stopped" /\ row[j] = "stopped" => i = j

(* ... and no frozen one. *)
FrozenKilled == phase = "killing" => \A j \in Ids : pc[j] # "idle" /\ proc[j] = "frozen" => j \in dying

(* Where stopped jobs are, whenever a `--now` job arrives. *)
Custody == NoOrphanFreeze /\ FrozenKilled /\ StoppedRows

(* Where running jobs are, unless a `--now` job arrives during a spawn. *)
Held == SlotHolds /\ KillingKills

(* Stopped rows stay as they are while nobody touches them, their processes or the frozen slot. *)
LEMMA StoppedKept ==
    ASSUME StoppedRows, UNCHANGED <<phase, frozen, dying>>,
           \A k \in Ids : row'[k] = "stopped" =>
               row[k] = "stopped" /\ prio'[k] = prio[k] /\ pc'[k] = pc[k] /\ proc'[k] = proc[k]
    PROVE  StoppedRows'
BY DEF StoppedRows

(* The end of a job stops nobody's row. *)
LEMMA StoppedAfterRecord ==
    ASSUME TypeOK, RowsAndProcs, StoppedRows, NEW j \in Ids, NEW st \in Terminal, Record(j, st),
           UNCHANGED <<phase, frozen, dying>>,
           \A k \in Ids : k # j => pc'[k] = pc[k] /\ proc'[k] = proc[k]
    PROVE  StoppedRows'
<1> SUFFICES ASSUME NEW k \in Ids, row'[k] = "stopped" PROVE k # j /\ row[k] = "stopped" /\ prio'[k] = prio[k]
  BY StoppedKept
<1>1. CASE st = "failed" /\ left[j] > 0
  <2>1. NewColumns(FALSE, timed[j], left[j] - 1, j) /\ row' = [row EXCEPT ![j] = st, ![nextId] = "queued"]
    BY <1>1 DEF Record
  <2>2. k # nextId
    BY <2>1, NewRowIsIdle DEF TypeOK
  <2> QED
    BY <2>1, <2>2, NewRowIsIdle DEF TypeOK, Terminal
<1>2. CASE ~(st = "failed" /\ left[j] > 0)
  BY <1>2 DEF Record, TypeOK, Terminal, columns
<1> QED
  BY <1>1, <1>2

(* Every step keeps Custody. *)
LEMMA CustodyStep ==
    ASSUME TypeOK, Grounded, Placed, Custody, [Next]_vars
    PROVE  Custody'
<1> USE ConstantsOK DEF ConstantsOK, Open, Ids, vars, db, columns, lane, observers, Waiting, Unborn, Live, Gone, None, Serving, Terminal, TypeOK
<1>1. ASSUME NEW t \in BOOLEAN, NEW r \in 0..MaxRetries, AddNormal(t, r) PROVE Custody'
  <2>1. NoOrphanFreeze'
    BY <1>1 DEF AddNormal, CanAdd, NewColumns, Custody, Grounded, NoOrphanFreeze, StoppedRows,
       FrozenKilled, Placed, RowsOpen, RowsAndProcs, Slots, OneEach
  <2>2. FrozenKilled'
    BY <1>1 DEF AddNormal, CanAdd, NewColumns, Custody, Grounded, FrozenKilled, NoOrphanFreeze,
       RowsAndProcs, Slots
  <2>3. StoppedRows'
    BY <1>1 DEF AddNormal, CanAdd, NewColumns, Custody, Grounded, StoppedRows, Placed, RowsOpen,
       RowsAndProcs, Slots, OneEach
  <2> QED
    BY <2>1, <2>2, <2>3 DEF Custody
<1>2. ASSUME NEW t \in BOOLEAN, NEW r \in 0..MaxRetries, AddNow(t, r) PROVE Custody'
  <2>1. NoOrphanFreeze'
    <3>1. CASE WillFreeze
      <4>1. /\ slot \in Ids /\ ~Stopping /\ slot # nextId
            /\ \A k \in Ids \ {slot} : proc'[k] = proc[k]
            /\ frozen' = slot /\ laneTask' /\ frozen = None
        BY <1>2, <3>1, NewRowIsIdle DEF AddNow, WillFreeze, EnsureRunner, Grounded, Slots, RowsAndProcs
      <4> QED
        BY <1>2, <4>1 DEF AddNow, Custody, NoOrphanFreeze, Stopping
    <3>2. CASE ~WillFreeze
      BY <1>2, <3>2 DEF AddNow, EnsureRunner, Custody, NoOrphanFreeze
    <3> QED
      BY <3>1, <3>2
  <2>2. FrozenKilled'
    BY <1>2 DEF AddNow, CanAdd, NewColumns, WillFreeze, EnsureRunner, Stopping, Custody, Grounded,
       FrozenKilled, NoOrphanFreeze, RowsAndProcs, Slots
  <2>3. StoppedRows'
    <3>0. /\ NewColumns(TRUE, t, r, None) /\ UNCHANGED <<phase, pc, slot, dying>>
          /\ nextId \in Ids /\ row[nextId] = "none"
          /\ \A k \in Ids \ {nextId} : prio'[k] = prio[k]
      BY <1>2, NewRowIsIdle DEF AddNow, Grounded
    <3>1. CASE WillFreeze
      <4>1. /\ slot \in Ids /\ ~prio[slot] /\ slot # nextId /\ pc[slot] \in Waiting /\ phase \in Serving
            /\ frozen' = slot /\ row' = [row EXCEPT ![nextId] = "queued", ![slot] = "stopped"]
        BY <1>2, <3>1, <3>0 DEF AddNow, CanAdd, WillFreeze, Grounded, Slots, RowsAndProcs
      <4>2. \A k \in Ids : row[k] = "stopped" => k = slot
        BY <4>1 DEF Custody, StoppedRows, Grounded, OneEach
      <4>3. \A k \in Ids : row'[k] = "stopped" => k = slot
        BY <4>1, <4>2
      <4>4. ~prio'[slot] /\ pc'[slot] # "idle"
        BY <3>0, <4>1
      <4> QED
        BY <4>1, <4>3, <4>4 DEF StoppedRows
    <3>2. CASE ~WillFreeze
      <4>1. row' = [row EXCEPT ![nextId] = "queued"] /\ UNCHANGED <<proc, frozen>>
        BY <1>2, <3>2 DEF AddNow
      <4> QED
        BY <3>0, <4>1, StoppedKept DEF Custody
    <3> QED
      BY <3>1, <3>2
  <2> QED
    BY <2>1, <2>2, <2>3 DEF Custody
<1>3. ASSUME NEW t \in BOOLEAN, NEW r \in 0..MaxRetries, AddNowRaises(t, r) PROVE Custody'
  <2>1. NoOrphanFreeze'
    BY <1>3 DEF AddNowRaises, CanAdd, NewColumns, WillFreeze, Stopping, Custody, Grounded,
       NoOrphanFreeze, StoppedRows, FrozenKilled, Placed, RowsOpen, RowsAndProcs, Slots, OneEach
  <2>2. FrozenKilled'
    BY <1>3 DEF AddNowRaises, CanAdd, NewColumns, WillFreeze, Stopping, Custody, Grounded,
       FrozenKilled, NoOrphanFreeze, RowsAndProcs, Slots
  <2>3. StoppedRows'
    BY <1>3 DEF AddNowRaises, CanAdd, NewColumns, WillFreeze, Stopping, Custody, Grounded, StoppedRows,
       Placed, RowsOpen, RowsAndProcs, Slots, OneEach
  <2> QED
    BY <2>1, <2>2, <2>3 DEF Custody
<1>4. ASSUME NEW b \in BOOLEAN, SetPaused(b) PROVE Custody'
  <2>1. NoOrphanFreeze'
    BY <1>4 DEF SetPaused, Custody, Grounded, NoOrphanFreeze, StoppedRows, FrozenKilled, Placed,
       RowsOpen, RowsAndProcs, Slots, OneEach
  <2>2. FrozenKilled'
    BY <1>4 DEF SetPaused, Custody, Grounded, FrozenKilled, NoOrphanFreeze, RowsAndProcs, Slots
  <2>3. StoppedRows'
    BY <1>4 DEF SetPaused, Custody, Grounded, StoppedRows, Placed, RowsOpen, RowsAndProcs, Slots, OneEach
  <2> QED
    BY <2>1, <2>2, <2>3 DEF Custody
<1>5. ASSUME NEW j \in Ids, CancelQueued(j) PROVE Custody'
  <2>1. NoOrphanFreeze'
    BY <1>5 DEF CancelQueued, Accept, Custody, Grounded, NoOrphanFreeze, StoppedRows, FrozenKilled,
       Placed, RowsOpen, RowsAndProcs, Slots, OneEach
  <2>2. FrozenKilled'
    BY <1>5 DEF CancelQueued, Accept, Custody, Grounded, FrozenKilled, NoOrphanFreeze, RowsAndProcs,
       Slots
  <2>3. StoppedRows'
    BY <1>5 DEF CancelQueued, Accept, Custody, Grounded, StoppedRows, Placed, RowsOpen, RowsAndProcs,
       Slots, OneEach
  <2> QED
    BY <2>1, <2>2, <2>3 DEF Custody
<1>6. ASSUME NEW j \in Ids, CancelSlot(j) PROVE Custody'
  <2>1. NoOrphanFreeze'
    BY <1>6 DEF CancelSlot, Accept, Custody, Grounded, NoOrphanFreeze, StoppedRows, FrozenKilled,
       Placed, RowsOpen, RowsAndProcs, Slots, OneEach
  <2>2. FrozenKilled'
    BY <1>6 DEF CancelSlot, Accept, Custody, Grounded, FrozenKilled, NoOrphanFreeze, RowsAndProcs, Slots
  <2>3. StoppedRows'
    BY <1>6 DEF CancelSlot, Accept, Custody, Grounded, StoppedRows, Placed, RowsOpen, RowsAndProcs,
       Slots, OneEach
  <2> QED
    BY <2>1, <2>2, <2>3 DEF Custody
<1>7. ASSUME NEW j \in Ids, CancelFrozen(j) PROVE Custody'
  <2>1. NoOrphanFreeze'
    BY <1>7 DEF CancelFrozen, Accept, Custody, Grounded, NoOrphanFreeze, StoppedRows, FrozenKilled,
       Placed, RowsOpen, RowsAndProcs, Slots, OneEach
  <2>2. FrozenKilled'
    BY <1>7 DEF CancelFrozen, Accept, Custody, Grounded, FrozenKilled, NoOrphanFreeze, RowsAndProcs,
       Slots
  <2>3. StoppedRows'
    BY <1>7 DEF CancelFrozen, Accept, Custody, Grounded, StoppedRows, Placed, RowsOpen, RowsAndProcs,
       Slots, OneEach
  <2> QED
    BY <2>1, <2>2, <2>3 DEF Custody
<1>8. ASSUME NEW j \in Ids, WorkerStart(j) \/ LaneStart(j) PROVE Custody'
  <2>1. NoOrphanFreeze'
    <3>1. /\ row[j] = "queued" /\ proc[j] = "none" /\ pc' = [pc EXCEPT ![j] = "spawn"]
          /\ UNCHANGED <<row, prio, phase, slot, frozen, laneTask, proc, dying>>
      BY <1>8 DEF WorkerStart, LaneStart, Begin, IsHead, Queued, Grounded, RowsAndProcs
    <3> QED
      BY <3>1 DEF Custody, NoOrphanFreeze
  <2>2. FrozenKilled'
    BY <1>8 DEF WorkerStart, LaneStart, Begin, IsHead, Queued, Custody, Grounded, FrozenKilled,
       NoOrphanFreeze, RowsAndProcs, Slots
  <2>3. StoppedRows'
    <3>1. /\ row[j] = "queued" /\ proc[j] = "none" /\ pc' = [pc EXCEPT ![j] = "spawn"]
          /\ UNCHANGED <<row, prio, phase, slot, frozen, laneTask, proc, dying>>
      BY <1>8 DEF WorkerStart, LaneStart, Begin, IsHead, Queued, Grounded, RowsAndProcs
    <3> QED
      BY <3>1, StoppedKept DEF Custody
  <2> QED
    BY <2>1, <2>2, <2>3 DEF Custody
<1>9. ASSUME NEW j \in Ids, SpawnReturns(j) PROVE Custody'
  <2>1. NoOrphanFreeze'
    BY <1>9 DEF SpawnReturns, Stopping, Custody, Grounded, NoOrphanFreeze, StoppedRows, FrozenKilled,
       Placed, RowsOpen, RowsAndProcs, Slots, OneEach
  <2>2. FrozenKilled'
    BY <1>9 DEF SpawnReturns, Stopping, Custody, Grounded, FrozenKilled, NoOrphanFreeze, RowsAndProcs,
       Slots
  <2>3. StoppedRows'
    BY <1>9 DEF SpawnReturns, Stopping, Custody, Grounded, StoppedRows, Placed, RowsOpen, RowsAndProcs,
       Slots, OneEach
  <2> QED
    BY <2>1, <2>2, <2>3 DEF Custody
<1>10. ASSUME NEW j \in Ids, SpawnFails(j) PROVE Custody'
  <2>1. NoOrphanFreeze'
    BY <1>10 DEF SpawnFails, Record, NewColumns, Custody, Grounded, NoOrphanFreeze, StoppedRows,
       FrozenKilled, Placed, RowsOpen, RowsAndProcs, Slots, OneEach
  <2>2. FrozenKilled'
    BY <1>10 DEF SpawnFails, Record, NewColumns, Custody, Grounded, FrozenKilled, NoOrphanFreeze,
       RowsAndProcs, Slots
  <2>3. StoppedRows'
    BY <1>10, StoppedAfterRecord DEF SpawnFails, Custody, Grounded
  <2> QED
    BY <2>1, <2>2, <2>3 DEF Custody
<1>11. ASSUME NEW j \in Ids, WaitReturns(j) PROVE Custody'
  <2>1. NoOrphanFreeze'
    BY <1>11 DEF WaitReturns, Goto, Custody, Grounded, NoOrphanFreeze, StoppedRows, FrozenKilled,
       Placed, RowsOpen, RowsAndProcs, Slots, OneEach
  <2>2. FrozenKilled'
    BY <1>11 DEF WaitReturns, Goto, Custody, Grounded, FrozenKilled, NoOrphanFreeze, RowsAndProcs, Slots
  <2>3. StoppedRows'
    BY <1>11 DEF WaitReturns, Goto, Custody, Grounded, StoppedRows, Placed, RowsOpen, RowsAndProcs,
       Slots, OneEach
  <2> QED
    BY <2>1, <2>2, <2>3 DEF Custody
<1>12. ASSUME NEW j \in Ids, TimeoutFires(j) PROVE Custody'
  <2>1. NoOrphanFreeze'
    BY <1>12 DEF TimeoutFires, Goto, Custody, Grounded, NoOrphanFreeze, StoppedRows, FrozenKilled,
       Placed, RowsOpen, RowsAndProcs, Slots, OneEach
  <2>2. FrozenKilled'
    BY <1>12 DEF TimeoutFires, Goto, Custody, Grounded, FrozenKilled, NoOrphanFreeze, RowsAndProcs, Slots
  <2>3. StoppedRows'
    BY <1>12 DEF TimeoutFires, Goto, Custody, Grounded, StoppedRows, Placed, RowsOpen, RowsAndProcs,
       Slots, OneEach
  <2> QED
    BY <2>1, <2>2, <2>3 DEF Custody
<1>13. ASSUME NEW j \in Ids, TimeoutRecords(j) PROVE Custody'
  <2>1. NoOrphanFreeze'
    BY <1>13 DEF TimeoutRecords, Finish, Forget, Release, Record, NewColumns, Custody, Grounded,
       NoOrphanFreeze, StoppedRows, FrozenKilled, Placed, RowsOpen, RowsAndProcs, Slots, OneEach
  <2>2. FrozenKilled'
    BY <1>13 DEF TimeoutRecords, Finish, Forget, Release, Record, NewColumns, Custody, Grounded,
       FrozenKilled, NoOrphanFreeze, RowsAndProcs, Slots
  <2>3. StoppedRows'
    BY <1>13, StoppedAfterRecord DEF TimeoutRecords, Finish, Forget, Custody, Grounded
  <2> QED
    BY <2>1, <2>2, <2>3 DEF Custody
<1>14. ASSUME NEW j \in Ids, DrainReturns(j) PROVE Custody'
  <2>1. NoOrphanFreeze'
    BY <1>14 DEF DrainReturns, Goto, Finish, Forget, Release, Record, NewColumns, Custody, Grounded,
       NoOrphanFreeze, StoppedRows, FrozenKilled, Placed, RowsOpen, RowsAndProcs, Slots, OneEach
  <2>2. FrozenKilled'
    BY <1>14 DEF DrainReturns, Goto, Finish, Forget, Release, Record, NewColumns, Custody, Grounded,
       FrozenKilled, NoOrphanFreeze, RowsAndProcs, Slots
  <2>3. StoppedRows'
    <3>1. CASE \E st \in Terminal : Finish(j, st)
      <4>1. PICK st \in Terminal : Finish(j, st)
        BY <3>1
      <4>2. /\ Record(j, st) /\ UNCHANGED <<phase, frozen, dying>>
            /\ \A k \in Ids : k # j => pc'[k] = pc[k] /\ proc'[k] = proc[k]
        BY <4>1 DEF Finish, Forget
      <4> QED
        BY <4>2, StoppedAfterRecord DEF Custody, Grounded
    <3>2. CASE Goto(j, "drain", "race") /\ UNCHANGED <<db, phase, lane, cancelled, proc, dying, condemned, stops, observers>>
      BY <3>2 DEF Goto, Custody, StoppedRows
    <3> QED
      BY <1>14, <3>1, <3>2 DEF DrainReturns
  <2> QED
    BY <2>1, <2>2, <2>3 DEF Custody
<1>15. ASSUME NEW j \in Ids, RaceReturns(j) PROVE Custody'
  <2>1. NoOrphanFreeze'
    BY <1>15 DEF RaceReturns, Forget, Release, Record, NewColumns, Custody, Grounded, NoOrphanFreeze,
       StoppedRows, FrozenKilled, Placed, RowsOpen, RowsAndProcs, Slots, OneEach
  <2>2. FrozenKilled'
    BY <1>15 DEF RaceReturns, Forget, Release, Record, NewColumns, Custody, Grounded, FrozenKilled,
       NoOrphanFreeze, RowsAndProcs, Slots
  <2>3. StoppedRows'
    BY <1>15, StoppedAfterRecord DEF RaceReturns, Forget, Custody, Grounded
  <2> QED
    BY <2>1, <2>2, <2>3 DEF Custody
<1>16. ASSUME AdoptLane PROVE Custody'
  <2>1. NoOrphanFreeze'
    BY <1>16 DEF AdoptLane, Custody, Grounded, NoOrphanFreeze, StoppedRows, FrozenKilled, Placed,
       RowsOpen, RowsAndProcs, Slots, OneEach
  <2>2. FrozenKilled'
    BY <1>16 DEF AdoptLane, Custody, Grounded, FrozenKilled, NoOrphanFreeze, RowsAndProcs, Slots
  <2>3. StoppedRows'
    BY <1>16 DEF AdoptLane, Custody, Grounded, StoppedRows, Placed, RowsOpen, RowsAndProcs, Slots,
       OneEach
  <2> QED
    BY <2>1, <2>2, <2>3 DEF Custody
<1>17. ASSUME LaneEnds PROVE Custody'
  <2>1. NoOrphanFreeze'
    BY <1>17 DEF LaneEnds, Resume, Active, Stopping, Custody, Grounded, NoOrphanFreeze, StoppedRows,
       FrozenKilled, Placed, RowsOpen, RowsAndProcs, Slots, OneEach
  <2>2. FrozenKilled'
    BY <1>17 DEF LaneEnds, Resume, Active, Stopping, Custody, Grounded, FrozenKilled, NoOrphanFreeze,
       RowsAndProcs, Slots
  <2>3. StoppedRows'
    <3>1. CASE frozen # None /\ ~Stopping /\ proc[frozen] \in Live
      <4>1. \A k \in Ids : row'[k] = "stopped" => row[k] = "stopped" /\ k # frozen /\ proc'[k] = proc[k]
        BY <1>17, <3>1 DEF LaneEnds, Resume
      <4> QED
        BY <1>17, <3>1, <4>1 DEF LaneEnds, Custody, StoppedRows
    <3>2. CASE frozen # None /\ ~Stopping /\ proc[frozen] \notin Live
      BY <1>17, <3>2 DEF LaneEnds, Resume, Custody, StoppedRows
    <3>3. CASE ~(frozen # None /\ ~Stopping)
      BY <1>17, <3>3, StoppedKept DEF LaneEnds, Custody
    <3> QED
      BY <3>1, <3>2, <3>3
  <2> QED
    BY <2>1, <2>2, <2>3 DEF Custody
<1>18. ASSUME NEW j \in Ids, NEW how \in Gone, Exit(j, how) PROVE Custody'
  <2>1. NoOrphanFreeze'
    BY <1>18 DEF Exit, Custody, Grounded, NoOrphanFreeze, StoppedRows, FrozenKilled, Placed, RowsOpen,
       RowsAndProcs, Slots, OneEach
  <2>2. FrozenKilled'
    BY <1>18 DEF Exit, Custody, Grounded, FrozenKilled, NoOrphanFreeze, RowsAndProcs, Slots
  <2>3. StoppedRows'
    BY <1>18 DEF Exit, Custody, Grounded, StoppedRows, Placed, RowsOpen, RowsAndProcs, Slots, OneEach
  <2> QED
    BY <2>1, <2>2, <2>3 DEF Custody
<1>19. ASSUME NEW j \in Ids, KillGroup(j) PROVE Custody'
  <2>1. NoOrphanFreeze'
    BY <1>19 DEF KillGroup, Exit, Custody, Grounded, NoOrphanFreeze, StoppedRows, FrozenKilled, Placed,
       RowsOpen, RowsAndProcs, Slots, OneEach
  <2>2. FrozenKilled'
    BY <1>19 DEF KillGroup, Exit, Custody, Grounded, FrozenKilled, NoOrphanFreeze, RowsAndProcs, Slots
  <2>3. StoppedRows'
    BY <1>19 DEF KillGroup, Exit, Custody, Grounded, StoppedRows, Placed, RowsOpen, RowsAndProcs,
       Slots, OneEach
  <2> QED
    BY <2>1, <2>2, <2>3 DEF Custody
<1>20. ASSUME StopSignal PROVE Custody'
  <2>1. NoOrphanFreeze'
    BY <1>20 DEF StopSignal, Custody, Grounded, NoOrphanFreeze, StoppedRows, FrozenKilled, Placed,
       RowsOpen, RowsAndProcs, Slots, OneEach
  <2>2. FrozenKilled'
    BY <1>20 DEF StopSignal, Custody, Grounded, FrozenKilled, NoOrphanFreeze, RowsAndProcs, Slots
  <2>3. StoppedRows'
    BY <1>20 DEF StopSignal, Custody, Grounded, StoppedRows, Placed, RowsOpen, RowsAndProcs, Slots,
       OneEach
  <2> QED
    BY <2>1, <2>2, <2>3 DEF Custody
<1>21. ASSUME ShutdownKills PROVE Custody'
  <2>1. NoOrphanFreeze'
    BY <1>21 DEF ShutdownKills, ShutdownTargets, Custody, Grounded, NoOrphanFreeze, StoppedRows,
       FrozenKilled, Placed, RowsOpen, RowsAndProcs, Slots, OneEach
  <2>2. FrozenKilled'
    BY <1>21 DEF ShutdownKills, ShutdownTargets, Custody, Grounded, FrozenKilled, NoOrphanFreeze,
       RowsAndProcs, Slots
  <2>3. StoppedRows'
    BY <1>21 DEF ShutdownKills, ShutdownTargets, Custody, Grounded, StoppedRows, Placed, RowsOpen,
       RowsAndProcs, Slots, OneEach
  <2> QED
    BY <2>1, <2>2, <2>3 DEF Custody
<1>22. ASSUME ShutdownExits PROVE Custody'
  <2>1. NoOrphanFreeze'
    BY <1>22 DEF ShutdownExits, ForgetMemory, Custody, Grounded, NoOrphanFreeze, StoppedRows,
       FrozenKilled, Placed, RowsOpen, RowsAndProcs, Slots, OneEach
  <2>2. FrozenKilled'
    BY <1>22 DEF ShutdownExits, ForgetMemory, Custody, Grounded, FrozenKilled, NoOrphanFreeze,
       RowsAndProcs, Slots
  <2>3. StoppedRows'
    BY <1>22 DEF ShutdownExits, ForgetMemory, Custody, Grounded, StoppedRows, Placed, RowsOpen,
       RowsAndProcs, Slots, OneEach
  <2> QED
    BY <2>1, <2>2, <2>3 DEF Custody
<1>23. ASSUME NEW survive \in BOOLEAN, Crash(survive) PROVE Custody'
  <2>1. NoOrphanFreeze'
    BY <1>23 DEF Crash, ForgetMemory, Custody, Grounded, NoOrphanFreeze, StoppedRows, FrozenKilled,
       Placed, RowsOpen, RowsAndProcs, Slots, OneEach
  <2>2. FrozenKilled'
    BY <1>23 DEF Crash, ForgetMemory, Custody, Grounded, FrozenKilled, NoOrphanFreeze, RowsAndProcs,
       Slots
  <2>3. StoppedRows'
    BY <1>23 DEF Crash, ForgetMemory, Custody, Grounded, StoppedRows, Placed, RowsOpen, RowsAndProcs,
       Slots, OneEach
  <2> QED
    BY <2>1, <2>2, <2>3 DEF Custody
<1>24. ASSUME Start PROVE Custody'
  <2>1. NoOrphanFreeze'
    BY <1>24 DEF Start, OneOf, Custody, Grounded, NoOrphanFreeze, StoppedRows, FrozenKilled, Placed,
       RowsOpen, RowsAndProcs, Slots, OneEach
  <2>2. FrozenKilled'
    BY <1>24 DEF Start, OneOf, Custody, Grounded, FrozenKilled, NoOrphanFreeze, RowsAndProcs, Slots
  <2>3. StoppedRows'
    <3>1. PICK s \in OneOf("stopped") : row'[s] = "interrupted" \/ s = None
      BY <1>24 DEF Start, OneOf
    <3>2. \A k \in Ids : row'[k] = "stopped" => row[k] = "stopped"
      BY <1>24 DEF Start
    <3>3. \A k \in Ids : row'[k] # "stopped"
      <4>1. CASE \E i \in Ids : row[i] = "stopped"
        <5>1. {i \in Ids : row[i] = "stopped"} # {}
          BY <4>1
        <5>2. OneOf("stopped") = {i \in Ids : row[i] = "stopped"}
          BY <5>1 DEF OneOf
        <5>3. s \in Ids /\ row[s] = "stopped"
          BY <3>1, <5>2
        <5>4. \A k \in Ids : row[k] = "stopped" => k = s
          BY <5>3 DEF Custody, StoppedRows
        <5>5. row'[s] = "interrupted"
          BY <3>1, <5>3
        <5> QED
          BY <3>2, <5>4, <5>5
      <4>2. CASE ~\E i \in Ids : row[i] = "stopped"
        BY <3>2, <4>2
      <4> QED
        BY <4>1, <4>2
    <3> QED
      BY <3>3 DEF StoppedRows
  <2> QED
    BY <2>1, <2>2, <2>3 DEF Custody
<1>25. ASSUME UNCHANGED vars PROVE Custody'
  <2>1. NoOrphanFreeze'
    BY <1>25 DEF vars, Custody, Grounded, NoOrphanFreeze, StoppedRows, FrozenKilled, Placed, RowsOpen,
       RowsAndProcs, Slots, OneEach
  <2>2. FrozenKilled'
    BY <1>25 DEF vars, Custody, Grounded, FrozenKilled, NoOrphanFreeze, RowsAndProcs, Slots
  <2>3. StoppedRows'
    BY <1>25 DEF vars, Custody, Grounded, StoppedRows, Placed, RowsOpen, RowsAndProcs, Slots, OneEach
  <2> QED
    BY <2>1, <2>2, <2>3 DEF Custody
<1> QED
  BY <1>1, <1>2, <1>3, <1>4, <1>5, <1>6, <1>7, <1>8, <1>9, <1>10, <1>11, <1>12, <1>13, <1>14, <1>15,
     <1>16, <1>17, <1>18, <1>19, <1>20, <1>21, <1>22, <1>23, <1>24, <1>25 DEF Next, Request, Runner, Stop

(* Every step keeps Held. *)
LEMMA HeldStep ==
    ASSUME NowDuringSpawn = FALSE, TypeOK, Exclusion, Turns, Custody, Held, [Next]_vars
    PROVE  Held'
<1> USE ConstantsOK DEF ConstantsOK, Open, Ids, vars, db, columns, lane, observers, Waiting, Unborn, Live, Gone, None, Serving, Terminal, TypeOK
<1>1. ASSUME NEW t \in BOOLEAN, NEW r \in 0..MaxRetries, AddNormal(t, r) PROVE Held'
  <2>1. SlotHolds'
    BY <1>1 DEF AddNormal, CanAdd, NewColumns, Held, Exclusion, SlotHolds, Turns, RowsOpen,
       RowsAndProcs, Slots, OneEach, LaneExcludes
  <2>2. KillingKills'
    BY <1>1 DEF AddNormal, CanAdd, NewColumns, Held, Exclusion, KillingKills, SlotHolds, Custody,
       NoOrphanFreeze, RowsAndProcs, Slots
  <2> QED
    BY <2>1, <2>2 DEF Held
<1>2. ASSUME NEW t \in BOOLEAN, NEW r \in 0..MaxRetries, AddNow(t, r) PROVE Held'
  <2>1. SlotHolds'
    BY <1>2 DEF AddNow, CanAdd, NewColumns, WillFreeze, EnsureRunner, Stopping, Held, Exclusion,
       SlotHolds, Turns, RowsOpen, RowsAndProcs, Slots, OneEach, LaneExcludes
  <2>2. KillingKills'
    BY <1>2 DEF AddNow, CanAdd, NewColumns, WillFreeze, EnsureRunner, Stopping, Held, Exclusion,
       KillingKills, SlotHolds, Custody, NoOrphanFreeze, RowsAndProcs, Slots
  <2> QED
    BY <2>1, <2>2 DEF Held
<1>3. ASSUME NEW t \in BOOLEAN, NEW r \in 0..MaxRetries, AddNowRaises(t, r) PROVE Held'
  <2>1. SlotHolds'
    BY <1>3 DEF AddNowRaises, CanAdd, NewColumns, WillFreeze, Stopping, Held, Exclusion, SlotHolds,
       Turns, RowsOpen, RowsAndProcs, Slots, OneEach, LaneExcludes
  <2>2. KillingKills'
    BY <1>3 DEF AddNowRaises, CanAdd, NewColumns, WillFreeze, Stopping, Held, Exclusion, KillingKills,
       SlotHolds, Custody, NoOrphanFreeze, RowsAndProcs, Slots
  <2> QED
    BY <2>1, <2>2 DEF Held
<1>4. ASSUME NEW b \in BOOLEAN, SetPaused(b) PROVE Held'
  <2>1. SlotHolds'
    BY <1>4 DEF SetPaused, Held, Exclusion, SlotHolds, Turns, RowsOpen, RowsAndProcs, Slots, OneEach,
       LaneExcludes
  <2>2. KillingKills'
    BY <1>4 DEF SetPaused, Held, Exclusion, KillingKills, SlotHolds, Custody, NoOrphanFreeze,
       RowsAndProcs, Slots
  <2> QED
    BY <2>1, <2>2 DEF Held
<1>5. ASSUME NEW j \in Ids, CancelQueued(j) PROVE Held'
  <2>1. SlotHolds'
    BY <1>5 DEF CancelQueued, Accept, Held, Exclusion, SlotHolds, Turns, RowsOpen, RowsAndProcs, Slots,
       OneEach, LaneExcludes
  <2>2. KillingKills'
    BY <1>5 DEF CancelQueued, Accept, Held, Exclusion, KillingKills, SlotHolds, Custody,
       NoOrphanFreeze, RowsAndProcs, Slots
  <2> QED
    BY <2>1, <2>2 DEF Held
<1>6. ASSUME NEW j \in Ids, CancelSlot(j) PROVE Held'
  <2>1. SlotHolds'
    BY <1>6 DEF CancelSlot, Accept, Held, Exclusion, SlotHolds, Turns, RowsOpen, RowsAndProcs, Slots,
       OneEach, LaneExcludes
  <2>2. KillingKills'
    BY <1>6 DEF CancelSlot, Accept, Held, Exclusion, KillingKills, SlotHolds, Custody, NoOrphanFreeze,
       RowsAndProcs, Slots
  <2> QED
    BY <2>1, <2>2 DEF Held
<1>7. ASSUME NEW j \in Ids, CancelFrozen(j) PROVE Held'
  <2>1. SlotHolds'
    BY <1>7 DEF CancelFrozen, Accept, Held, Exclusion, SlotHolds, Turns, RowsOpen, RowsAndProcs, Slots,
       OneEach, LaneExcludes
  <2>2. KillingKills'
    BY <1>7 DEF CancelFrozen, Accept, Held, Exclusion, KillingKills, SlotHolds, Custody,
       NoOrphanFreeze, RowsAndProcs, Slots
  <2> QED
    BY <2>1, <2>2 DEF Held
<1>8. ASSUME NEW j \in Ids, WorkerStart(j) \/ LaneStart(j) PROVE Held'
  <2>1. SlotHolds'
    BY <1>8 DEF WorkerStart, LaneStart, Begin, IsHead, Queued, Held, Exclusion, SlotHolds, Turns,
       RowsOpen, RowsAndProcs, Slots, OneEach, LaneExcludes
  <2>2. KillingKills'
    BY <1>8 DEF WorkerStart, LaneStart, Begin, IsHead, Queued, Held, Exclusion, KillingKills,
       SlotHolds, Custody, NoOrphanFreeze, RowsAndProcs, Slots
  <2> QED
    BY <2>1, <2>2 DEF Held
<1>9. ASSUME NEW j \in Ids, SpawnReturns(j) PROVE Held'
  <2>1. SlotHolds'
    <3>1. /\ slot' = j /\ \A k \in Ids \ {j} : pc'[k] = pc[k] /\ proc'[k] = proc[k]
          /\ dying \subseteq dying' /\ pc[j] = "spawn"
      BY <1>9 DEF SpawnReturns
    <3>2. \A k \in Ids \ {j} : pc[k] # "idle" /\ proc[k] = "alive" => k \in dying
      <4> SUFFICES ASSUME NEW k \in Ids \ {j}, pc[k] # "idle", proc[k] = "alive" PROVE k \in dying
        OBVIOUS
      <4>1. prio[k] # prio[j]
        BY <3>1 DEF Exclusion, OneEach
      <4>2. CASE prio[j]
        BY <3>1, <4>1, <4>2 DEF Exclusion, OneEach, LaneExcludes
      <4>3. CASE prio[k]
        BY <3>1, <4>1, <4>3 DEF Exclusion, OneEach, LaneExcludes
      <4> QED
        BY <4>1, <4>2, <4>3
    <3> QED
      BY <3>1, <3>2 DEF SlotHolds
  <2>2. KillingKills'
    BY <1>9 DEF SpawnReturns, Stopping, Held, Exclusion, KillingKills, SlotHolds, Custody,
       NoOrphanFreeze, RowsAndProcs, Slots
  <2> QED
    BY <2>1, <2>2 DEF Held
<1>10. ASSUME NEW j \in Ids, SpawnFails(j) PROVE Held'
  <2>1. SlotHolds'
    BY <1>10 DEF SpawnFails, Record, NewColumns, Held, Exclusion, SlotHolds, Turns, RowsOpen,
       RowsAndProcs, Slots, OneEach, LaneExcludes
  <2>2. KillingKills'
    BY <1>10 DEF SpawnFails, Record, NewColumns, Held, Exclusion, KillingKills, SlotHolds, Custody,
       NoOrphanFreeze, RowsAndProcs, Slots
  <2> QED
    BY <2>1, <2>2 DEF Held
<1>11. ASSUME NEW j \in Ids, WaitReturns(j) PROVE Held'
  <2>1. SlotHolds'
    BY <1>11 DEF WaitReturns, Goto, Held, Exclusion, SlotHolds, Turns, RowsOpen, RowsAndProcs, Slots,
       OneEach, LaneExcludes
  <2>2. KillingKills'
    BY <1>11 DEF WaitReturns, Goto, Held, Exclusion, KillingKills, SlotHolds, Custody, NoOrphanFreeze,
       RowsAndProcs, Slots
  <2> QED
    BY <2>1, <2>2 DEF Held
<1>12. ASSUME NEW j \in Ids, TimeoutFires(j) PROVE Held'
  <2>1. SlotHolds'
    BY <1>12 DEF TimeoutFires, Goto, Held, Exclusion, SlotHolds, Turns, RowsOpen, RowsAndProcs, Slots,
       OneEach, LaneExcludes
  <2>2. KillingKills'
    BY <1>12 DEF TimeoutFires, Goto, Held, Exclusion, KillingKills, SlotHolds, Custody, NoOrphanFreeze,
       RowsAndProcs, Slots
  <2> QED
    BY <2>1, <2>2 DEF Held
<1>13. ASSUME NEW j \in Ids, TimeoutRecords(j) PROVE Held'
  <2>1. SlotHolds'
    BY <1>13 DEF TimeoutRecords, Finish, Forget, Release, Record, NewColumns, Held, Exclusion,
       SlotHolds, Turns, RowsOpen, RowsAndProcs, Slots, OneEach, LaneExcludes
  <2>2. KillingKills'
    BY <1>13 DEF TimeoutRecords, Finish, Forget, Release, Record, NewColumns, Held, Exclusion,
       KillingKills, SlotHolds, Custody, NoOrphanFreeze, RowsAndProcs, Slots
  <2> QED
    BY <2>1, <2>2 DEF Held
<1>14. ASSUME NEW j \in Ids, DrainReturns(j) PROVE Held'
  <2>1. SlotHolds'
    BY <1>14, SMTT(30) DEF DrainReturns, Goto, Finish, Forget, Release, Record, NewColumns, Held, Exclusion,
       SlotHolds, Turns, RowsOpen, RowsAndProcs, Slots, OneEach, LaneExcludes
  <2>2. KillingKills'
    BY <1>14 DEF DrainReturns, Goto, Finish, Forget, Release, Record, NewColumns, Held, Exclusion,
       KillingKills, SlotHolds, Custody, NoOrphanFreeze, RowsAndProcs, Slots
  <2> QED
    BY <2>1, <2>2 DEF Held
<1>15. ASSUME NEW j \in Ids, RaceReturns(j) PROVE Held'
  <2>1. SlotHolds'
    BY <1>15 DEF RaceReturns, Forget, Release, Record, NewColumns, Held, Exclusion, SlotHolds, Turns,
       RowsOpen, RowsAndProcs, Slots, OneEach, LaneExcludes
  <2>2. KillingKills'
    BY <1>15 DEF RaceReturns, Forget, Release, Record, NewColumns, Held, Exclusion, KillingKills,
       SlotHolds, Custody, NoOrphanFreeze, RowsAndProcs, Slots
  <2> QED
    BY <2>1, <2>2 DEF Held
<1>16. ASSUME AdoptLane PROVE Held'
  <2>1. SlotHolds'
    BY <1>16 DEF AdoptLane, Held, Exclusion, SlotHolds, Turns, RowsOpen, RowsAndProcs, Slots, OneEach,
       LaneExcludes
  <2>2. KillingKills'
    BY <1>16 DEF AdoptLane, Held, Exclusion, KillingKills, SlotHolds, Custody, NoOrphanFreeze,
       RowsAndProcs, Slots
  <2> QED
    BY <2>1, <2>2 DEF Held
<1>17. ASSUME LaneEnds PROVE Held'
  <2>1. SlotHolds'
    <3>1. CASE frozen # None /\ ~Stopping
      <4>1. /\ UNCHANGED <<pc, dying>> /\ \A k \in Ids : pc[k] # "idle" => ~prio[k]
        BY <1>17 DEF LaneEnds, Active
      <4>2. \A k \in Ids : pc[k] # "idle" /\ proc[k] = "alive" => k \in dying
        BY <1>17, <4>1 DEF LaneEnds, Exclusion, LaneExcludes
      <4>3. \A k \in Ids : proc'[k] = "alive" => proc[k] = "alive" \/ k = slot'
        BY <1>17, <3>1 DEF LaneEnds, Resume
      <4> QED
        BY <4>1, <4>2, <4>3 DEF SlotHolds
    <3>2. CASE ~(frozen # None /\ ~Stopping)
      BY <1>17, <3>2 DEF LaneEnds, Held, SlotHolds
    <3> QED
      BY <3>1, <3>2
  <2>2. KillingKills'
    BY <1>17 DEF LaneEnds, Resume, Active, Stopping, Held, Exclusion, KillingKills, SlotHolds, Custody,
       NoOrphanFreeze, RowsAndProcs, Slots
  <2> QED
    BY <2>1, <2>2 DEF Held
<1>18. ASSUME NEW j \in Ids, NEW how \in Gone, Exit(j, how) PROVE Held'
  <2>1. SlotHolds'
    BY <1>18 DEF Exit, Held, Exclusion, SlotHolds, Turns, RowsOpen, RowsAndProcs, Slots, OneEach,
       LaneExcludes
  <2>2. KillingKills'
    BY <1>18 DEF Exit, Held, Exclusion, KillingKills, SlotHolds, Custody, NoOrphanFreeze, RowsAndProcs,
       Slots
  <2> QED
    BY <2>1, <2>2 DEF Held
<1>19. ASSUME NEW j \in Ids, KillGroup(j) PROVE Held'
  <2>1. SlotHolds'
    BY <1>19 DEF KillGroup, Exit, Held, Exclusion, SlotHolds, Turns, RowsOpen, RowsAndProcs, Slots,
       OneEach, LaneExcludes
  <2>2. KillingKills'
    BY <1>19 DEF KillGroup, Exit, Held, Exclusion, KillingKills, SlotHolds, Custody, NoOrphanFreeze,
       RowsAndProcs, Slots
  <2> QED
    BY <2>1, <2>2 DEF Held
<1>20. ASSUME StopSignal PROVE Held'
  <2>1. SlotHolds'
    BY <1>20 DEF StopSignal, Held, Exclusion, SlotHolds, Turns, RowsOpen, RowsAndProcs, Slots, OneEach,
       LaneExcludes
  <2>2. KillingKills'
    BY <1>20 DEF StopSignal, Held, Exclusion, KillingKills, SlotHolds, Custody, NoOrphanFreeze,
       RowsAndProcs, Slots
  <2> QED
    BY <2>1, <2>2 DEF Held
<1>21. ASSUME ShutdownKills PROVE Held'
  <2>1. SlotHolds'
    BY <1>21 DEF ShutdownKills, ShutdownTargets, Held, Exclusion, SlotHolds, Turns, RowsOpen,
       RowsAndProcs, Slots, OneEach, LaneExcludes
  <2>2. KillingKills'
    BY <1>21 DEF ShutdownKills, ShutdownTargets, Held, Exclusion, KillingKills, SlotHolds, Custody,
       NoOrphanFreeze, RowsAndProcs, Slots
  <2> QED
    BY <2>1, <2>2 DEF Held
<1>22. ASSUME ShutdownExits PROVE Held'
  <2>1. SlotHolds'
    BY <1>22 DEF ShutdownExits, ForgetMemory, Held, Exclusion, SlotHolds, Turns, RowsOpen,
       RowsAndProcs, Slots, OneEach, LaneExcludes
  <2>2. KillingKills'
    BY <1>22 DEF ShutdownExits, ForgetMemory, Held, Exclusion, KillingKills, SlotHolds, Custody,
       NoOrphanFreeze, RowsAndProcs, Slots
  <2> QED
    BY <2>1, <2>2 DEF Held
<1>23. ASSUME NEW survive \in BOOLEAN, Crash(survive) PROVE Held'
  <2>1. SlotHolds'
    BY <1>23 DEF Crash, ForgetMemory, Held, Exclusion, SlotHolds, Turns, RowsOpen, RowsAndProcs, Slots,
       OneEach, LaneExcludes
  <2>2. KillingKills'
    BY <1>23 DEF Crash, ForgetMemory, Held, Exclusion, KillingKills, SlotHolds, Custody,
       NoOrphanFreeze, RowsAndProcs, Slots
  <2> QED
    BY <2>1, <2>2 DEF Held
<1>24. ASSUME Start PROVE Held'
  <2>1. SlotHolds'
    BY <1>24 DEF Start, OneOf, Held, Exclusion, SlotHolds, Turns, RowsOpen, RowsAndProcs, Slots,
       OneEach, LaneExcludes
  <2>2. KillingKills'
    BY <1>24 DEF Start, OneOf, Held, Exclusion, KillingKills, SlotHolds, Custody, NoOrphanFreeze,
       RowsAndProcs, Slots
  <2> QED
    BY <2>1, <2>2 DEF Held
<1>25. ASSUME UNCHANGED vars PROVE Held'
  <2>1. SlotHolds'
    BY <1>25 DEF vars, Held, Exclusion, SlotHolds, Turns, RowsOpen, RowsAndProcs, Slots, OneEach,
       LaneExcludes
  <2>2. KillingKills'
    BY <1>25 DEF vars, Held, Exclusion, KillingKills, SlotHolds, Custody, NoOrphanFreeze, RowsAndProcs,
       Slots
  <2> QED
    BY <2>1, <2>2 DEF Held
<1> QED
  BY <1>1, <1>2, <1>3, <1>4, <1>5, <1>6, <1>7, <1>8, <1>9, <1>10, <1>11, <1>12, <1>13, <1>14, <1>15,
     <1>16, <1>17, <1>18, <1>19, <1>20, <1>21, <1>22, <1>23, <1>24, <1>25 DEF Next, Request, Runner, Stop

(* A cancel of j cannot be forgotten any more, or has been recorded. *)
Kept(j) == \/ pc[j] \in {"wait", "drain"} /\ j \in cancelled
           \/ pc[j] = "idle" /\ row[j] \notin Unborn \cup {"done", "failed"}

(* What an accepted cancel has come to. *)
Cancels ==
    \A j \in Ids :
        /\ row[j] = "none" => acceptedIn[j] = "no"
        /\ acceptedIn[j] = "idle" => row[j] = "cancelled"
        /\ acceptedIn[j] \in {"wait", "drain"} /\ ~timed[j] => Kept(j)

(* Only a failed job has a retry. *)
Parents == \A k \in Ids : parent[k] # None => row[parent[k]] = "failed"

(* What cancels and retries leave in the table. *)
Answers == Cancels /\ Parents

(* A retry is queued by the job that failed, and no outcome is overwritten. *)
LEMMA ParentsAfterRecord ==
    ASSUME TypeOK, RowsAndProcs, Parents, NEW j \in Ids, row[j] \notin Terminal, row[j] # "none",
           NEW st \in Terminal, Record(j, st)
    PROVE  Parents'
<1>0. \A k \in Ids : parent[k] # None => parent[k] # j /\ parent[k] \in Ids
  BY DEF Parents, Terminal, TypeOK
<1>1. CASE st = "failed" /\ left[j] > 0
  <2>1. NewColumns(FALSE, timed[j], left[j] - 1, j) /\ row' = [row EXCEPT ![j] = "failed", ![nextId] = "queued"]
    BY <1>1 DEF Record
  <2>2. nextId \in Ids /\ row[nextId] = "none" /\ nextId # j /\ parent' = [parent EXCEPT ![nextId] = j]
    BY <2>1, NewRowIsIdle DEF NewColumns
  <2>3. row'[j] = "failed"
    BY <2>1, <2>2 DEF TypeOK
  <2>4. \A k \in Ids : row[k] = "failed" => row'[k] = "failed"
    BY <2>1, <2>2 DEF TypeOK
  <2> QED
    BY <1>0, <2>2, <2>3, <2>4 DEF Parents, TypeOK
<1>2. CASE ~(st = "failed" /\ left[j] > 0)
  <2>1. row' = [row EXCEPT ![j] = st] /\ parent' = parent
    BY <1>2 DEF Record, columns
  <2> QED
    BY <1>0, <2>1 DEF Parents, TypeOK
<1> QED
  BY <1>1, <1>2

(* Recording an outcome touches no other job that is in the table. *)
LEMMA RecordElsewhere ==
    ASSUME TypeOK, RowsAndProcs, NEW j \in Ids, NEW st \in Terminal, Record(j, st),
           pc' = [pc EXCEPT ![j] = "idle"], NEW k \in Ids, k # j, row[k] # "none"
    PROVE  row'[k] = row[k] /\ timed'[k] = timed[k] /\ pc'[k] = pc[k]
<1>1. pc'[k] = pc[k]
  BY DEF TypeOK
<1>2. CASE st = "failed" /\ left[j] > 0
  <2>1. NewColumns(FALSE, timed[j], left[j] - 1, j) /\ row' = [row EXCEPT ![j] = st, ![nextId] = "queued"]
    BY <1>2 DEF Record
  <2>2. k # nextId
    BY <2>1, NewRowIsIdle
  <2> QED
    BY <1>1, <2>1, <2>2 DEF NewColumns, TypeOK
<1>3. CASE ~(st = "failed" /\ left[j] > 0)
  BY <1>1, <1>3 DEF Record, columns, TypeOK
<1> QED
  BY <1>2, <1>3

(* An outcome other than the cancelled job's own leaves what was promised to the others. *)
LEMMA CancelsAfterRecord ==
    ASSUME TypeOK, RowsAndProcs, Cancels, NEW j \in Ids, row[j] \in Open, NEW st \in Terminal, Record(j, st),
           acceptedIn' = acceptedIn, pc' = [pc EXCEPT ![j] = "idle"], cancelled \ {j} \subseteq cancelled',
           st \in {"done", "failed"} => ~Kept(j)
    PROVE  Cancels'
<1> SUFFICES ASSUME NEW k \in Ids
             PROVE  /\ row'[k] = "none" => acceptedIn[k] = "no"
                    /\ acceptedIn[k] = "idle" => row'[k] = "cancelled"
                    /\ acceptedIn[k] \in {"wait", "drain"} /\ ~timed'[k] => Kept(k)'
  BY DEF Cancels
<1>1. CASE k = j
  <2>1. row'[j] = st
    <3>1. CASE st = "failed" /\ left[j] > 0
      <4>1. NewColumns(FALSE, timed[j], left[j] - 1, j) /\ row' = [row EXCEPT ![j] = st, ![nextId] = "queued"]
        BY <3>1 DEF Record
      <4> QED
        BY <4>1, NewRowIsIdle DEF Open, TypeOK
    <3>2. CASE ~(st = "failed" /\ left[j] > 0)
      BY <3>2 DEF Record, TypeOK
    <3> QED
      BY <3>1, <3>2
  <2>2. timed'[j] = timed[j]
    BY NewRowIsIdle DEF Record, NewColumns, Open, columns, TypeOK
  <2>3. acceptedIn[j] # "idle" /\ pc'[j] = "idle"
    BY DEF Cancels, Open, TypeOK
  <2> QED
    BY <1>1, <2>1, <2>2, <2>3 DEF Cancels, Kept, Terminal, Unborn
<1>2. CASE k # j
  <2>1. CASE row[k] = "none"
    <3>1. acceptedIn[k] = "no"
      BY <2>1 DEF Cancels
    <3> QED
      BY <3>1
  <2>2. CASE row[k] # "none"
    <3>1. row'[k] = row[k] /\ timed'[k] = timed[k] /\ pc'[k] = pc[k]
      BY <1>2, <2>2, RecordElsewhere
    <3> QED
      BY <1>2, <2>2, <3>1 DEF Cancels, Kept
  <2> QED
    BY <2>1, <2>2
<1> QED
  BY <1>1, <1>2

(* Every step keeps Answers. *)
LEMMA AnswersStep ==
    ASSUME TypeOK, Grounded, Placed, Custody, Answers, [Next]_vars
    PROVE  Answers'
<1> USE ConstantsOK DEF ConstantsOK, Open, Ids, vars, db, columns, lane, observers, Waiting, Unborn, Live, Gone, None, Serving, Terminal, TypeOK
<1>1. ASSUME NEW t \in BOOLEAN, NEW r \in 0..MaxRetries, AddNormal(t, r) PROVE Answers'
  <2>1. Cancels'
    BY <1>1 DEF AddNormal, CanAdd, NewColumns, Answers, Grounded, Cancels, Kept, Placed, RowsOpen,
       RowsAndProcs, Slots, Custody, StoppedRows
  <2>2. Parents'
    BY <1>1 DEF AddNormal, CanAdd, NewColumns, Answers, Grounded, Parents, Placed, RowsOpen,
       RowsAndProcs, Slots
  <2> QED
    BY <2>1, <2>2 DEF Answers
<1>2. ASSUME NEW t \in BOOLEAN, NEW r \in 0..MaxRetries, AddNow(t, r) PROVE Answers'
  <2>1. Cancels'
    BY <1>2 DEF AddNow, CanAdd, NewColumns, WillFreeze, EnsureRunner, Stopping, Answers, Grounded,
       Cancels, Kept, Placed, RowsOpen, RowsAndProcs, Slots, Custody, StoppedRows
  <2>2. Parents'
    BY <1>2 DEF AddNow, CanAdd, NewColumns, WillFreeze, EnsureRunner, Stopping, Answers, Grounded,
       Parents, Placed, RowsOpen, RowsAndProcs, Slots
  <2> QED
    BY <2>1, <2>2 DEF Answers
<1>3. ASSUME NEW t \in BOOLEAN, NEW r \in 0..MaxRetries, AddNowRaises(t, r) PROVE Answers'
  <2>1. Cancels'
    BY <1>3 DEF AddNowRaises, CanAdd, NewColumns, WillFreeze, Stopping, Answers, Grounded, Cancels,
       Kept, Placed, RowsOpen, RowsAndProcs, Slots, Custody, StoppedRows
  <2>2. Parents'
    BY <1>3 DEF AddNowRaises, CanAdd, NewColumns, WillFreeze, Stopping, Answers, Grounded, Parents,
       Placed, RowsOpen, RowsAndProcs, Slots
  <2> QED
    BY <2>1, <2>2 DEF Answers
<1>4. ASSUME NEW b \in BOOLEAN, SetPaused(b) PROVE Answers'
  <2>1. Cancels'
    BY <1>4 DEF SetPaused, Answers, Grounded, Cancels, Kept, Placed, RowsOpen, RowsAndProcs, Slots,
       Custody, StoppedRows
  <2>2. Parents'
    BY <1>4 DEF SetPaused, Answers, Grounded, Parents, Placed, RowsOpen, RowsAndProcs, Slots
  <2> QED
    BY <2>1, <2>2 DEF Answers
<1>5. ASSUME NEW j \in Ids, CancelQueued(j) PROVE Answers'
  <2>1. Cancels'
    BY <1>5 DEF CancelQueued, Accept, Answers, Grounded, Cancels, Kept, Placed, RowsOpen, RowsAndProcs,
       Slots, Custody, StoppedRows
  <2>2. Parents'
    BY <1>5 DEF CancelQueued, Accept, Answers, Grounded, Parents, Placed, RowsOpen, RowsAndProcs, Slots
  <2> QED
    BY <2>1, <2>2 DEF Answers
<1>6. ASSUME NEW j \in Ids, CancelSlot(j) PROVE Answers'
  <2>1. Cancels'
    BY <1>6 DEF CancelSlot, Accept, Answers, Grounded, Cancels, Kept, Placed, RowsOpen, RowsAndProcs,
       Slots, Custody, StoppedRows
  <2>2. Parents'
    BY <1>6 DEF CancelSlot, Accept, Answers, Grounded, Parents, Placed, RowsOpen, RowsAndProcs, Slots
  <2> QED
    BY <2>1, <2>2 DEF Answers
<1>7. ASSUME NEW j \in Ids, CancelFrozen(j) PROVE Answers'
  <2>1. Cancels'
    BY <1>7 DEF CancelFrozen, Accept, Answers, Grounded, Cancels, Kept, Placed, RowsOpen, RowsAndProcs,
       Slots, Custody, StoppedRows
  <2>2. Parents'
    BY <1>7 DEF CancelFrozen, Accept, Answers, Grounded, Parents, Placed, RowsOpen, RowsAndProcs, Slots
  <2> QED
    BY <2>1, <2>2 DEF Answers
<1>8. ASSUME NEW j \in Ids, WorkerStart(j) \/ LaneStart(j) PROVE Answers'
  <2>1. Cancels'
    <3>1. /\ row[j] = "queued" /\ pc' = [pc EXCEPT ![j] = "spawn"]
          /\ UNCHANGED <<row, timed, parent, cancelled, acceptedIn>>
      BY <1>8 DEF WorkerStart, LaneStart, Begin, IsHead, Queued
    <3> QED
      BY <3>1 DEF Answers, Grounded, RowsAndProcs, Cancels, Kept
  <2>2. Parents'
    <3>1. /\ row[j] = "queued" /\ pc' = [pc EXCEPT ![j] = "spawn"]
          /\ UNCHANGED <<row, timed, parent, cancelled, acceptedIn>>
      BY <1>8 DEF WorkerStart, LaneStart, Begin, IsHead, Queued
    <3> QED
      BY <3>1 DEF Answers, Parents
  <2> QED
    BY <2>1, <2>2 DEF Answers
<1>9. ASSUME NEW j \in Ids, SpawnReturns(j) PROVE Answers'
  <2>1. Cancels'
    BY <1>9 DEF SpawnReturns, Stopping, Answers, Grounded, Cancels, Kept, Placed, RowsOpen,
       RowsAndProcs, Slots, Custody, StoppedRows
  <2>2. Parents'
    BY <1>9 DEF SpawnReturns, Stopping, Answers, Grounded, Parents, Placed, RowsOpen, RowsAndProcs, Slots
  <2> QED
    BY <2>1, <2>2 DEF Answers
<1>10. ASSUME NEW j \in Ids, SpawnFails(j) PROVE Answers'
  <2>1. Cancels'
    BY <1>10, SMTT(30) DEF SpawnFails, Record, NewColumns, Answers, Grounded, Cancels, Kept, Placed, RowsOpen,
       RowsAndProcs, Slots, Custody, StoppedRows
  <2>2. Parents'
    BY <1>10, ParentsAfterRecord DEF SpawnFails, Answers, Grounded, RowsAndProcs
  <2> QED
    BY <2>1, <2>2 DEF Answers
<1>11. ASSUME NEW j \in Ids, WaitReturns(j) PROVE Answers'
  <2>1. Cancels'
    BY <1>11 DEF WaitReturns, Goto, Answers, Grounded, Cancels, Kept, Placed, RowsOpen, RowsAndProcs,
       Slots, Custody, StoppedRows
  <2>2. Parents'
    BY <1>11 DEF WaitReturns, Goto, Answers, Grounded, Parents, Placed, RowsOpen, RowsAndProcs, Slots
  <2> QED
    BY <2>1, <2>2 DEF Answers
<1>12. ASSUME NEW j \in Ids, TimeoutFires(j) PROVE Answers'
  <2>1. Cancels'
    BY <1>12 DEF TimeoutFires, Goto, Answers, Grounded, Cancels, Kept, Placed, RowsOpen, RowsAndProcs,
       Slots, Custody, StoppedRows
  <2>2. Parents'
    BY <1>12 DEF TimeoutFires, Goto, Answers, Grounded, Parents, Placed, RowsOpen, RowsAndProcs, Slots
  <2> QED
    BY <2>1, <2>2 DEF Answers
<1>13. ASSUME NEW j \in Ids, TimeoutRecords(j) PROVE Answers'
  <2>1. Cancels'
    BY <1>13, SMTT(30) DEF TimeoutRecords, Finish, Forget, Release, Record, NewColumns, Answers, Grounded,
       Cancels, Kept, Placed, RowsOpen, RowsAndProcs, Slots, Custody, StoppedRows
  <2>2. Parents'
    BY <1>13, ParentsAfterRecord DEF TimeoutRecords, Finish, Answers, Placed, RowsOpen, Grounded
  <2> QED
    BY <2>1, <2>2 DEF Answers
<1>14. ASSUME NEW j \in Ids, DrainReturns(j) PROVE Answers'
  <2>1. Cancels'
    <3>1. CASE \E st \in Terminal : Finish(j, st) /\ (st \in {"done", "failed"} => j \notin cancelled)
      <4>1. pc[j] = "drain" /\ row[j] \in Open
        BY <1>14 DEF DrainReturns, Placed, RowsOpen
      <4>2. PICK st \in Terminal : Finish(j, st) /\ (st \in {"done", "failed"} => j \notin cancelled)
        BY <3>1
      <4>3. st \in {"done", "failed"} => ~Kept(j)
        BY <4>1, <4>2 DEF Kept
      <4>4. /\ Record(j, st) /\ acceptedIn' = acceptedIn /\ pc' = [pc EXCEPT ![j] = "idle"]
            /\ cancelled \ {j} \subseteq cancelled'
        BY <4>2 DEF Finish, Forget
      <4> QED
        BY <4>1, <4>3, <4>4, CancelsAfterRecord DEF Answers, Grounded
    <3>2. CASE Goto(j, "drain", "race") /\ j \notin cancelled /\ UNCHANGED <<db, phase, lane, cancelled, proc, dying, condemned, stops, observers>>
      BY <3>2 DEF Goto, Answers, Cancels, Kept
    <3> QED
      BY <1>14, <3>1, <3>2 DEF DrainReturns
  <2>2. Parents'
    <3>1. CASE \E st \in Terminal : Finish(j, st)
      BY <1>14, <3>1, ParentsAfterRecord DEF DrainReturns, Finish, Answers, Placed, RowsOpen, Grounded
    <3>2. CASE Goto(j, "drain", "race") /\ j \notin cancelled /\ UNCHANGED <<db, phase, lane, cancelled, proc, dying, condemned, stops, observers>>
      BY <3>2 DEF Goto, Answers, Parents
    <3> QED
      BY <1>14, <3>1, <3>2 DEF DrainReturns
  <2> QED
    BY <2>1, <2>2 DEF Answers
<1>15. ASSUME NEW j \in Ids, RaceReturns(j) PROVE Answers'
  <2>1. Cancels'
    BY <1>15, SMTT(30) DEF RaceReturns, Forget, Release, Record, NewColumns, Answers, Grounded, Cancels, Kept,
       Placed, RowsOpen, RowsAndProcs, Slots, Custody, StoppedRows
  <2>2. Parents'
    BY <1>15, ParentsAfterRecord DEF RaceReturns, Answers, Placed, RowsOpen, Grounded
  <2> QED
    BY <2>1, <2>2 DEF Answers
<1>16. ASSUME AdoptLane PROVE Answers'
  <2>1. Cancels'
    BY <1>16 DEF AdoptLane, Answers, Grounded, Cancels, Kept, Placed, RowsOpen, RowsAndProcs, Slots,
       Custody, StoppedRows
  <2>2. Parents'
    BY <1>16 DEF AdoptLane, Answers, Grounded, Parents, Placed, RowsOpen, RowsAndProcs, Slots
  <2> QED
    BY <2>1, <2>2 DEF Answers
<1>17. ASSUME LaneEnds PROVE Answers'
  <2>1. Cancels'
    BY <1>17 DEF LaneEnds, Resume, Active, Stopping, Answers, Grounded, Cancels, Kept, Placed,
       RowsOpen, RowsAndProcs, Slots, Custody, StoppedRows
  <2>2. Parents'
    BY <1>17 DEF LaneEnds, Resume, Active, Stopping, Answers, Grounded, Parents, Placed, RowsOpen,
       RowsAndProcs, Slots
  <2> QED
    BY <2>1, <2>2 DEF Answers
<1>18. ASSUME NEW j \in Ids, NEW how \in Gone, Exit(j, how) PROVE Answers'
  <2>1. Cancels'
    BY <1>18 DEF Exit, Answers, Grounded, Cancels, Kept, Placed, RowsOpen, RowsAndProcs, Slots,
       Custody, StoppedRows
  <2>2. Parents'
    BY <1>18 DEF Exit, Answers, Grounded, Parents, Placed, RowsOpen, RowsAndProcs, Slots
  <2> QED
    BY <2>1, <2>2 DEF Answers
<1>19. ASSUME NEW j \in Ids, KillGroup(j) PROVE Answers'
  <2>1. Cancels'
    BY <1>19 DEF KillGroup, Exit, Answers, Grounded, Cancels, Kept, Placed, RowsOpen, RowsAndProcs,
       Slots, Custody, StoppedRows
  <2>2. Parents'
    BY <1>19 DEF KillGroup, Exit, Answers, Grounded, Parents, Placed, RowsOpen, RowsAndProcs, Slots
  <2> QED
    BY <2>1, <2>2 DEF Answers
<1>20. ASSUME StopSignal PROVE Answers'
  <2>1. Cancels'
    BY <1>20 DEF StopSignal, Answers, Grounded, Cancels, Kept, Placed, RowsOpen, RowsAndProcs, Slots,
       Custody, StoppedRows
  <2>2. Parents'
    BY <1>20 DEF StopSignal, Answers, Grounded, Parents, Placed, RowsOpen, RowsAndProcs, Slots
  <2> QED
    BY <2>1, <2>2 DEF Answers
<1>21. ASSUME ShutdownKills PROVE Answers'
  <2>1. Cancels'
    BY <1>21 DEF ShutdownKills, ShutdownTargets, Answers, Grounded, Cancels, Kept, Placed, RowsOpen,
       RowsAndProcs, Slots, Custody, StoppedRows
  <2>2. Parents'
    BY <1>21 DEF ShutdownKills, ShutdownTargets, Answers, Grounded, Parents, Placed, RowsOpen,
       RowsAndProcs, Slots
  <2> QED
    BY <2>1, <2>2 DEF Answers
<1>22. ASSUME ShutdownExits PROVE Answers'
  <2>1. Cancels'
    BY <1>22 DEF ShutdownExits, ForgetMemory, Answers, Grounded, Cancels, Kept, Placed, RowsOpen,
       RowsAndProcs, Slots, Custody, StoppedRows
  <2>2. Parents'
    BY <1>22 DEF ShutdownExits, ForgetMemory, Answers, Grounded, Parents, Placed, RowsOpen,
       RowsAndProcs, Slots
  <2> QED
    BY <2>1, <2>2 DEF Answers
<1>23. ASSUME NEW survive \in BOOLEAN, Crash(survive) PROVE Answers'
  <2>1. Cancels'
    BY <1>23 DEF Crash, ForgetMemory, Answers, Grounded, Cancels, Kept, Placed, RowsOpen, RowsAndProcs,
       Slots, Custody, StoppedRows
  <2>2. Parents'
    BY <1>23 DEF Crash, ForgetMemory, Answers, Grounded, Parents, Placed, RowsOpen, RowsAndProcs, Slots
  <2> QED
    BY <2>1, <2>2 DEF Answers
<1>24. ASSUME Start PROVE Answers'
  <2>1. Cancels'
    BY <1>24 DEF Start, OneOf, Answers, Grounded, Cancels, Kept, Placed, RowsOpen, RowsAndProcs, Slots,
       Custody, StoppedRows
  <2>2. Parents'
    BY <1>24 DEF Start, OneOf, Answers, Grounded, Parents, Placed, RowsOpen, RowsAndProcs, Slots
  <2> QED
    BY <2>1, <2>2 DEF Answers
<1>25. ASSUME UNCHANGED vars PROVE Answers'
  <2>1. Cancels'
    BY <1>25 DEF vars, Answers, Grounded, Cancels, Kept, Placed, RowsOpen, RowsAndProcs, Slots,
       Custody, StoppedRows
  <2>2. Parents'
    BY <1>25 DEF vars, Answers, Grounded, Parents, Placed, RowsOpen, RowsAndProcs, Slots
  <2> QED
    BY <2>1, <2>2 DEF Answers
<1> QED
  BY <1>1, <1>2, <1>3, <1>4, <1>5, <1>6, <1>7, <1>8, <1>9, <1>10, <1>11, <1>12, <1>13, <1>14, <1>15,
     <1>16, <1>17, <1>18, <1>19, <1>20, <1>21, <1>22, <1>23, <1>24, <1>25 DEF Next, Request, Runner, Stop

(* No row is open but that of a job this daemon waits for. *)
Accounted == NoStaleRows /\ CleanStop

(* The daemon exits when every job has been given its outcome: nobody waits any more. *)
LEMMA StopFindsNobody ==
    ASSUME LongGrace = FALSE, TypeOK, Exclusion, Held, ShutdownExits
    PROVE  \A j \in Ids : pc[j] = "idle"
BY DEF ShutdownExits, Outlasts, Held, KillingKills

(* Every step but a crash keeps Accounted. *)
LEMMA AccountedStep ==
    ASSUME NowDuringSpawn = FALSE, LongGrace = FALSE, TypeOK, Exclusion, Turns, Held, Accounted,
           phase # "crashed", phase' # "crashed", [Next]_vars
    PROVE  Accounted'
<1> USE ConstantsOK DEF ConstantsOK, Open, Ids, vars, db, columns, lane, observers, Waiting, Unborn, Live, Gone, None, Serving, Terminal, TypeOK
<1>1. ASSUME NEW t \in BOOLEAN, NEW r \in 0..MaxRetries, AddNormal(t, r) PROVE Accounted'
  <2>1. NoStaleRows'
    BY <1>1 DEF AddNormal, CanAdd, NewColumns, Accounted, Exclusion, NoStaleRows, CleanStop, Turns,
       RowsOpen, RowsAndProcs, Slots
  <2>2. CleanStop'
    BY <1>1 DEF AddNormal, CanAdd, NewColumns, Accounted, Exclusion, NoStaleRows, CleanStop
  <2> QED
    BY <2>1, <2>2 DEF Accounted
<1>2. ASSUME NEW t \in BOOLEAN, NEW r \in 0..MaxRetries, AddNow(t, r) PROVE Accounted'
  <2>1. NoStaleRows'
    BY <1>2 DEF AddNow, CanAdd, NewColumns, WillFreeze, EnsureRunner, Stopping, Accounted, Exclusion,
       NoStaleRows, CleanStop, Turns, RowsOpen, RowsAndProcs, Slots
  <2>2. CleanStop'
    BY <1>2 DEF AddNow, CanAdd, NewColumns, WillFreeze, EnsureRunner, Stopping, Accounted, Exclusion,
       NoStaleRows, CleanStop
  <2> QED
    BY <2>1, <2>2 DEF Accounted
<1>3. ASSUME NEW t \in BOOLEAN, NEW r \in 0..MaxRetries, AddNowRaises(t, r) PROVE Accounted'
  <2>1. NoStaleRows'
    BY <1>3 DEF AddNowRaises, CanAdd, NewColumns, WillFreeze, Stopping, Accounted, Exclusion,
       NoStaleRows, CleanStop, Turns, RowsOpen, RowsAndProcs, Slots
  <2>2. CleanStop'
    BY <1>3 DEF AddNowRaises, CanAdd, NewColumns, WillFreeze, Stopping, Accounted, Exclusion,
       NoStaleRows, CleanStop
  <2> QED
    BY <2>1, <2>2 DEF Accounted
<1>4. ASSUME NEW b \in BOOLEAN, SetPaused(b) PROVE Accounted'
  <2>1. NoStaleRows'
    BY <1>4 DEF SetPaused, Accounted, Exclusion, NoStaleRows, CleanStop, Turns, RowsOpen, RowsAndProcs,
       Slots
  <2>2. CleanStop'
    BY <1>4 DEF SetPaused, Accounted, Exclusion, NoStaleRows, CleanStop
  <2> QED
    BY <2>1, <2>2 DEF Accounted
<1>5. ASSUME NEW j \in Ids, CancelQueued(j) PROVE Accounted'
  <2>1. NoStaleRows'
    BY <1>5 DEF CancelQueued, Accept, Accounted, Exclusion, NoStaleRows, CleanStop, Turns, RowsOpen,
       RowsAndProcs, Slots
  <2>2. CleanStop'
    BY <1>5 DEF CancelQueued, Accept, Accounted, Exclusion, NoStaleRows, CleanStop
  <2> QED
    BY <2>1, <2>2 DEF Accounted
<1>6. ASSUME NEW j \in Ids, CancelSlot(j) PROVE Accounted'
  <2>1. NoStaleRows'
    BY <1>6 DEF CancelSlot, Accept, Accounted, Exclusion, NoStaleRows, CleanStop, Turns, RowsOpen,
       RowsAndProcs, Slots
  <2>2. CleanStop'
    BY <1>6 DEF CancelSlot, Accept, Accounted, Exclusion, NoStaleRows, CleanStop
  <2> QED
    BY <2>1, <2>2 DEF Accounted
<1>7. ASSUME NEW j \in Ids, CancelFrozen(j) PROVE Accounted'
  <2>1. NoStaleRows'
    BY <1>7 DEF CancelFrozen, Accept, Accounted, Exclusion, NoStaleRows, CleanStop, Turns, RowsOpen,
       RowsAndProcs, Slots
  <2>2. CleanStop'
    BY <1>7 DEF CancelFrozen, Accept, Accounted, Exclusion, NoStaleRows, CleanStop
  <2> QED
    BY <2>1, <2>2 DEF Accounted
<1>8. ASSUME NEW j \in Ids, WorkerStart(j) \/ LaneStart(j) PROVE Accounted'
  <2>1. NoStaleRows'
    <3>1. /\ row[j] = "queued" /\ pc' = [pc EXCEPT ![j] = "spawn"] /\ UNCHANGED <<row, phase>>
      BY <1>8 DEF WorkerStart, LaneStart, Begin, IsHead, Queued
    <3> QED
      BY <3>1 DEF Accounted, NoStaleRows
  <2>2. CleanStop'
    BY <1>8 DEF WorkerStart, LaneStart, Begin, IsHead, Queued, Accounted, Exclusion, NoStaleRows,
       CleanStop
  <2> QED
    BY <2>1, <2>2 DEF Accounted
<1>9. ASSUME NEW j \in Ids, SpawnReturns(j) PROVE Accounted'
  <2>1. NoStaleRows'
    BY <1>9 DEF SpawnReturns, Stopping, Accounted, Exclusion, NoStaleRows, CleanStop, Turns, RowsOpen,
       RowsAndProcs, Slots
  <2>2. CleanStop'
    BY <1>9 DEF SpawnReturns, Stopping, Accounted, Exclusion, NoStaleRows, CleanStop
  <2> QED
    BY <2>1, <2>2 DEF Accounted
<1>10. ASSUME NEW j \in Ids, SpawnFails(j) PROVE Accounted'
  <2>1. NoStaleRows'
    BY <1>10, SMTT(30) DEF SpawnFails, Record, NewColumns, Accounted, Exclusion, NoStaleRows, CleanStop, Turns,
       RowsOpen, RowsAndProcs, Slots
  <2>2. CleanStop'
    BY <1>10 DEF SpawnFails, Record, NewColumns, Accounted, Exclusion, NoStaleRows, CleanStop
  <2> QED
    BY <2>1, <2>2 DEF Accounted
<1>11. ASSUME NEW j \in Ids, WaitReturns(j) PROVE Accounted'
  <2>1. NoStaleRows'
    BY <1>11 DEF WaitReturns, Goto, Accounted, Exclusion, NoStaleRows, CleanStop, Turns, RowsOpen,
       RowsAndProcs, Slots
  <2>2. CleanStop'
    BY <1>11 DEF WaitReturns, Goto, Accounted, Exclusion, NoStaleRows, CleanStop
  <2> QED
    BY <2>1, <2>2 DEF Accounted
<1>12. ASSUME NEW j \in Ids, TimeoutFires(j) PROVE Accounted'
  <2>1. NoStaleRows'
    BY <1>12 DEF TimeoutFires, Goto, Accounted, Exclusion, NoStaleRows, CleanStop, Turns, RowsOpen,
       RowsAndProcs, Slots
  <2>2. CleanStop'
    BY <1>12 DEF TimeoutFires, Goto, Accounted, Exclusion, NoStaleRows, CleanStop
  <2> QED
    BY <2>1, <2>2 DEF Accounted
<1>13. ASSUME NEW j \in Ids, TimeoutRecords(j) PROVE Accounted'
  <2>1. NoStaleRows'
    BY <1>13 DEF TimeoutRecords, Finish, Forget, Release, Record, NewColumns, Accounted, Exclusion,
       NoStaleRows, CleanStop, Turns, RowsOpen, RowsAndProcs, Slots
  <2>2. CleanStop'
    BY <1>13 DEF TimeoutRecords, Finish, Forget, Release, Record, NewColumns, Accounted, Exclusion,
       NoStaleRows, CleanStop
  <2> QED
    BY <2>1, <2>2 DEF Accounted
<1>14. ASSUME NEW j \in Ids, DrainReturns(j) PROVE Accounted'
  <2>1. NoStaleRows'
    BY <1>14, SMTT(30) DEF DrainReturns, Goto, Finish, Forget, Release, Record, NewColumns, Accounted, Exclusion,
       NoStaleRows, CleanStop, Turns, RowsOpen, RowsAndProcs, Slots
  <2>2. CleanStop'
    BY <1>14 DEF DrainReturns, Goto, Finish, Forget, Release, Record, NewColumns, Accounted, Exclusion,
       NoStaleRows, CleanStop
  <2> QED
    BY <2>1, <2>2 DEF Accounted
<1>15. ASSUME NEW j \in Ids, RaceReturns(j) PROVE Accounted'
  <2>1. NoStaleRows'
    BY <1>15 DEF RaceReturns, Forget, Release, Record, NewColumns, Accounted, Exclusion, NoStaleRows,
       CleanStop, Turns, RowsOpen, RowsAndProcs, Slots
  <2>2. CleanStop'
    BY <1>15 DEF RaceReturns, Forget, Release, Record, NewColumns, Accounted, Exclusion, NoStaleRows,
       CleanStop
  <2> QED
    BY <2>1, <2>2 DEF Accounted
<1>16. ASSUME AdoptLane PROVE Accounted'
  <2>1. NoStaleRows'
    BY <1>16 DEF AdoptLane, Accounted, Exclusion, NoStaleRows, CleanStop, Turns, RowsOpen,
       RowsAndProcs, Slots
  <2>2. CleanStop'
    BY <1>16 DEF AdoptLane, Accounted, Exclusion, NoStaleRows, CleanStop
  <2> QED
    BY <2>1, <2>2 DEF Accounted
<1>17. ASSUME LaneEnds PROVE Accounted'
  <2>1. NoStaleRows'
    BY <1>17 DEF LaneEnds, Resume, Active, Stopping, Accounted, Exclusion, NoStaleRows, CleanStop,
       Turns, RowsOpen, RowsAndProcs, Slots
  <2>2. CleanStop'
    BY <1>17 DEF LaneEnds, Resume, Active, Stopping, Accounted, Exclusion, NoStaleRows, CleanStop
  <2> QED
    BY <2>1, <2>2 DEF Accounted
<1>18. ASSUME NEW j \in Ids, NEW how \in Gone, Exit(j, how) PROVE Accounted'
  <2>1. NoStaleRows'
    BY <1>18 DEF Exit, Accounted, Exclusion, NoStaleRows, CleanStop, Turns, RowsOpen, RowsAndProcs, Slots
  <2>2. CleanStop'
    BY <1>18 DEF Exit, Accounted, Exclusion, NoStaleRows, CleanStop
  <2> QED
    BY <2>1, <2>2 DEF Accounted
<1>19. ASSUME NEW j \in Ids, KillGroup(j) PROVE Accounted'
  <2>1. NoStaleRows'
    BY <1>19 DEF KillGroup, Exit, Accounted, Exclusion, NoStaleRows, CleanStop, Turns, RowsOpen,
       RowsAndProcs, Slots
  <2>2. CleanStop'
    BY <1>19 DEF KillGroup, Exit, Accounted, Exclusion, NoStaleRows, CleanStop
  <2> QED
    BY <2>1, <2>2 DEF Accounted
<1>20. ASSUME StopSignal PROVE Accounted'
  <2>1. NoStaleRows'
    BY <1>20 DEF StopSignal, Accounted, Exclusion, NoStaleRows, CleanStop, Turns, RowsOpen,
       RowsAndProcs, Slots
  <2>2. CleanStop'
    BY <1>20 DEF StopSignal, Accounted, Exclusion, NoStaleRows, CleanStop
  <2> QED
    BY <2>1, <2>2 DEF Accounted
<1>21. ASSUME ShutdownKills PROVE Accounted'
  <2>1. NoStaleRows'
    BY <1>21 DEF ShutdownKills, ShutdownTargets, Accounted, Exclusion, NoStaleRows, CleanStop, Turns,
       RowsOpen, RowsAndProcs, Slots
  <2>2. CleanStop'
    BY <1>21 DEF ShutdownKills, ShutdownTargets, Accounted, Exclusion, NoStaleRows, CleanStop
  <2> QED
    BY <2>1, <2>2 DEF Accounted
<1>22. ASSUME ShutdownExits PROVE Accounted'
  <2>1. NoStaleRows'
    BY <1>22 DEF ShutdownExits, ForgetMemory, Accounted, Exclusion, NoStaleRows, CleanStop, Turns,
       RowsOpen, RowsAndProcs, Slots
  <2>2. CleanStop'
    <3>1. \A j \in Ids : row[j] \notin Open
      BY <1>22, StopFindsNobody DEF ShutdownExits, Accounted, NoStaleRows
    <3> QED
      BY <1>22, <3>1 DEF ShutdownExits, CleanStop
  <2> QED
    BY <2>1, <2>2 DEF Accounted
<1>23. ASSUME NEW survive \in BOOLEAN, Crash(survive) PROVE Accounted'
  <2>1. NoStaleRows'
    BY <1>23 DEF Crash, ForgetMemory, Accounted, Exclusion, NoStaleRows, CleanStop, Turns, RowsOpen,
       RowsAndProcs, Slots
  <2>2. CleanStop'
    BY <1>23 DEF Crash, ForgetMemory, Accounted, Exclusion, NoStaleRows, CleanStop
  <2> QED
    BY <2>1, <2>2 DEF Accounted
<1>24. ASSUME Start PROVE Accounted'
  <2>1. NoStaleRows'
    BY <1>24 DEF Start, OneOf, Accounted, Exclusion, NoStaleRows, CleanStop, Turns, RowsOpen,
       RowsAndProcs, Slots
  <2>2. CleanStop'
    BY <1>24 DEF Start, OneOf, Accounted, Exclusion, NoStaleRows, CleanStop
  <2> QED
    BY <2>1, <2>2 DEF Accounted
<1>25. ASSUME UNCHANGED vars PROVE Accounted'
  <2>1. NoStaleRows'
    BY <1>25 DEF vars, Accounted, Exclusion, NoStaleRows, CleanStop, Turns, RowsOpen, RowsAndProcs, Slots
  <2>2. CleanStop'
    BY <1>25 DEF vars, Accounted, Exclusion, NoStaleRows, CleanStop
  <2> QED
    BY <2>1, <2>2 DEF Accounted
<1> QED
  BY <1>1, <1>2, <1>3, <1>4, <1>5, <1>6, <1>7, <1>8, <1>9, <1>10, <1>11, <1>12, <1>13, <1>14, <1>15,
     <1>16, <1>17, <1>18, <1>19, <1>20, <1>21, <1>22, <1>23, <1>24, <1>25 DEF Next, Request, Runner, Stop

(* What holds of a channel whenever a `--now` job arrives ... *)
ChannelInv == TypeOK /\ Grounded /\ Placed /\ Custody /\ Answers

(* ... and what holds as long as none arrives while a normal job's process is being created. *)
StrictInv == ChannelInv /\ Exclusion /\ Turns /\ Held

(* The initial state satisfies both invariants. *)
LEMMA ChannelInvInit == ASSUME Init PROVE StrictInv
<1>1. Custody /\ Held
  BY DEF Init, Custody, Held, SlotHolds, NoOrphanFreeze, KillingKills, FrozenKilled, StoppedRows
<1>2. Answers
  BY DEF Init, Answers, Cancels, Parents
<1>3. Exclusion /\ Grounded
  BY ExclusionInit DEF Exclusion, Grounded
<1>4. Turns /\ Placed
  BY TurnsInit DEF Turns, Placed
<1> QED
  BY <1>1, <1>2, <1>3, <1>4, TypeInit DEF ChannelInv, StrictInv

(* Every step keeps ChannelInv. *)
LEMMA ChannelInvStep == ASSUME ChannelInv, [Next]_vars PROVE ChannelInv'
BY TypeStep, GroundedStep, PlacedStep, CustodyStep, AnswersStep DEF ChannelInv

(* ChannelInv is invariant, whenever `--now` jobs arrive. *)
LEMMA ChannelInvariant == Spec => []ChannelInv
<1>1. Init => ChannelInv
  BY ChannelInvInit DEF StrictInv
<1> QED
  BY <1>1, ChannelInvStep, PTL DEF Spec

(* StrictInv is invariant, unless a `--now` job arrives during a spawn. *)
LEMMA StrictInvariant == ASSUME NowDuringSpawn = FALSE PROVE Spec => []StrictInv
<1>1. StrictInv /\ [Next]_vars => StrictInv'
  BY ChannelInvStep, ExclusionStep, TurnsStep, HeldStep DEF ChannelInv, StrictInv
<1> QED
  BY <1>1, ChannelInvInit, PTL DEF Spec

(* README.md:526: a live process the daemon waits for is named by a slot or  *)
(* is being killed, for every number of jobs, retries, stops and crashes; no *)
(* `--now` may arrive while a normal job's process is being created.         *)
THEOREM AlwaysReachable == ASSUME NowDuringSpawn = FALSE PROVE Spec => []Reachable
<1>1. StrictInv => Reachable
  BY DEF StrictInv, ChannelInv, Custody, Held, SlotHolds, NoOrphanFreeze, Reachable, Live
<1> QED
  BY <1>1, StrictInvariant, PTL

(* A process stopped by SIGSTOP always has somebody who will continue or    *)
(* kill it, whenever `--now` jobs and cancels arrive.                       *)
THEOREM FrozenIsHeld == Spec => []NoOrphanFreeze
<1>1. ChannelInv => NoOrphanFreeze
  BY DEF ChannelInv, Custody
<1> QED
  BY <1>1, ChannelInvariant, PTL

(* After any number of stops and crashes no job is left `stopped` with       *)
(* nobody to continue it: there never is more than one such row for          *)
(* `_recover_on_startup` to find.                                            *)
THEOREM StoppedIsRecovered == Spec => []StoppedRowsRecovered
<1>1. ChannelInv => StoppedRowsRecovered
  BY DEF ChannelInv, Custody, StoppedRows, StoppedRowsRecovered
<1> QED
  BY <1>1, ChannelInvariant, PTL

(* A cancel accepted before the outcome was being decided is what the row of *)
(* a job without a timeout ends up saying, whatever happens in between.      *)
THEOREM CancelWins == Spec => []CancelIsHonoured
<1>1. ChannelInv => CancelIsHonoured
  <2> SUFFICES ASSUME ChannelInv, NEW j \in Ids, acceptedIn[j] \in {"idle", "wait", "drain"}, ~timed[j]
               PROVE  row[j] \notin {"done", "failed"}
    BY DEF CancelIsHonoured
  <2>1. CASE acceptedIn[j] = "idle"
    BY <2>1 DEF ChannelInv, Answers, Cancels
  <2>2. CASE Kept(j)
    BY <2>2 DEF ChannelInv, Placed, RowsOpen, Waiting, Open, Kept
  <2> QED
    BY <2>1, <2>2 DEF ChannelInv, Answers, Cancels
<1> QED
  BY <1>1, ChannelInvariant, PTL

(* README.md:305: the job whose cancel was accepted like that has no retry. *)
NoRetryOfCancelled ==
    \A k \in Ids : parent[k] # None /\ ~timed[parent[k]] => acceptedIn[parent[k]] \notin {"idle", "wait", "drain"}

(* README.md:305 and :539: cancelled jobs are never retried, as far as the *)
(* cancel is honoured at all (CancelWins).                                 *)
THEOREM CancelledNotRetried == Spec => []NoRetryOfCancelled
<1>1. ChannelInv /\ CancelIsHonoured => NoRetryOfCancelled
  BY DEF ChannelInv, Answers, Parents, CancelIsHonoured, NoRetryOfCancelled, TypeOK, None
<1> QED
  BY <1>1, ChannelInvariant, CancelWins, PTL

(* README.md:976: the daemon does not exit of itself while it waits for a job. *)
StopAbandonsNobody == [][phase # "stopped" /\ phase' = "stopped" => \A j \in Ids : pc[j] = "idle"]_vars

(* README.md:976: a stop ends when the daemon waits for no job any more, also *)
(* after crashes; nobody's grace may outlast the shutdown (LongGrace).        *)
THEOREM StopWaitsForJobs ==
    ASSUME NowDuringSpawn = FALSE, LongGrace = FALSE
    PROVE  Spec => StopAbandonsNobody
<1>1. ASSUME StrictInv, [Next]_vars, phase # "stopped", phase' = "stopped" PROVE \A j \in Ids : pc[j] = "idle"
  <2>1. ShutdownExits
    BY <1>1 DEF Next, Request, Runner, Stop, vars, db, columns, lane, observers, Serving, AddNormal,
       AddNow, AddNowRaises,
       SetPaused, CancelQueued, CancelSlot, CancelFrozen, WorkerStart, LaneStart, Begin, SpawnReturns,
       SpawnFails, WaitReturns, TimeoutFires, TimeoutRecords, DrainReturns, RaceReturns, Finish, Goto,
       AdoptLane, LaneEnds, Exit, KillGroup, StopSignal, ShutdownKills, Crash, Start
  <2> QED
    BY <1>1, <2>1, StopFindsNobody DEF StrictInv, ChannelInv
<1>2. StrictInv /\ [Next]_vars => [phase # "stopped" /\ phase' = "stopped" => \A j \in Ids : pc[j] = "idle"]_vars
  BY <1>1
<1> QED
  BY <1>2, StrictInvariant, PTL DEF Spec, StopAbandonsNobody

(* README.md:976: after any number of clean stops, none of them leaves a row *)
(* running or stopped.  A crash may leave two running rows, of which a start *)
(* recovers one, so the theorem is about the behaviours without a crash.     *)
THEOREM StopIsClean ==
    ASSUME NowDuringSpawn = FALSE, LongGrace = FALSE
    PROVE  Spec /\ [](phase # "crashed") => []CleanStop
<1> DEFINE NoCrash == phase # "crashed"
<1>1. Init => Accounted
  BY DEF Init, Accounted, NoStaleRows, CleanStop
<1>2. StrictInv /\ NoCrash /\ NoCrash' /\ Accounted /\ [Next]_vars => Accounted'
  BY AccountedStep DEF StrictInv, ChannelInv
<1>3. Accounted => CleanStop
  BY DEF Accounted
<1>4. Spec /\ []NoCrash => []CleanStop
  <2> HIDE DEF NoCrash
  <2> QED
    BY <1>1, <1>2, <1>3, StrictInvariant, PTL DEF Spec
<1> QED
  BY <1>4

=============================================================================
