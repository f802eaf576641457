------------------------------ MODULE Channel ------------------------------
(***************************************************************************)
(* One channel of the queuer daemon (src/src/queuer/daemon.py): its normal *)
(* worker, its priority (`--now`) lane, the processes of its jobs and the  *)
(* rows of the jobs table they write.                                      *)
(*                                                                         *)
(* The daemon is one asyncio event loop, so a step of this model is what a *)
(* coroutine does between two awaits.  `pc[j]` is the await at which the   *)
(* coroutine `_run_job(j)` is suspended.  A process group is treated as    *)
(* one thing: it runs, is stopped by SIGSTOP, or is gone with an outcome.  *)
(*                                                                         *)
(* Dependencies, queue positions, history pruning and edit locks are the   *)
(* subject of module JobStore; here a lane is served in the order of ids.  *)
(***************************************************************************)
EXTENDS Naturals, FiniteSets, FiniteSetsExt

CONSTANTS
    MaxId,          \* bound: ids the channel may hand out
    MaxRetries,     \* bound: the largest `--retries` of an add
    MaxStops,       \* bound: stops and crashes of the daemon
    Timeouts,       \* whether jobs may be added with `--timeout`
    NowDuringSpawn, \* whether `--now` may arrive while a normal job's process is being created
    LongGrace       \* whether a cancel's grace may outlast the daemon's own shutdown

ASSUME ConstantsOK ==
    /\ MaxId \in Nat /\ MaxRetries \in Nat /\ MaxStops \in Nat
    /\ Timeouts \in BOOLEAN /\ NowDuringSpawn \in BOOLEAN /\ LongGrace \in BOOLEAN

Ids == 1..MaxId
None == 0

Terminal == {"done", "failed", "cancelled", "interrupted"}
Status == Terminal \cup {"none", "queued", "running", "stopped"}
Gone == {"ok", "error", "signal"}                   \* how a process group ended
Live == {"alive", "frozen"}
Stage == {"idle", "spawn", "wait", "timeout", "drain", "race"}
Phase == {"up", "stopping", "killing", "stopped", "crashed"}
Serving == {"up", "stopping", "killing"}            \* phases with a daemon process

VARIABLES
    (* the database: survives a crash *)
    row, prio, timed, left, parent, nextId, paused,
    (* the daemon's memory *)
    phase, pc, slot, frozen, laneTask, cancelled,
    (* the operating system *)
    proc, dying, condemned,
    (* observers: stops so far, where each accepted cancel found its job, and *)
    (* the jobs whose add was answered with an error                          *)
    stops, acceptedIn, refused

columns == <<prio, timed, left, parent, nextId>>
db == <<row, columns, paused>>
lane == <<slot, frozen, laneTask>>
observers == <<acceptedIn, refused>>
vars == <<db, phase, pc, lane, cancelled, proc, dying, condemned, stops, observers>>

----------------------------------------------------------------------------
(* Helpers                                                                 *)

Queued(p) == {j \in Ids : row[j] = "queued" /\ prio[j] = p}

(* Mutant: the lane is served in no order. *)
IsQueued(j, p) == j \in Queued(p)

(* get_queue_head *)
IsHead(j, p) == j \in Queued(p) /\ \A i \in Queued(p) : j <= i

Active(p) == {j \in Ids : pc[j] # "idle" /\ prio[j] = p}

(* `_stopping.is_set()` *)
Stopping == phase \in {"stopping", "killing"}

(* Mutant: only the current slot is looked at, so a `--now` job that is *)
(* still starting up is not noticed.                                    *)
LaneBusyBySlot == slot # None

(* `_lane_busy`, its side effect excepted (AdoptLane) *)
LaneBusy == slot # None \/ laneTask \/ Queued(TRUE) # {}

(* Retries still owed to jobs that have not ended: ids kept free for them. *)
Owed == MapThenSumSet(LAMBDA j : left[j], {j \in Ids : row[j] \in {"queued", "running", "stopped"}})

Init ==
    /\ row = [j \in Ids |-> "none"]
    /\ prio = [j \in Ids |-> FALSE]
    /\ timed = [j \in Ids |-> FALSE]
    /\ left = [j \in Ids |-> 0]
    /\ parent = [j \in Ids |-> None]
    /\ nextId = 1
    /\ paused = FALSE
    /\ phase = "up"
    /\ pc = [j \in Ids |-> "idle"]
    /\ slot = None /\ frozen = None /\ laneTask = FALSE
    /\ cancelled = {}
    /\ proc = [j \in Ids |-> "none"]
    /\ dying = {} /\ condemned = {}
    /\ stops = 0
    /\ acceptedIn = [j \in Ids |-> "no"]
    /\ refused = {}

----------------------------------------------------------------------------
(* Requests                                                                *)

(* db.enqueue at the end of a lane: the columns of the new row. *)
NewColumns(p, t, r, from) ==
    /\ nextId \in Ids
    /\ nextId' = nextId + 1
    /\ prio' = [prio EXCEPT ![nextId] = p]
    /\ timed' = [timed EXCEPT ![nextId] = t]
    /\ left' = [left EXCEPT ![nextId] = r]
    /\ parent' = [parent EXCEPT ![nextId] = from]

CanAdd(t, r) ==
    /\ phase \in Serving
    /\ nextId + Owed + r <= MaxId
    /\ t => Timeouts

(* `add` without `--now`; also a manual requeue of an ended job. *)
AddNormal(t, r) ==
    /\ CanAdd(t, r)
    /\ NewColumns(FALSE, t, r, None)
    /\ row' = [row EXCEPT ![nextId] = "queued"]
    /\ UNCHANGED <<paused, phase, pc, lane, cancelled, proc, dying, condemned, stops, observers>>

(* `_freeze_current_if_normal` finds a job to stop: the killpg succeeds. *)
WillFreeze ==
    /\ frozen = None /\ ~Stopping
    /\ slot # None
    /\ ~prio[slot]
    /\ proc[slot] \in Live

NowMayArrive == NowDuringSpawn \/ \A j \in Active(FALSE) : pc[j] # "spawn"

(* Mutant: the runner is only made when a job was frozen. *)
EnsureRunnerIfFrozen == laneTask' = (laneTask \/ WillFreeze)

(* `_ensure_priority_worker` *)
EnsureRunner == laneTask' = (laneTask \/ ~Stopping)

(* `add --now`: enqueue on the priority lane, freeze the normal job that   *)
(* holds the channel, make sure the lane has a runner.                     *)
AddNow(t, r) ==
    /\ CanAdd(t, r) /\ NowMayArrive
    /\ WillFreeze => row[slot] = "running"
    /\ NewColumns(TRUE, t, r, None)
    /\ IF WillFreeze
       THEN /\ row' = [row EXCEPT ![nextId] = "queued", ![slot] = "stopped"]
            /\ proc' = [proc EXCEPT ![slot] = "frozen"]
            /\ frozen' = slot
       ELSE /\ row' = [row EXCEPT ![nextId] = "queued"]
            /\ UNCHANGED <<proc, frozen>>
    /\ EnsureRunner
    /\ UNCHANGED <<paused, phase, pc, slot, cancelled, dying, condemned, stops, observers>>

(* The slot still names a job that was cancelled while frozen: mark_stopped *)
(* raises after the SIGSTOP, so the add answers an error with its row       *)
(* already committed and the lane's runner not ensured.                     *)
AddNowRaises(t, r) ==
    /\ CanAdd(t, r) /\ NowMayArrive
    /\ WillFreeze /\ row[slot] # "running"
    /\ NewColumns(TRUE, t, r, None)
    /\ row' = [row EXCEPT ![nextId] = "queued"]
    /\ refused' = refused \cup {nextId}
    /\ proc' = [proc EXCEPT ![slot] = "frozen"]
    /\ UNCHANGED <<paused, phase, pc, lane, cancelled, dying, condemned, stops, acceptedIn>>

(* `pause` and `resume` *)
SetPaused(b) ==
    /\ phase \in Serving
    /\ paused' = b /\ paused # b
    /\ UNCHANGED <<row, columns, phase, pc, lane, cancelled, proc, dying, condemned, stops, observers>>

Accept(j) ==
    acceptedIn' = [acceptedIn EXCEPT ![j] = IF @ = "no" THEN pc[j] ELSE @]

(* `cancel ID` of a queued job that is not being started (`_not_starting`). *)
CancelQueued(j) ==
    /\ phase \in Serving
    /\ row[j] = "queued" /\ pc[j] # "spawn"
    /\ row' = [row EXCEPT ![j] = "cancelled"]
    /\ Accept(j)
    /\ UNCHANGED <<columns, paused, phase, pc, lane, cancelled, proc, dying, condemned, stops, refused>>

(* `cancel`, or `cancel ID` of a running job: both act on the current slot. *)
(* The signal reaches the group if there is one left; SIGKILL follows.      *)
CancelSlot(j) ==
    /\ phase \in Serving
    /\ slot = j
    /\ cancelled' = cancelled \cup {j}
    /\ dying' = IF proc[j] \in Live THEN dying \cup {j} ELSE dying
    /\ Accept(j)
    /\ UNCHANGED <<db, phase, pc, lane, proc, condemned, stops, refused>>

(* `cancel ID` of a frozen job: out of the frozen slot first, then SIGCONT. *)
CancelFrozen(j) ==
    /\ phase \in Serving
    /\ row[j] = "stopped" /\ frozen = j
    /\ frozen' = None
    /\ cancelled' = cancelled \cup {j}
    /\ IF proc[j] \in Live
       THEN /\ proc' = [proc EXCEPT ![j] = "alive"]
            /\ dying' = dying \cup {j}
       ELSE UNCHANGED <<proc, dying>>
    /\ Accept(j)
    /\ UNCHANGED <<db, phase, pc, slot, laneTask, condemned, stops, refused>>

----------------------------------------------------------------------------
(* The normal worker and the priority lane's runner                        *)

Begin(j) ==
    /\ pc' = [pc EXCEPT ![j] = "spawn"]
    /\ UNCHANGED <<db, phase, lane, cancelled, proc, dying, condemned, stops, observers>>

(* `_worker_step` starts its head: not paused, and the channel is free. *)
WorkerStart(j) ==
    /\ phase = "up" /\ Active(FALSE) = {}
    /\ ~paused
    /\ IsHead(j, FALSE)
    /\ ~LaneBusy
    /\ Begin(j)

(* `_lane_busy` finds priority rows without a runner and makes one.  It is *)
(* only asked when the normal lane has a head and is not paused.           *)
AdoptLane ==
    /\ phase = "up" /\ Active(FALSE) = {}
    /\ ~paused
    /\ Queued(FALSE) # {}
    /\ slot = None /\ ~laneTask /\ Queued(TRUE) # {}
    /\ laneTask' = TRUE
    /\ UNCHANGED <<db, phase, pc, slot, frozen, cancelled, proc, dying, condemned, stops, observers>>

(* `_priority_worker_loop` takes the next `--now` job. *)
LaneStart(j) ==
    /\ phase = "up" /\ laneTask /\ Active(TRUE) = {}
    /\ IsHead(j, TRUE)
    /\ Begin(j)

(* Mutant: the slot is emptied and the row updated, but SIGCONT is not sent. *)
ResumeWithoutCont ==
    /\ frozen' = None
    /\ row' = [row EXCEPT ![frozen] = "running"]
    /\ slot' = frozen
    /\ UNCHANGED proc

(* Mutant: the slot is emptied and the job in it dropped. *)
ResumeDrops ==
    /\ frozen' = None
    /\ UNCHANGED <<proc, row, slot>>

(* `_resume_frozen`; nothing to continue when the process died while frozen. *)
Resume ==
    /\ frozen' = None
    /\ IF proc[frozen] \in Live
       THEN /\ proc' = [proc EXCEPT ![frozen] = "alive"]
            /\ row' = [row EXCEPT ![frozen] = "running"]
            /\ slot' = frozen
       ELSE UNCHANGED <<proc, row, slot>>

(* `_priority_worker_loop` ends: the lane is empty or the daemon is        *)
(* stopping.  Unless it is stopping, the frozen job is resumed.            *)
LaneEnds ==
    /\ phase \in Serving /\ laneTask /\ Active(TRUE) = {}
    /\ Queued(TRUE) = {} \/ Stopping
    /\ laneTask' = FALSE
    /\ IF frozen # None /\ ~Stopping THEN Resume ELSE UNCHANGED <<frozen, proc, row, slot>>
    /\ UNCHANGED <<columns, paused, phase, pc, cancelled, dying, condemned, stops, observers>>

----------------------------------------------------------------------------
(* `_run_job`                                                              *)

(* A terminal row, and `_after_finish`: a failure with retries left puts a *)
(* new job at the end of the normal lane (`_maybe_auto_retry`).            *)
Record(j, st) ==
    IF st = "failed" /\ left[j] > 0
    THEN /\ NewColumns(FALSE, timed[j], left[j] - 1, j)
         /\ row' = [row EXCEPT ![j] = st, ![nextId] = "queued"]
    ELSE /\ row' = [row EXCEPT ![j] = st]
         /\ UNCHANGED columns

(* Mutant: the slot is cleared whoever it names. *)
ReleaseAnyway(j) == slot' = None /\ j \in Ids

(* Mutant: only a `--now` job gives the slot back. *)
ReleaseNowOnly(j) == slot' = IF slot = j /\ prio[j] THEN None ELSE slot

(* `_release`: the slot is cleared only while it still names this job. *)
Release(j) == slot' = IF slot = j THEN None ELSE slot

(* The coroutine returns, and with it goes the process it has waited for. *)
Forget(j) ==
    /\ pc' = [pc EXCEPT ![j] = "idle"]
    /\ proc' = [proc EXCEPT ![j] = "none"]

Finish(j, st) ==
    /\ Record(j, st)
    /\ Release(j)
    /\ cancelled' = cancelled \ {j}
    /\ Forget(j)
    /\ UNCHANGED <<paused, phase, frozen, laneTask, dying, condemned, stops, observers>>

(* The process exists: mark_running, then the slot is taken.  A stop that  *)
(* began during the spawn kills the group at once.                         *)
SpawnReturns(j) ==
    /\ phase \in Serving /\ pc[j] = "spawn"
    /\ pc' = [pc EXCEPT ![j] = "wait"]
    /\ proc' = [proc EXCEPT ![j] = "alive"]
    /\ row' = [row EXCEPT ![j] = "running"]
    /\ slot' = j
    /\ IF Stopping
       THEN dying' = dying \cup {j} /\ condemned' = condemned \cup {j}
       ELSE UNCHANGED <<dying, condemned>>
    /\ UNCHANGED <<columns, paused, phase, frozen, laneTask, cancelled, stops, observers>>

(* create_subprocess_exec raises: `failed to start`.  The slot is not touched. *)
SpawnFails(j) ==
    /\ phase \in Serving /\ pc[j] = "spawn"
    /\ Record(j, "failed")
    /\ pc' = [pc EXCEPT ![j] = "idle"]
    /\ UNCHANGED <<paused, phase, lane, cancelled, proc, dying, condemned, stops, observers>>

Goto(j, from, to) ==
    /\ phase \in Serving
    /\ pc[j] = from
    /\ pc' = [pc EXCEPT ![j] = to]

(* proc.wait() returns; the log pump and the sampler are awaited next. *)
WaitReturns(j) ==
    /\ Goto(j, "wait", "drain")
    /\ proc[j] \in Gone
    /\ UNCHANGED <<db, phase, lane, cancelled, proc, dying, condemned, stops, observers>>

(* `_wait_running_time` gives up: never while the frozen slot names the job. *)
TimeoutFires(j) ==
    /\ Goto(j, "wait", "timeout")
    /\ timed[j] /\ frozen # j
    /\ dying' = IF proc[j] \in Live THEN dying \cup {j} ELSE dying
    /\ UNCHANGED <<db, phase, lane, cancelled, proc, condemned, stops, observers>>

(* The timeout path records `failed` whatever was asked in the meantime. *)
TimeoutRecords(j) ==
    /\ phase \in Serving /\ pc[j] = "timeout"
    /\ proc[j] \in Gone
    /\ Finish(j, "failed")

(* Mutant: the exit code is looked at before the cancel. *)
DrainReturnsByCode(j) ==
    /\ phase \in Serving /\ pc[j] = "drain"
    /\ \/ proc[j] = "ok" /\ Finish(j, "done")
       \/ proc[j] # "ok" /\ j \in cancelled /\ Finish(j, "cancelled")
       \/ proc[j] # "ok" /\ j \notin cancelled /\ Finish(j, IF Stopping THEN "interrupted" ELSE "failed")

(* The end of the ordinary path: cancelled, cut short by the stop, or ended *)
(* by itself.  A death by signal first waits STOP_RACE_SECS for the stop.   *)
DrainReturns(j) ==
    /\ phase \in Serving /\ pc[j] = "drain"
    /\ \/ j \in cancelled /\ Finish(j, "cancelled")
       \/ j \notin cancelled /\ proc[j] = "ok" /\ Finish(j, "done")
       \/ j \notin cancelled /\ proc[j] # "ok" /\ Stopping /\ Finish(j, "interrupted")
       \/ j \notin cancelled /\ proc[j] = "error" /\ ~Stopping /\ Finish(j, "failed")
       \/ /\ j \notin cancelled /\ proc[j] = "signal" /\ ~Stopping
          /\ Goto(j, "drain", "race")
          /\ UNCHANGED <<db, phase, lane, cancelled, proc, dying, condemned, stops, observers>>

(* `_cut_short_by_stop` returns.  The cancelled set is not looked at again, *)
(* and an entry made during the wait stays in it.                           *)
RaceReturns(j) ==
    /\ phase \in Serving /\ pc[j] = "race"
    /\ Record(j, IF Stopping THEN "interrupted" ELSE "failed")
    /\ Release(j)
    /\ Forget(j)
    /\ UNCHANGED <<paused, phase, frozen, laneTask, cancelled, dying, condemned, stops, observers>>

----------------------------------------------------------------------------
(* Processes                                                               *)

(* A process group ends: by itself, after a signal it obeyed, or (the only *)
(* way when it is frozen) by somebody's SIGKILL.                           *)
Exit(j, how) ==
    /\ \/ proc[j] = "alive" /\ how \in Gone
       \/ proc[j] = "frozen" /\ how = "signal"
    /\ proc' = [proc EXCEPT ![j] = how]
    /\ dying' = dying \ {j}
    /\ condemned' = condemned \ {j}
    /\ UNCHANGED <<db, phase, pc, lane, cancelled, stops, observers>>

(* The grace of `_kill_process_group` is over: SIGKILL. *)
KillGroup(j) ==
    /\ j \in dying
    /\ Exit(j, "signal")

----------------------------------------------------------------------------
(* Daemon stop, crash and start                                            *)

(* SIGTERM: the handler sets `_stopping`. *)
StopSignal ==
    /\ phase = "up" /\ stops < MaxStops
    /\ phase' = "stopping" /\ stops' = stops + 1
    /\ UNCHANGED <<db, pc, lane, cancelled, proc, dying, condemned, observers>>

(* Mutant: the frozen job is forgotten. *)
ShutdownTargetsSlot == {j \in {slot} \ {None} : proc[j] \in Live}

(* `_shutdown` signals what the current slot and the frozen slot name. *)
ShutdownTargets == {j \in {slot, frozen} \ {None} : proc[j] \in Live}

ShutdownKills ==
    /\ phase = "stopping"
    /\ phase' = "killing"
    /\ proc' = [j \in Ids |-> IF j \in ShutdownTargets /\ j = frozen THEN "alive" ELSE proc[j]]
    /\ dying' = dying \cup ShutdownTargets
    /\ condemned' = condemned \cup ShutdownTargets
    /\ UNCHANGED <<db, pc, lane, cancelled, stops, observers>>

(* The workers are given SHUTDOWN_WAIT_SECS.  That is longer than the grace *)
(* of the shutdown's own kills, so only a job somebody else is killing      *)
(* slowly, or nobody is killing, can outlast it.                            *)
Outlasts(j) ==
    /\ pc[j] # "idle" /\ proc[j] \in Live
    /\ j \notin condemned
    /\ j \in dying => LongGrace

ForgetMemory ==
    /\ pc' = [j \in Ids |-> "idle"]
    /\ slot' = None /\ frozen' = None /\ laneTask' = FALSE
    /\ cancelled' = {} /\ dying' = {} /\ condemned' = {}

(* `_shutdown` returns and the process exits: its workers have returned, or *)
(* have been given up and cancelled.                                        *)
ShutdownExits ==
    /\ phase = "killing"
    /\ laneTask => Active(TRUE) # {}
    /\ condemned = {}
    /\ \A j \in Ids : pc[j] # "idle" => Outlasts(j)
    /\ phase' = "stopped"
    /\ ForgetMemory
    /\ UNCHANGED <<db, proc, stops, observers>>

(* The daemon dies without a word.  Its jobs run in process groups of their *)
(* own: they live on, or the service manager kills them too.                *)
Crash(survive) ==
    /\ phase \in Serving /\ stops < MaxStops
    /\ phase' = "crashed" /\ stops' = stops + 1
    /\ ForgetMemory
    /\ proc' = [j \in Ids |-> IF proc[j] \in Live /\ ~survive THEN "signal" ELSE proc[j]]
    /\ UNCHANGED <<db, observers>>

(* get_running_id and get_stopped_id: LIMIT 1, so one row each. *)
OneOf(st) == LET S == {j \in Ids : row[j] = st} IN IF S = {} THEN {None} ELSE S

(* Mutant: only the running row is looked for. *)
StartRunningOnly ==
    /\ phase \in {"stopped", "crashed"}
    /\ phase' = "up"
    /\ \E r \in OneOf("running") : row' = [j \in Ids |-> IF j = r THEN "interrupted" ELSE row[j]]
    /\ UNCHANGED <<columns, paused, pc, lane, cancelled, proc, dying, condemned, stops, observers>>

(* `_recover_on_startup` *)
Start ==
    /\ phase \in {"stopped", "crashed"}
    /\ phase' = "up"
    /\ \E r \in OneOf("running"), s \in OneOf("stopped") :
         row' = [j \in Ids |-> IF j \in {r, s} THEN "interrupted" ELSE row[j]]
    /\ UNCHANGED <<columns, paused, pc, lane, cancelled, proc, dying, condemned, stops, observers>>

----------------------------------------------------------------------------
Runner(j) ==
    \/ SpawnReturns(j) \/ SpawnFails(j) \/ WaitReturns(j)
    \/ TimeoutFires(j) \/ TimeoutRecords(j)
    \/ DrainReturns(j) \/ RaceReturns(j)

Request ==
    \/ \E t \in BOOLEAN, r \in 0..MaxRetries : AddNormal(t, r) \/ AddNow(t, r) \/ AddNowRaises(t, r)
    \/ \E b \in BOOLEAN : SetPaused(b)
    \/ \E j \in Ids : CancelQueued(j) \/ CancelSlot(j) \/ CancelFrozen(j)

Stop == StopSignal \/ ShutdownKills \/ ShutdownExits \/ \E survive \in BOOLEAN : Crash(survive)

Next ==
    \/ Request
    \/ \E j \in Ids : WorkerStart(j) \/ LaneStart(j) \/ Runner(j)
    \/ AdoptLane \/ LaneEnds
    \/ \E j \in Ids, how \in Gone : Exit(j, how)
    \/ \E j \in Ids : KillGroup(j)
    \/ Stop \/ Start

Spec == Init /\ [][Next]_vars

(* The event loop runs every ready coroutine, a kill's grace ends, the     *)
(* service manager restarts the daemon, and jobs that run come to an end.  *)
(* A stopped process is under no such obligation, and nobody has to send a *)
(* request, resume a channel or stop the daemon.                           *)
Fairness ==
    /\ \A j \in Ids :
         /\ WF_vars(WorkerStart(j)) /\ WF_vars(LaneStart(j)) /\ WF_vars(Runner(j))
         /\ WF_vars(KillGroup(j))
         /\ WF_vars(proc[j] = "alive" /\ \E how \in Gone : Exit(j, how))
    /\ WF_vars(AdoptLane) /\ WF_vars(LaneEnds)
    /\ WF_vars(ShutdownKills) /\ WF_vars(ShutdownExits) /\ WF_vars(Start)

FairSpec == Spec /\ Fairness
----------------------------------------------------------------------------
(* Properties                                                              *)

(* Type invariant: every column, slot and stage of the daemon and of the jobs table. *)
TypeOK ==
    /\ row \in [Ids -> Status]
    /\ prio \in [Ids -> BOOLEAN] /\ timed \in [Ids -> BOOLEAN]
    /\ left \in [Ids -> Nat]
    /\ parent \in [Ids -> Ids \cup {None}]
    /\ nextId \in 1..(MaxId + 1)
    /\ paused \in BOOLEAN
    /\ phase \in Phase
    /\ pc \in [Ids -> Stage]
    /\ slot \in Ids \cup {None} /\ frozen \in Ids \cup {None}
    /\ laneTask \in BOOLEAN
    /\ cancelled \subseteq Ids
    /\ proc \in [Ids -> {"none"} \cup Live \cup Gone]
    /\ dying \subseteq Ids /\ condemned \subseteq Ids
    /\ stops \in Nat
    /\ acceptedIn \in [Ids -> Stage \cup {"no"}]
    /\ refused \subseteq Ids

(* README.md:145: a normal job never runs beside a running `--now` job.  Two *)
(* processes of the channel's own jobs are never both running, unless one of *)
(* them has been told to end and is in its grace period.                     *)
Running(j) == pc[j] # "idle" /\ proc[j] = "alive" /\ j \notin dying

OneAtATime == \A i, j \in Ids : Running(i) /\ Running(j) => i = j

(* Why OneAtATime holds: the invariant its proof is by induction on.         *)
Waiting == {"wait", "timeout", "drain", "race"}
Unborn == {"none", "queued"}

(* Rows and processes: a job without a process of its own yet, and ids not given out. *)
RowsAndProcs ==
    \A j \in Ids :
        /\ j >= nextId => row[j] = "none"
        /\ row[j] = "none" => pc[j] = "idle"
        /\ row[j] \in Unborn => proc[j] = "none"
        /\ pc[j] = "spawn" => row[j] = "queued"
        /\ pc[j] \in Waiting => row[j] \notin Unborn

(* Each runner waits for one job at a time; without a daemon there are no runners. *)
OneEach ==
    /\ \A i, j \in Ids : pc[i] # "idle" /\ pc[j] # "idle" /\ prio[i] = prio[j] => i = j
    /\ \A j \in Ids : pc[j] # "idle" /\ prio[j] => laneTask
    /\ phase \notin Serving =>
         slot = None /\ frozen = None /\ ~laneTask /\ \A j \in Ids : pc[j] = "idle"

(* What the two slots name. *)
Slots ==
    /\ slot # None => pc[slot] \in Waiting
    /\ frozen # None => ~prio[frozen] /\ row[frozen] \notin Unborn
    /\ frozen # None /\ proc[frozen] \in Live => pc[frozen] \in Waiting
    /\ frozen # None /\ phase = "up" => laneTask

(* While the priority lane has a runner the normal worker's job is not running. *)
LaneExcludes ==
    \A j \in Ids : ~prio[j] =>
        /\ laneTask => pc[j] # "spawn"
        /\ laneTask /\ pc[j] # "idle" /\ proc[j] = "alive" => j \in dying
        /\ pc[j] # "idle" /\ proc[j] = "alive" => slot = j \/ j \in dying

(* The invariant behind README.md:145: who may have a runner, a slot and a   *)
(* process while the priority lane is served.                                *)
Exclusion == RowsAndProcs /\ OneEach /\ Slots /\ LaneExcludes

(* README.md:526: `cancel ID` reaches a job wherever it is.  A live process  *)
(* the daemon waits for is named by the current slot or by the frozen slot,  *)
(* or is already being killed: nothing is left that only `ps` can find.      *)
Reachable ==
    \A j \in Ids : pc[j] # "idle" /\ proc[j] \in Live => j \in {slot, frozen} \cup dying

(* A process stopped by SIGSTOP always has somebody who will continue or kill *)
(* it: the frozen slot names it and the priority lane that empties the slot   *)
(* is running, or the shutdown that continues it is on its way, or a SIGKILL. *)
NoOrphanFreeze ==
    \A j \in Ids : pc[j] # "idle" /\ proc[j] = "frozen" =>
        \/ j \in dying
        \/ frozen = j /\ (laneTask \/ phase = "stopping")

(* A cancel that was answered ok before the job's outcome was being decided  *)
(* is what the row ends up saying, for a job without a timeout.              *)
CancelIsHonoured ==
    \A j \in Ids : acceptedIn[j] \in {"idle", "wait", "drain"} /\ ~timed[j] =>
        row[j] \notin {"done", "failed"}

(* README.md:305 and :539: cancelled jobs are never retried. *)
CancelledNeverRetried ==
    \A k \in Ids : parent[k] # None => acceptedIn[parent[k]] = "no"

(* README.md:986: a start marks every row still running or stopped from the  *)
(* previous instance interrupted.  While a daemon serves, such a row belongs *)
(* to a job this daemon has started and is waiting for.                      *)
NoStaleRows ==
    phase \in Serving => \A j \in Ids : row[j] \in {"running", "stopped"} => pc[j] # "idle"

(* After a restart no job is left `stopped` with nobody to continue it. *)
StoppedRowsRecovered ==
    phase \in Serving => \A j \in Ids : row[j] = "stopped" => pc[j] # "idle"

(* README.md:976: a clean stop kills every running and frozen job and writes  *)
(* its row before the process exits: no row is left running or stopped.       *)
CleanStop == phase = "stopped" => \A j \in Ids : row[j] \notin {"running", "stopped"}

(* Where the queue that SerialQueue describes has a job. *)
QueueStage(j) ==
    IF row[j] = "none" THEN "absent"
    ELSE IF row[j] = "queued" THEN "waiting"
    ELSE IF row[j] \in Terminal THEN "over"
    ELSE IF pc[j] = "idle" THEN "lost"
    ELSE IF proc[j] \notin Live \/ j \in dying THEN "closing"
    ELSE IF proc[j] = "alive" THEN "working" ELSE "suspended"

QueueStages == [j \in Ids |-> QueueStage(j)]
Express == {j \in Ids : prio[j]}

Queue == INSTANCE SerialQueue WITH Jobs <- Ids, stage <- QueueStages, express <- Express

(* README.md:145: the channel is a serial queue with an express lane.  Every *)
(* step of the daemon is a step of that queue, or does not show in it.       *)
IsSerialQueue == Queue!Spec

(* A job frozen by `--now` is continued, or ends: `--now` jobs come to an end. *)
FrozenResumes == \A j \in Ids : row[j] = "stopped" ~> row[j] # "stopped"

(* A queued normal job starts or is cancelled, unless the channel is paused. *)
NormalStarts == \A j \in Ids : row[j] = "queued" /\ ~prio[j] ~> row[j] # "queued" \/ paused

(* A queued `--now` job starts or is cancelled, paused channel or not. *)
NowStarts ==
    \A j \in Ids : row[j] = "queued" /\ prio[j] /\ j \notin refused ~> row[j] # "queued"

============================================================================
