----------------------------- MODULE RemoteRun -----------------------------
(***************************************************************************)
(* `qur run`, `qur rerun` and their `--resume` (remote_run.py,             *)
(* remote_rerun.py) against one worker (remote_worker.py, `qur add`).      *)
(*                                                                         *)
(* A driver is a process on the host that takes a run key through          *)
(* created -> sent -> prepared -> queued.  Each step is a command on the   *)
(* worker and, after its answer, a commit on the host; the answer can be   *)
(* lost, the driver can die, and the command then goes on without it.      *)
(***************************************************************************)
EXTENDS Naturals, Sequences, FiniteSets, FiniteSetsExt, TLC

CONSTANTS
    Runs, Reruns,          \* run keys of `qur run` and of `qur rerun`
    Drivers,
    MaxFolders, MaxJobs,   \* bounds: folders and jobs ever made on the worker
    MaxLost,               \* bound: lost answers, dead drivers and deaths of the worker
    Faults                 \* circumstances let in: see Fault

(* "pruned": a job's row leaves the worker's history before its run is recorded. *)
(* "gc": `remote gc --delete` is called with --force-completed, while a received *)
(* folder waits for its job.                                                     *)
(* "slow": an upload lasts longer than the --older-than of a `remote gc --delete`. *)
Fault == {"pruned", "gc", "slow"}

ASSUME RemoteRunOK ==
    /\ {MaxFolders, MaxJobs, MaxLost} \subseteq Nat
    /\ Runs \cap Reruns = {} /\ "none" \notin Runs \cup Reruns
    /\ "orphan" \notin Drivers
    /\ Faults \subseteq Fault

Keys == Runs \cup Reruns
None == "none"
Orphan == "orphan"
Slots == Drivers \cup {Orphan}
Symmetry == Permutations(Drivers)

VARIABLES
    row,      \* remote_runs
    saved,    \* the arguments of a key in runs/: "none", "saved" or "redacted"
    asks,     \* keys of runs with --require, --link or --worker-copy
    payload,  \* keys of reruns whose replaced files lie in runs/
    driver,   \* what each driver does, with its copy of the row
    cmd,      \* the command each driver has on the worker, and one without a driver
    folder,   \* folders of the worker
    jobs,     \* jobs of the worker, in the order they were made
    gc,       \* folders that sweeps of `remote gc --delete` have still to look at
    lost      \* the bound

host == <<row, saved, asks, payload>>
worker == <<folder, jobs, gc>>
vars == <<host, driver, cmd, worker, lost>>

Folders == 1..MaxFolders
States == {"created", "sent", "prepared", "queued"}
NoRow == [state |-> "none", dir |-> 0, id |-> 0]
Free == [at |-> "free", key |-> None, state |-> "none", dir |-> 0, redacted |-> FALSE]
NoCmd == [what |-> "none", at |-> "none", key |-> None, dir |-> 0, id |-> 0, redacted |-> FALSE]
NoFolder == [at |-> "free", key |-> None, prepared |-> FALSE]

Init ==
    /\ row = [k \in Keys |-> NoRow]
    /\ saved = [k \in Keys |-> "none"]
    /\ asks = {} /\ payload = {}
    /\ driver = [d \in Drivers |-> Free]
    /\ cmd = [s \in Slots |-> NoCmd]
    /\ folder = [f \in Folders |-> NoFolder]
    /\ jobs = << >> /\ gc = {}
    /\ lost = 0

Rows == {j \in DOMAIN jobs : jobs[j].at # "gone"}
JobsOf(k) == {j \in Rows : jobs[j].key = k}
Users(f) == {j \in DOMAIN jobs : jobs[j].at = "queued" /\ jobs[j].dir = f}

----------------------------------------------------------------------------
(* The host: one driver                                                    *)

At(d, at) == driver' = [driver EXCEPT ![d].at = at]
Ends(d) == driver' = [driver EXCEPT ![d] = Free] /\ cmd' = [cmd EXCEPT ![d] = NoCmd]
Goes(d, at, state, dir) ==
    driver' = [driver EXCEPT ![d].at = at, ![d].state = state, ![d].dir = dir]

(* _update_run: nothing happens when the row is gone. *)
Update(k, new) == row' = IF row[k].state = "none" THEN row ELSE [row EXCEPT ![k] = new]

(* A key is made once (uuid4). *)
Unused(k) ==
    /\ row[k].state = "none" /\ saved[k] = "none"
    /\ \A j \in DOMAIN jobs : jobs[j].key # k
    /\ \A d \in Drivers : driver[d].key # k
    /\ \A s \in Slots : cmd[s].key # k
    /\ \A f \in Folders : folder[f].key # k

Begins(d, k, dir) == driver' = [driver EXCEPT ![d] = [Free EXCEPT !.at = "save", !.key = k,
                                                      !.state = "created", !.dir = dir]]

NewRun(d, k, files) ==
    /\ driver[d].at = "free" /\ k \in Runs /\ Unused(k)
    /\ asks' = IF files THEN asks \cup {k} ELSE asks
    /\ row' = [row EXCEPT ![k] = [NoRow EXCEPT !.state = "created"]]
    /\ Begins(d, k, 0)
    /\ UNCHANGED <<saved, payload, cmd, worker, lost>>

(* A rerun of job j, with or without replaced files.  The folder must be    *)
(* free; without files the new job may be chained behind its users.         *)
NewRerun(d, k, j, files) ==
    /\ driver[d].at = "free" /\ k \in Reruns /\ Unused(k)
    /\ j \in Rows
    /\ files => Users(jobs[j].dir) = {}
    /\ payload' = IF files THEN payload \cup {k} ELSE payload
    /\ row' = [row EXCEPT ![k] = [NoRow EXCEPT !.state = "created", !.dir = jobs[j].dir]]
    /\ Begins(d, k, jobs[j].dir)
    /\ UNCHANGED <<saved, asks, cmd, worker, lost>>

SaveSpec(d) ==
    /\ driver[d].at = "save"
    /\ saved' = [saved EXCEPT ![driver[d].key] = "saved"]
    /\ At(d, "find")
    /\ UNCHANGED <<row, asks, payload, cmd, worker, lost>>

(* --resume reads the row and the saved arguments. *)
Resume(d, k) ==
    /\ driver[d].at = "free" /\ row[k].state # "none" /\ saved[k] # "none"
    /\ driver' = [driver EXCEPT ![d] = [at |-> "find", key |-> k, state |-> row[k].state,
                                        dir |-> row[k].dir, redacted |-> saved[k] = "redacted"]]
    /\ UNCHANGED <<host, cmd, worker, lost>>

FoundRow(k, j) == [state |-> "queued", dir |-> jobs[j].dir, id |-> j]

(* `remote find`: the job may exist already.  Otherwise the driver goes on  *)
(* from its copy of the state; one that says queued is an error.            *)
FindAnswers(d) ==
    LET k == driver[d].key
        next == CASE driver[d].state = "created" -> "send"
                  [] driver[d].state = "sent" /\ k \in Runs -> "prepare"
                  [] OTHER -> "queue"
    IN  /\ driver[d].at = "find"
        /\ IF JobsOf(k) # {}
           THEN /\ Update(k, FoundRow(k, Min(JobsOf(k))))
                /\ At(d, "redact")
           ELSE /\ driver' = [driver EXCEPT ![d] = IF driver[d].state = "queued" THEN Free
                                                   ELSE [@ EXCEPT !.at = next]]
                /\ UNCHANGED row
        /\ UNCHANGED <<saved, asks, payload, cmd, worker, lost>>

Calls(d, what) ==
    /\ cmd' = [cmd EXCEPT ![d] = [NoCmd EXCEPT !.what = what, !.at = "sent", !.key = driver[d].key,
                                               !.dir = driver[d].dir, !.redacted = driver[d].redacted]]
    /\ At(d, "waits")
    /\ UNCHANGED <<host, worker, lost>>

Send(d) ==
    /\ driver[d].at = "send"
    /\ driver[d].key \in Runs \/ driver[d].key \in payload
    /\ Calls(d, IF driver[d].key \in Runs THEN "receive" ELSE "update")

(* A rerun that replaces nothing has nothing to send. *)
NothingToSend(d) ==
    /\ driver[d].at = "send" /\ driver[d].key \in Reruns \ payload
    /\ Update(driver[d].key, [row[driver[d].key] EXCEPT !.state = "sent"])
    /\ Goes(d, "queue", "sent", driver[d].dir)
    /\ UNCHANGED <<saved, asks, payload, cmd, worker, lost>>

Prepare(d) == driver[d].at = "prepare" /\ driver[d].key \in asks /\ Calls(d, "prepare")

(* A run that asks for no worker-side files is prepared at once. *)
NothingToPrepare(d) ==
    /\ driver[d].at = "prepare" /\ driver[d].key \notin asks
    /\ Update(driver[d].key, [row[driver[d].key] EXCEPT !.state = "prepared"])
    /\ Goes(d, "queue", "prepared", driver[d].dir)
    /\ UNCHANGED <<saved, asks, payload, cmd, worker, lost>>

Queue(d) == driver[d].at = "queue" /\ Calls(d, "add")

(* The answer arrives and is recorded. *)
Answered(d) ==
    LET c == cmd[d]
        r == row[c.key]
        record == CASE c.what \in {"receive", "update"} -> [r EXCEPT !.state = "sent", !.dir = c.dir]
                    [] c.what = "prepare" -> [r EXCEPT !.state = "prepared"]
                    [] c.what = "add" -> [r EXCEPT !.state = "queued", !.id = c.id]
        next == CASE c.what = "receive" -> "prepare"
                  [] c.what = "add" -> "redact"
                  [] OTHER -> "queue"
    IN  /\ c.at = "done"
        /\ Update(c.key, record)
        /\ Goes(d, next, record.state, c.dir)
        /\ cmd' = [cmd EXCEPT ![d] = NoCmd]
        /\ UNCHANGED <<saved, asks, payload, worker, lost>>

(* Mutant: the arguments are blanked whenever a driver ends. *)
RefusedRedacts(d) ==
    /\ cmd[d].at = "refused"
    /\ Ends(d)
    /\ saved' = [saved EXCEPT ![cmd[d].key] = "redacted"]
    /\ UNCHANGED <<row, asks, payload, worker, lost>>

(* The worker refuses, or the step fails there: the driver ends. *)
Refused(d) ==
    /\ cmd[d].at = "refused"
    /\ Ends(d)
    /\ UNCHANGED <<host, worker, lost>>

(* The job is queued: _redact_spec, and the payload goes. *)
Redact(d) ==
    LET k == driver[d].key
    IN  /\ driver[d].at = "redact"
        /\ saved' = IF saved[k] = "none" THEN saved ELSE [saved EXCEPT ![k] = "redacted"]
        /\ payload' = payload \ {k}
        /\ Ends(d)
        /\ UNCHANGED <<row, asks, worker, lost>>

(* The link or the driver dies.  A command that has not ended goes on by    *)
(* itself, or never reached the worker.                                     *)
Lost(d, reaches) ==
    LET c == cmd[d]
    IN  /\ driver[d].at # "free" /\ lost < MaxLost
        /\ lost' = lost + 1
        /\ IF c.at \in {"sent", "busy"} /\ reaches
           THEN /\ cmd[Orphan] = NoCmd
                /\ cmd' = [cmd EXCEPT ![d] = NoCmd, ![Orphan] = c]
           ELSE /\ c.at # "busy"
                /\ cmd' = [cmd EXCEPT ![d] = NoCmd]
        /\ driver' = [driver EXCEPT ![d] = Free]
        /\ UNCHANGED <<host, worker>>

(* prune_run_files: a day old and queued, or so old that nobody works on it. *)
PruneRunFiles(k) ==
    /\ saved[k] # "none"
    /\ row[k].state = "queued" \/ \A d \in Drivers : driver[d].key # k
    /\ saved' = [saved EXCEPT ![k] = "none"] /\ payload' = payload \ {k}
    /\ UNCHANGED <<row, asks, driver, cmd, worker, lost>>

(* prune_remote and `qur hosts remove`. *)
ForgetRun(k) ==
    /\ row[k].state # "none"
    /\ row' = [row EXCEPT ![k] = NoRow]
    /\ UNCHANGED <<saved, asks, payload, driver, cmd, worker, lost>>

----------------------------------------------------------------------------
(* The worker: commands                                                    *)

(* What is left in a slot when its command has ended. *)
Answer(s, at) == cmd' = [cmd EXCEPT ![s] = IF s = Orphan THEN NoCmd ELSE [@ EXCEPT !.at = at]]
Done(s, dir, id) ==
    cmd' = [cmd EXCEPT ![s] = IF s = Orphan THEN NoCmd ELSE [@ EXCEPT !.at = "done", !.dir = dir, !.id = id]]

Arrived(s, what) == cmd[s].what = what /\ cmd[s].at = "sent"

(* Mutant: nothing keeps two uploads of a key apart. *)
NoLock(s) == cmd[s].what # "receive"

(* The flock of a key: another `remote receive` of it is in progress. *)
Locked(s) == \E t \in Slots \ {s} : cmd[t].what = "receive" /\ cmd[t].at = "busy" /\ cmd[t].key = cmd[s].key

(* Mutant: a folder with the key's marker counts as received. *)
AnyFolder(k) == {f \in Folders : folder[f].key = k /\ folder[f].at # "free"}

(* Folders with the key's marker and the marker of a finished upload. *)
Received(k) == {f \in Folders : folder[f].key = k /\ folder[f].at = "whole"}

(* Half a folder of the key is deleted. *)
WithoutHalf(k) == [f \in Folders |-> IF folder[f].key = k THEN NoFolder ELSE folder[f]]

(* `remote receive`: a folder that was received is returned as it is, half  *)
(* a folder is deleted and made again; no sweep under way lists the new one. *)
ReceiveStarts(s) ==
    LET k == cmd[s].key
        kept == WithoutHalf(k)
    IN  /\ Arrived(s, "receive")
        /\ IF Locked(s) THEN Answer(s, "refused") /\ UNCHANGED <<folder, gc>>
           ELSE IF Received(k) # {} THEN Done(s, Min(Received(k)), 0) /\ UNCHANGED <<folder, gc>>
           ELSE \E f \in Folders :
                    /\ kept[f].at = "free" /\ \A g \in 1..(f - 1) : kept[g].at # "free"
                    /\ folder' = [kept EXCEPT ![f] = [NoFolder EXCEPT !.at = "half", !.key = k]]
                    /\ cmd' = [cmd EXCEPT ![s].at = "busy", ![s].dir = f]
                    /\ gc' = gc \ {f}
        /\ UNCHANGED <<host, driver, jobs, lost>>

Busy(s, what) == cmd[s].what = what /\ cmd[s].at = "busy"

(* The marker of a finished upload is written, also in a folder that was     *)
(* deleted in the meantime: safe_extract made it again for the later files. *)
ReceiveEnds(s) ==
    /\ Busy(s, "receive")
    /\ folder' = [folder EXCEPT ![cmd[s].dir].at = IF @ = "gutted" THEN "torn" ELSE "whole"]
    /\ Done(s, cmd[s].dir, 0)
    /\ UNCHANGED <<host, driver, jobs, gc, lost>>

(* A bad archive, the stream ends early, or the folder is not there: it goes. *)
ReceiveBreaks(s) ==
    /\ Busy(s, "receive")
    /\ folder' = [folder EXCEPT ![cmd[s].dir] = NoFolder]
    /\ Answer(s, "refused")
    /\ UNCHANGED <<host, driver, jobs, gc, lost>>

(* A folder with the marker of a finished upload: nothing tells a torn one. *)
Usable(f) == folder[f].at \in {"whole", "torn"}

(* Links and copies are made once; a missing path is an answer, too. *)
PrepareRuns(s, ok) ==
    LET f == cmd[s].dir
    IN  /\ Arrived(s, "prepare")
        /\ IF ok /\ Usable(f)
           THEN folder' = [folder EXCEPT ![f].prepared = TRUE] /\ Done(s, f, 0)
           ELSE UNCHANGED folder /\ Answer(s, "refused")
        /\ UNCHANGED <<host, driver, jobs, gc, lost>>

(* `remote update` looks once, then replaces the files one by one; what is   *)
(* in them is left out.                                                     *)
UpdateStarts(s) ==
    /\ Arrived(s, "update")
    /\ IF Users(cmd[s].dir) = {} /\ Usable(cmd[s].dir)
       THEN cmd' = [cmd EXCEPT ![s].at = "busy"]
       ELSE Answer(s, "refused")
    /\ UNCHANGED <<host, driver, worker, lost>>

(* It stops half-way when it breaks. *)
UpdateEnds(s, ok) ==
    /\ Busy(s, "update")
    /\ IF ok THEN Done(s, cmd[s].dir, 0) ELSE Answer(s, "refused")
    /\ UNCHANGED <<host, driver, worker, lost>>

NewJob(k, dir, redacted) == [key |-> k, dir |-> dir, at |-> "queued", redacted |-> redacted]

(* Mutant: every `qur add` makes a job. *)
NoJobYet(k) == {j \in JobsOf(k) : k = None}

(* The job that has the run key already. *)
Existing(k) == JobsOf(k)

(* `qur add --run-key` in the activated environment. *)
AddRuns(s, ok) ==
    LET c == cmd[s]
    IN  /\ Arrived(s, "add")
        /\ IF ~ok \/ ~Usable(c.dir) THEN Answer(s, "refused") /\ UNCHANGED jobs
           ELSE IF Existing(c.key) # {} THEN Done(s, c.dir, Min(Existing(c.key))) /\ UNCHANGED jobs
           ELSE /\ Len(jobs) < MaxJobs
                /\ jobs' = Append(jobs, NewJob(c.key, c.dir, c.redacted))
                /\ Done(s, c.dir, Len(jobs'))
        /\ UNCHANGED <<host, driver, folder, gc, lost>>

OrphanVanishes ==
    /\ cmd[Orphan].at = "sent"
    /\ cmd' = [cmd EXCEPT ![Orphan] = NoCmd]
    /\ UNCHANGED <<host, driver, worker, lost>>

----------------------------------------------------------------------------
(* The worker: everything else                                             *)

JobEnds(j) ==
    /\ jobs[j].at = "queued"
    /\ jobs' = [jobs EXCEPT ![j].at = "ended"]
    /\ UNCHANGED <<host, driver, cmd, folder, gc, lost>>

(* The run is recorded, or forgotten, and nobody works on it. *)
Settled(k) ==
    /\ row[k].state \in {"queued", "none"}
    /\ \A d \in Drivers : driver[d].key # k
    /\ \A s \in Slots : cmd[s].key # k

(* Pruned history or `qur rm`: the row goes, and its run key with it. *)
Pruned(j) ==
    LET k == jobs[j].key
    IN  /\ jobs[j].at = "ended"
        /\ k \in Keys /\ ~Settled(k) => "pruned" \in Faults
        /\ jobs' = [jobs EXCEPT ![j].at = "gone"]
        /\ UNCHANGED <<host, driver, cmd, folder, gc, lost>>

(* A retry or a requeue runs in the folder, without the run key. *)
RequeuedJob(j) == NewJob(None, jobs[j].dir, FALSE)

Requeue(j) ==
    /\ jobs[j].at = "ended" /\ Len(jobs) < MaxJobs
    /\ jobs' = Append(jobs, RequeuedJob(j))
    /\ UNCHANGED <<host, driver, cmd, folder, gc, lost>>

(* `remote gc --delete` reads the folders that jobs have, then lists those   *)
(* there are; several sweeps may be under way.                              *)
GcStarts ==
    LET used == {jobs[j].dir : j \in Rows}
    IN  /\ gc' = gc \cup {f \in Folders \ used : folder[f].at # "free"}
        /\ gc' # gc
        /\ UNCHANGED <<host, driver, cmd, folder, jobs, lost>>

(* A receive is extracting into the folder: gc takes no flock. *)
Filling(f) == \E s \in Slots : Busy(s, "receive") /\ cmd[s].dir = f

(* What a sweep leaves of a folder whose marker is older than --older-than:  *)
(* without the marker of a finished upload it is deleted, with it only under *)
(* --force-completed.  An upload under way keeps the name.                   *)
Swept(f) ==
    CASE folder[f].at = "half" /\ ~Filling(f) -> NoFolder
      [] folder[f].at = "half" /\ Filling(f) /\ "slow" \in Faults -> [NoFolder EXCEPT !.at = "gutted"]
      [] folder[f].at = "whole" /\ "gc" \in Faults -> NoFolder
      [] OTHER -> folder[f]

(* It comes to a folder; what jobs have been added since is not looked at.   *)
GcLooks(f, old) ==
    /\ f \in gc /\ gc' = gc \ {f}
    /\ folder' = IF old THEN [folder EXCEPT ![f] = Swept(f)] ELSE folder
    /\ UNCHANGED <<host, driver, cmd, jobs, lost>>

(* The machine dies: its commands with it, their drivers give up. *)
WorkerDies ==
    /\ lost < MaxLost /\ lost' = lost + 1
    /\ \E s \in Slots : cmd[s].at \in {"sent", "busy"}
    /\ driver' = [d \in Drivers |-> IF cmd[d].at \in {"sent", "busy"} THEN Free ELSE driver[d]]
    /\ cmd' = [s \in Slots |-> IF cmd[s].at \in {"sent", "busy"} THEN NoCmd ELSE cmd[s]]
    /\ UNCHANGED <<host, worker>>

----------------------------------------------------------------------------
Driver(d) ==
    \/ \E k \in Runs, files \in BOOLEAN : NewRun(d, k, files)
    \/ \E k \in Reruns, j \in DOMAIN jobs, files \in BOOLEAN : NewRerun(d, k, j, files)
    \/ \E k \in Keys : Resume(d, k)
    \/ SaveSpec(d) \/ FindAnswers(d) \/ Send(d) \/ NothingToSend(d) \/ Prepare(d) \/ NothingToPrepare(d) \/ Queue(d)
    \/ Answered(d) \/ Refused(d) \/ Redact(d)
    \/ \E reaches \in BOOLEAN : Lost(d, reaches)

Command(s) ==
    \/ ReceiveStarts(s) \/ ReceiveEnds(s) \/ ReceiveBreaks(s) \/ UpdateStarts(s)
    \/ \E ok \in BOOLEAN : PrepareRuns(s, ok) \/ UpdateEnds(s, ok) \/ AddRuns(s, ok)

Next ==
    \/ \E d \in Drivers : Driver(d)
    \/ \E s \in Slots : Command(s)
    \/ \E k \in Keys : PruneRunFiles(k) \/ ForgetRun(k)
    \/ \E j \in DOMAIN jobs : JobEnds(j) \/ Pruned(j) \/ Requeue(j)
    \/ GcStarts
    \/ \E f \in Folders, old \in BOOLEAN : GcLooks(f, old)
    \/ OrphanVanishes \/ WorkerDies

Spec == Init /\ [][Next]_vars

----------------------------------------------------------------------------
(* Properties                                                              *)

Row == [state : States \cup {"none"}, dir : 0..MaxFolders, id : 0..MaxJobs]
DriverState == [at : {"free", "save", "find", "send", "prepare", "queue", "waits", "redact"},
                key : Keys \cup {None}, state : States \cup {"none"}, dir : 0..MaxFolders, redacted : BOOLEAN]
CommandState == [what : {"none", "receive", "update", "prepare", "add"},
                 at : {"none", "sent", "busy", "done", "refused"},
                 key : Keys \cup {None}, dir : 0..MaxFolders, id : 0..MaxJobs, redacted : BOOLEAN]
RunFolder == [at : {"free", "half", "whole", "gutted", "torn"}, key : Runs \cup {None}, prepared : BOOLEAN]
Job == [key : Keys \cup {None}, dir : Folders, at : {"queued", "ended", "gone"}, redacted : BOOLEAN]

TypeOK ==
    /\ row \in [Keys -> Row] /\ driver \in [Drivers -> DriverState] /\ cmd \in [Slots -> CommandState]
    /\ saved \in [Keys -> {"none", "saved", "redacted"}] /\ asks \subseteq Runs /\ payload \subseteq Reruns
    /\ folder \in [Folders -> RunFolder]
    /\ jobs \in Seq(Job) /\ Len(jobs) <= MaxJobs
    /\ gc \subseteq Folders
    /\ lost \in 0..MaxLost

(* No second job of a key, not even after a pruned one ...                  *)
OneJob == \A i, j \in DOMAIN jobs : jobs[i].key = jobs[j].key /\ jobs[i].key # None => i = j

(* ... and no second folder.                                                *)
OneFolder ==
    \A f, g \in Folders : folder[f].key = folder[g].key /\ folder[f].key # None => f = g

(* remote_run.py:3: a run key makes one job in one folder, however many     *)
(* drivers take it up and whatever was lost.                                *)
MadeOnce == OneJob /\ OneFolder

Ready(f) == folder[f].prepared \/ folder[f].key \notin asks

(* A job is queued only in a folder that was received whole and has the     *)
(* links and copies its run asked for, and the folder stays so until the    *)
(* job has ended.                                                           *)
JobFolderWhole ==
    \A j \in DOMAIN jobs : jobs[j].at = "queued" =>
        folder[jobs[j].dir].at = "whole" /\ Ready(jobs[j].dir)

(* remote_worker.py:747: what `delete` removes is a leftover of an           *)
(* interrupted upload, never a folder that is still being filled.           *)
LeftoversOnly == \A s \in Slots : Busy(s, "receive") => folder[cmd[s].dir].at = "half"

(* remote_worker.py:750: gc never touches a folder with a job.              *)
UsedSpared == \A j \in Rows : folder[jobs[j].dir].at # "free"

(* What the host's row says has happened on the worker: a folder that was   *)
(* sent is there, and the job it names is the key's, in the row's folder.   *)
RowsTrue ==
    \A k \in Keys :
        /\ row[k].state \in {"sent", "prepared"} => folder[row[k].dir].at = "whole"
        /\ row[k].state = "prepared" => folder[row[k].dir].at = "whole" /\ Ready(row[k].dir)
        /\ row[k].state = "queued" =>
             /\ row[k].id \in DOMAIN jobs
             /\ jobs[row[k].id].key = k /\ jobs[row[k].id].dir = row[k].dir

(* remote_run.py:286: blanked arguments are never needed again: no job is   *)
(* made from them.                                                          *)
NeverFromRedacted == \A j \in DOMAIN jobs : ~jobs[j].redacted

=============================================================================
