------------------------------ MODULE EditLock ------------------------------
(***************************************************************************)
(* `qur edit` of one channel's queued jobs: the editor process (cli.py),   *)
(* its requests to the daemon (client.py), the edit lock (db.py) and the   *)
(* worker that must not start a job under an editor.                       *)
(*                                                                         *)
(* A version of a job stands for all of its settings.  An editor is known  *)
(* by its process id; a dead editor's id may be taken by another process.  *)
(* Time is what is left of each lock, in units of Tick.                    *)
(***************************************************************************)
EXTENDS Naturals

CONSTANTS
    Jobs,        \* queued jobs, each known by its place in the queue
    Pids,
    LockSecs,    \* EDIT_LOCK_SECS
    MaxSessions, \* bound: editors ever started
    MaxFlagged,  \* bound: edits by flags, without a lock
    MaxRestarts  \* bound: deaths of the daemon

ASSUME EditOK ==
    /\ LockSecs \in Nat \ {0} /\ {MaxSessions, MaxFlagged, MaxRestarts} \subseteq Nat
    /\ Jobs \subseteq Nat \ {0} /\ 0 \notin Pids

None == 0

VARIABLES
    status,   \* of each job: "queued", "running" or "ended"
    version,  \* of each job's settings
    starting, \* the job whose process is being created (_starting)
    ran,      \* the version each job was started with
    lock,     \* edit_locks
    editor,   \* of each process id; observer `left`: of what it was promised
    reused,   \* ids of dead editors that other processes have
    requests, \* of editors, on their way to the daemon
    sessions, flagged, restarts \* the bounds

jobs == <<status, version, starting, ran>>
bounds == <<sessions, flagged, restarts>>
vars == <<jobs, lock, editor, reused, requests, bounds>>

NoLock == [pid |-> None, left |-> 0]
Off == [at |-> "off", job |-> None, base |-> 0, left |-> 0]
Editor == [at : {"off", "locks", "open", "saves", "unlocks"}, job : Jobs \cup {None},
           base : Nat, left : 0..LockSecs]

Init ==
    /\ status = [j \in Jobs |-> "queued"] /\ version = [j \in Jobs |-> 0]
    /\ starting = None /\ ran = [j \in Jobs |-> 0]
    /\ lock = [j \in Jobs |-> NoLock]
    /\ editor = [p \in Pids |-> Off]
    /\ reused = {} /\ requests = {}
    /\ sessions = 0 /\ flagged = 0 /\ restarts = 0

----------------------------------------------------------------------------
(* The lock                                                                *)

PidAlive(p) == editor[p].at # "off" \/ p \in reused

(* Mutant: a lock never expires. *)
NeverExpires(l) == l.pid # None /\ PidAlive(l.pid)

(* A lock counts until it expires or its holder's process is gone. *)
Live(l) == l.pid # None /\ l.left > 0 /\ PidAlive(l.pid)

(* live_edit_lock deletes the lock it finds stale. *)
Cleared(j) == IF Live(lock[j]) THEN lock ELSE [lock EXCEPT ![j] = NoLock]

(* Mutant: a job whose process is being created can be edited. *)
QueuedRow(j) == status[j] = "queued"

(* _editable: queued, and its process not being created. *)
Editable(j) == status[j] = "queued" /\ starting # j

----------------------------------------------------------------------------
(* The editor (_edit_interactive)                                          *)

Request(what, p) == [what |-> what, pid |-> p, job |-> editor[p].job, base |-> editor[p].base]
Sends(what, p) == requests' = requests \cup {Request(what, p)}
EditorAt(p, at) == editor' = [editor EXCEPT ![p].at = at]

(* An id is not given away while a request of its old owner is under way. *)
OpensEditor(p, j) ==
    /\ editor[p].at = "off" /\ p \notin reused /\ sessions < MaxSessions
    /\ \A r \in requests : r.pid # p
    /\ editor' = [editor EXCEPT ![p] = [Off EXCEPT !.at = "locks", !.job = j]]
    /\ requests' = requests \cup {[what |-> "lock", pid |-> p, job |-> j, base |-> 0]}
    /\ sessions' = sessions + 1
    /\ UNCHANGED <<jobs, lock, reused, flagged, restarts>>

Saves(p) ==
    /\ editor[p].at = "open"
    /\ EditorAt(p, "saves") /\ Sends("edit", p)
    /\ UNCHANGED <<jobs, lock, reused, bounds>>

(* Nothing changed, or what was written is not valid. *)
Abandons(p) ==
    /\ editor[p].at = "open"
    /\ EditorAt(p, "unlocks") /\ Sends("unlock", p)
    /\ UNCHANGED <<jobs, lock, reused, bounds>>

(* The answer does not come in time: an edit is given up, and its request   *)
(* may still be served.  Without an answer to the lock the editor ends.     *)
TimesOut(p) ==
    /\ editor[p].at \in {"locks", "saves", "unlocks"}
    /\ IF editor[p].at = "saves" THEN EditorAt(p, "unlocks") /\ Sends("unlock", p)
       ELSE editor' = [editor EXCEPT ![p] = Off] /\ UNCHANGED requests
    /\ UNCHANGED <<jobs, lock, reused, bounds>>

Dies(p) ==
    /\ editor[p].at # "off"
    /\ editor' = [editor EXCEPT ![p] = Off]
    /\ UNCHANGED <<jobs, lock, reused, requests, bounds>>

PidTaken(p) ==
    /\ editor[p].at = "off" /\ p \notin reused
    /\ \E j \in Jobs : lock[j].pid = p
    /\ reused' = reused \cup {p}
    /\ UNCHANGED <<jobs, lock, editor, requests, bounds>>

PidFreed(p) ==
    /\ p \in reused /\ reused' = reused \ {p}
    /\ UNCHANGED <<jobs, lock, editor, requests, bounds>>

----------------------------------------------------------------------------
(* The daemon: requests.  One is served in one step.                       *)

(* An editor that waits for this answer: one that still lives. *)
Waits(r, at) == editor[r.pid].at = at /\ editor[r.pid].job = r.job

LockRow(j, p) == [pid |-> p, left |-> LockSecs]

(* take_edit_lock: one's own is renewed, another's live one is refused; a   *)
(* lock for a process that is gone does not last.                           *)
ServeLock(r) ==
    LET j == r.job
        free == ~Live(lock[j]) \/ lock[j].pid = r.pid
        got == Editable(j) /\ free /\ PidAlive(r.pid)
    IN  /\ r \in requests /\ r.what = "lock"
        /\ requests' = requests \ {r}
        /\ lock' = IF got THEN [lock EXCEPT ![j] = LockRow(j, r.pid)]
                   ELSE IF Editable(j) THEN Cleared(j) ELSE lock
        /\ editor' = IF ~Waits(r, "locks") THEN editor
                     ELSE IF got THEN [editor EXCEPT ![r.pid].at = "open", ![r.pid].base = version[j],
                                                     ![r.pid].left = LockSecs]
                     ELSE [editor EXCEPT ![r.pid] = Off]
        /\ UNCHANGED <<jobs, reused, bounds>>

(* Mutant: only another process's lock refuses the edit. *)
NotAnothers(r) == Live(lock[r.job]) => lock[r.job].pid = r.pid

(* edit_job with a holder: the lock must be live and theirs. *)
HoldsLock(r) == Live(lock[r.job]) /\ lock[r.job].pid = r.pid

(* The edit is applied as a whole and the lock goes with it.  One that is   *)
(* refused is followed by an unlock.                                        *)
ServeEdit(r) ==
    LET ok == Editable(r.job) /\ HoldsLock(r)
    IN  /\ r \in requests /\ r.what = "edit"
        /\ IF ok THEN /\ version' = [version EXCEPT ![r.job] = @ + 1]
                      /\ lock' = [lock EXCEPT ![r.job] = NoLock]
           ELSE /\ lock' = IF Editable(r.job) THEN Cleared(r.job) ELSE lock
                /\ UNCHANGED version
        /\ IF ~Waits(r, "saves") THEN requests' = requests \ {r} /\ UNCHANGED editor
           ELSE IF ok THEN requests' = requests \ {r} /\ editor' = [editor EXCEPT ![r.pid] = Off]
           ELSE /\ requests' = (requests \ {r}) \cup {Request("unlock", r.pid)}
                /\ EditorAt(r.pid, "unlocks")
        /\ UNCHANGED <<status, starting, ran, reused, bounds>>

(* release_edit_lock: only the holder's own. *)
ServeUnlock(r) ==
    /\ r \in requests /\ r.what = "unlock"
    /\ requests' = requests \ {r}
    /\ lock' = IF lock[r.job].pid = r.pid THEN [lock EXCEPT ![r.job] = NoLock] ELSE lock
    /\ editor' = IF Waits(r, "unlocks") THEN [editor EXCEPT ![r.pid] = Off] ELSE editor
    /\ UNCHANGED <<jobs, reused, bounds>>

(* Mutant: an edit by flags does not ask who has the job open. *)
Unasked(j) == j \in Jobs

(* edit_job without a holder: no live lock may be there. *)
NotLocked(j) == ~Live(lock[j])

(* `qur edit` with flags. *)
FlaggedEdit(j) ==
    /\ flagged < MaxFlagged /\ flagged' = flagged + 1
    /\ Editable(j) /\ NotLocked(j)
    /\ version' = [version EXCEPT ![j] = @ + 1]
    /\ lock' = [lock EXCEPT ![j] = NoLock]
    /\ UNCHANGED <<status, starting, ran, editor, reused, requests, sessions, restarts>>

(* Nothing is promised any longer to the editors of these jobs. *)
Unpromised(S) == [p \in Pids |-> IF editor[p].job \in S THEN [editor[p] EXCEPT !.left = 0] ELSE editor[p]]

(* A cancel or a removal wins over an open editor, and so does a skip. *)
Removed(j) ==
    /\ Editable(j)
    /\ status' = [status EXCEPT ![j] = "ended"]
    /\ lock' = [lock EXCEPT ![j] = NoLock]
    /\ editor' = Unpromised({j})
    /\ UNCHANGED <<version, starting, ran, reused, requests, bounds>>

(* `list` and `show` look at a job's lock, too. *)
Looked(j) ==
    /\ status[j] = "queued" /\ lock # Cleared(j) /\ lock' = Cleared(j)
    /\ UNCHANGED <<jobs, editor, reused, requests, bounds>>

----------------------------------------------------------------------------
(* The daemon: the channel's worker                                        *)

(* Mutant: the worker does not look for a lock. *)
HeadMayStart(j) == j \in Jobs

(* A head that is being edited holds the channel. *)
MayStart(j) == ~Live(lock[j])

Queued == {j \in Jobs : status[j] = "queued"}
IsHead(j) == j \in Queued /\ \A i \in Queued : j <= i

Busy == starting # None \/ \E j \in Jobs : status[j] = "running"

(* The row that is read here is the one the process is made from. *)
Starts(j) ==
    /\ ~Busy /\ IsHead(j) /\ MayStart(j)
    /\ starting' = j
    /\ ran' = [ran EXCEPT ![j] = version[j]]
    /\ lock' = Cleared(j)
    /\ UNCHANGED <<status, version, editor, reused, requests, bounds>>

(* mark_running, or the process could not be made. *)
Started(ok) ==
    /\ starting # None
    /\ starting' = None
    /\ status' = [status EXCEPT ![starting] = IF ok THEN "running" ELSE "ended"]
    /\ lock' = IF ok THEN [lock EXCEPT ![starting] = NoLock] ELSE lock
    /\ UNCHANGED <<version, ran, editor, reused, requests, bounds>>

Ends(j) ==
    /\ status[j] = "running" /\ status' = [status EXCEPT ![j] = "ended"]
    /\ UNCHANGED <<version, starting, ran, lock, editor, reused, requests, bounds>>

Less(n) == IF n = 0 THEN 0 ELSE n - 1

Tick ==
    /\ lock' = [j \in Jobs |-> [lock[j] EXCEPT !.left = Less(@)]]
    /\ editor' = [p \in Pids |-> [editor[p] EXCEPT !.left = Less(@)]]
    /\ <<lock, editor>>' # <<lock, editor>>
    /\ UNCHANGED <<jobs, reused, requests, bounds>>

(* The daemon dies and starts again: connections break, locks are forgotten, *)
(* a job whose process was being created is queued still.                    *)
Restarts ==
    /\ restarts < MaxRestarts /\ restarts' = restarts + 1
    /\ requests' = {}
    /\ lock' = [j \in Jobs |-> NoLock]
    /\ starting' = None
    /\ status' = [j \in Jobs |-> IF status[j] = "running" THEN "ended" ELSE status[j]]
    /\ ran' = IF starting = None THEN ran ELSE [ran EXCEPT ![starting] = 0]
    /\ editor' = Unpromised(Jobs)
    /\ UNCHANGED <<version, reused, sessions, flagged>>

----------------------------------------------------------------------------
Serve(r) == ServeLock(r) \/ ServeEdit(r) \/ ServeUnlock(r)

Next ==
    \/ \E p \in Pids : \/ \E j \in Jobs : OpensEditor(p, j)
                       \/ Saves(p) \/ Abandons(p) \/ TimesOut(p) \/ Dies(p)
                       \/ PidTaken(p) \/ PidFreed(p)
    \/ \E r \in requests : Serve(r)
    \/ \E j \in Jobs : FlaggedEdit(j) \/ Removed(j) \/ Looked(j) \/ Ends(j)
    \/ \E j \in Jobs : Starts(j)
    \/ \E ok \in BOOLEAN : Started(ok)
    \/ Tick \/ Restarts

Spec == Init /\ [][Next]_vars

(* Time passes, the worker looks again every few seconds, processes are     *)
(* made and jobs end.  Nothing is assumed of editors or of the daemon's     *)
(* answers to them.                                                         *)
Fairness ==
    /\ WF_vars(Tick) /\ (\A j \in Jobs : WF_vars(Starts(j))) /\ WF_vars(Started(TRUE) \/ Started(FALSE))
    /\ \A j \in Jobs : WF_vars(Ends(j))

FairSpec == Spec /\ Fairness

----------------------------------------------------------------------------
(* Properties                                                              *)

TypeOK ==
    /\ status \in [Jobs -> {"queued", "running", "ended"}]
    /\ version \in [Jobs -> Nat] /\ ran \in [Jobs -> Nat]
    /\ starting \in Jobs \cup {None}
    /\ lock \in [Jobs -> [pid : Pids \cup {None}, left : 0..LockSecs]]
    /\ editor \in [Pids -> Editor] /\ reused \subseteq Pids
    /\ requests \subseteq [what : {"lock", "edit", "unlock"}, pid : Pids, job : Jobs, base : Nat]

(* README.md:577: while the editor is open the job does not start and no    *)
(* other edit changes it: for LockSecs from the lock's answer, until the    *)
(* job is removed or the daemon restarts.                                   *)
EditorUndisturbed ==
    \A p \in Pids : editor[p].at = "open" /\ editor[p].left > 0
        => /\ status[editor[p].job] = "queued" /\ starting # editor[p].job
           /\ version[editor[p].job] = editor[p].base

(* db.py:1567: an edit made in an editor is applied to the settings that    *)
(* editor was shown, or refused, whatever expired, died or restarted while  *)
(* it was open: no other edit is overwritten unseen.                        *)
NoLostUpdate ==
    [][\A r \in requests : r.what = "edit" /\ r \notin requests' /\ version' # version
                           => r.base = version[r.job] \/ version'[r.job] = version[r.job]]_vars

(* daemon.py:2247: an edit that is accepted takes part in the run: a job    *)
(* runs with its last settings.                                             *)
RunsAsEdited == \A j \in Jobs : status[j] = "running" => ran[j] = version[j]

(* README.md:580: a lock does not hold the channel for ever, even if its    *)
(* editor hangs, dies, or its process id now belongs to another process.    *)
ChannelGoesOn == <>[](Queued = {})

=============================================================================
