------------------------------ MODULE JobStore ------------------------------
(***************************************************************************)
(* The jobs table and its dependencies (src/src/queuer/db.py), across all  *)
(* channels, and the bookkeeping the daemon does on it when a job ends:    *)
(* skip the dependants that can no longer run, prune the history, queue    *)
(* the retry, pause the channel.                                           *)
(*                                                                         *)
(* Each of those is a transaction of its own, and ending a job is up to    *)
(* three: a queued job loses its position, the row gets its status, the    *)
(* history is pruned.  A crash may fall between any two of them.  `todo`,  *)
(* `checking`, `finishing` and `stale` say how far the daemon has come; it *)
(* does not serve anything else meanwhile.                                 *)
(*                                                                         *)
(* A lane's order is the relation `ahead` instead of numeric positions.    *)
(* "running" stands for running and for frozen: the difference, and the    *)
(* processes, are the subject of module Channel.  A start time or an edit  *)
(* lock only delays the head of a lane, which any step here may do.        *)
(***************************************************************************)
EXTENDS Naturals, FiniteSets, FiniteSetsExt

CONSTANTS
    Channels,   \* channel numbers; 1 is the default one
    MaxId,      \* bound: ids the database may hand out
    MaxDeps,    \* bound: dependencies of one job
    MaxRetries, \* bound: the largest `--retries` of an add
    MaxCrashes, \* bound: crashes of the daemon
    Keep,       \* QUEUER_KEEP: ended jobs kept per channel
    OnFail,     \* the `--on-fail pause` flags jobs are added with
    Lanes,      \* {FALSE}, or BOOLEAN to have `--now` jobs as well
    Outcomes,   \* how running jobs may end: among done, failed and cancelled
    Edits,      \* whether `qur edit` is used
    Pauses      \* whether `qur pause` is used

ASSUME ConstantsOK ==
    /\ Channels \subseteq Nat /\ 1 \in Channels
    /\ MaxId \in Nat /\ MaxDeps \in Nat /\ MaxRetries \in Nat /\ MaxCrashes \in Nat
    /\ Keep \in Nat \ {0}
    /\ OnFail \subseteq BOOLEAN /\ Lanes \subseteq BOOLEAN
    /\ Outcomes \subseteq {"done", "failed", "cancelled"}
    /\ Edits \in BOOLEAN /\ Pauses \in BOOLEAN

Ids == 1..MaxId
None == 0
Modes == {"success", "any"}                     \* --depends-on, --after-any
Terminal == {"done", "failed", "cancelled", "skipped", "interrupted"}
Unfinished == {"queued", "running"}
Status == Terminal \cup Unfinished \cup {"none", "gone"}

VARIABLES
    (* the tables: survive a crash *)
    status, chan, prio, retries, attempt, pauses, parent, nextId,
    unplaced,   \* the jobs whose end was cut off when it had taken their position
    ahead,      \* <<i, j>>: i and j are queued in one lane, i first
    deps,       \* <<j, d, mode>>: the rows of job_deps
    ended,      \* when each job ended, as a rank
    paused, known,
    (* how far the daemon has come with its bookkeeping *)
    checking,   \* the new or edited job whose dependencies are looked at next
    finishing,  \* the ended job whose `_after_finish` is not through
    todo,       \* the todo list of `skip_dependants`
    stale,      \* the rows `_recover_on_startup` has still to record
    (* observers: each job's outcome and the dependencies it was last given, *)
    (* pruned or not; jobs whose failure should have paused their channel;   *)
    (* crashes so far                                                        *)
    outcome, wanted, shouldPause, crashes

columns == <<chan, prio, retries, attempt, pauses, parent, nextId, unplaced>>
flags == <<paused, known>>
progress == <<checking, finishing, todo, stale>>
observers == <<outcome, wanted, shouldPause, crashes>>
vars == <<status, columns, ahead, deps, ended, flags, progress, observers>>

----------------------------------------------------------------------------
(* Helpers                                                                 *)

Rows == {j \in Ids : status[j] \notin {"none", "gone"}}
Queued == {j \in Ids : status[j] = "queued"}
Lane(c, p) == {j \in Queued : chan[j] = c /\ prio[j] = p}
Running(c, p) == {j \in Ids : status[j] = "running" /\ chan[j] = c /\ prio[j] = p}
IsHead(j) == j \in Queued /\ \A i \in Ids : <<i, j>> \notin ahead

Idle == checking = None /\ finishing = None /\ todo = {} /\ stale = {}

DepsOf(j) == {d \in Ids : \E m \in Modes : <<j, d, m>> \in deps}

(* `queued_dependants` *)
Dependants(d) == {w \in Queued : d \in DepsOf(w)}

(* Mutant: a failed dependency counts as an ended one. *)
ReadyOnceEnded(j) ==
    \A d \in DepsOf(j) : status[d] \in Terminal

(* `dep_verdict`: "ready" *)
Ready(j) ==
    \A d \in Ids, m \in Modes : <<j, d, m>> \in deps =>
        status[d] = "done" \/ (m = "any" /\ status[d] \in Terminal)

(* `dep_verdict`: "failed" or "removed" *)
Blocked(j) ==
    \E d \in Ids, m \in Modes : /\ <<j, d, m>> \in deps
                                /\ \/ status[d] = "gone"
                                   \/ (m = "success" /\ status[d] \in Terminal \ {"done"})

(* Mutant: what is being waited for is not looked at. *)
UnneededOrNot(st, c) ==
    {j \in Ids : st[j] \in Terminal /\ chan[j] = c}

(* Ended jobs of a channel that no queued job depends on, given the statuses. *)
Unneeded(st, c) ==
    {j \in Ids : /\ st[j] \in Terminal /\ chan[j] = c
                 /\ \A w \in Ids, m \in Modes : <<w, j, m>> \in deps => st[w] # "queued"}

(* `_prune_backlog`: all but the `Keep` that ended last *)
Prunable(st, en, c) ==
    LET U == Unneeded(st, c)
    IN {j \in U : Cardinality({k \in U : en[k] > en[j]}) >= Keep}

(* `_drop_orphan_deps`: what is left of job_deps *)
KeptDeps(st) ==
    {r \in deps : /\ st[r[1]] # "gone"
                  /\ st[r[2]] = "gone" => st[r[1]] = "queued"}

(* The order of the lanes without job j. *)
Without(j) == {q \in ahead : q[1] # j /\ q[2] # j}

(* The status and the rank among the ended jobs that `mark_finished` records. *)
Marked(j, st) == [status EXCEPT ![j] = st]
Ranked(j) == [ended EXCEPT ![j] = Cardinality({k \in Ids : ended[k] # 0}) + 1]

(* Job j ends, and the ended jobs P are pruned. *)
EndPruning(j, st, P) ==
    /\ status' = [k \in Ids |-> IF k \in P THEN "gone" ELSE Marked(j, st)[k]]
    /\ deps' = IF P = {} THEN deps ELSE KeptDeps(status')
    /\ ended' = Ranked(j)
    /\ ahead' = Without(j)
    /\ outcome' = [outcome EXCEPT ![j] = st]

(* `mark_finished` of a running job, `_end_queued` of a queued one, to the end. *)
End(j, st) == EndPruning(j, st, Prunable(Marked(j, st), Ranked(j), chan[j]))

(* Retries still owed, given the `--retries`: ids kept free for them. *)
Owed(rt) == MapThenSumSet(LAMBDA j : rt[j] - attempt[j],
                          {j \in Ids : attempt[j] < rt[j] /\ (status[j] \in Unfinished \/ j = finishing)})
----------------------------------------------------------------------------
(* The waits-for graph                                                     *)

(* A normal job waits for its unfinished dependencies and for the jobs     *)
(* ahead of it.  The code follows the queue one predecessor at a time,     *)
(* which reaches the same jobs.                                            *)
WaitsFor(st, dp, ah, j) ==
    {d \in Ids : st[d] \in Unfinished /\ \E m \in Modes : <<j, d, m>> \in dp}
        \cup {i \in Ids : <<i, j>> \in ah}

(* Mutant: only jobs directly waiting for each other are refused. *)
DeadlockedDirectly(st, dp, ah, n) ==
    \E j \in WaitsFor(st, dp, ah, n) : n \in WaitsFor(st, dp, ah, j)

(* `_find_deadlock`: n is among the jobs its search from n reaches, i.e. in *)
(* every set that is closed under waiting and holds what n waits for.       *)
Deadlocked(st, dp, ah, n) ==
    \A S \in SUBSET Ids :
        WaitsFor(st, dp, ah, n) \subseteq S /\ (\A j \in S : WaitsFor(st, dp, ah, j) \subseteq S)
            => n \in S

----------------------------------------------------------------------------
Init ==
    /\ status = [j \in Ids |-> "none"]
    /\ chan = [j \in Ids |-> 1] /\ prio = [j \in Ids |-> FALSE]
    /\ retries = [j \in Ids |-> 0] /\ attempt = [j \in Ids |-> 0]
    /\ pauses = [j \in Ids |-> FALSE] /\ parent = [j \in Ids |-> None]
    /\ nextId = 1 /\ unplaced = {}
    /\ ahead = {} /\ deps = {}
    /\ ended = [j \in Ids |-> 0]
    /\ paused = {} /\ known = {}
    /\ checking = None /\ finishing = None /\ todo = {} /\ stale = {}
    /\ outcome = [j \in Ids |-> "none"]
    /\ wanted = {} /\ shouldPause = {} /\ crashes = 0

----------------------------------------------------------------------------
(* Requests                                                                *)

(* The jobs of a lane a new job goes behind: all, or as `--before t` or    *)
(* `--after t` say.                                                        *)
Front(c, p, place, t) ==
    CASE place = "end" -> Lane(c, p)
      [] place = "before" -> {i \in Ids : <<i, t>> \in ahead}
      [] place = "after" -> {i \in Ids : <<i, t>> \in ahead} \cup {t}

(* The INSERT of `enqueue`: the next id, on channel c, behind `front`. *)
Insert(c, p, front, r, a, f, from) ==
    /\ nextId \in Ids
    /\ nextId' = nextId + 1
    /\ status' = [status EXCEPT ![nextId] = "queued"]
    /\ chan' = [chan EXCEPT ![nextId] = c]
    /\ prio' = [prio EXCEPT ![nextId] = p]
    /\ retries' = [retries EXCEPT ![nextId] = r]
    /\ attempt' = [attempt EXCEPT ![nextId] = a]
    /\ pauses' = [pauses EXCEPT ![nextId] = f]
    /\ parent' = [parent EXCEPT ![nextId] = from]
    /\ ahead' = ahead \cup (front \X {nextId}) \cup ({nextId} \X (Lane(c, p) \ front))
    /\ known' = known \cup {c}
    /\ UNCHANGED unplaced

RoomFor(r) == nextId + Owed(retries) + r <= MaxId

DepRows(j, M) == {<<j, d, M[d]>> : d \in DOMAIN M}

(* No dependency is queued behind job j, and no cycle passes through j. *)
Placed(j, M) ==
    /\ \A d \in DOMAIN M : <<j, d>> \notin ahead'
    /\ ~Deadlocked(status', deps', ahead', j)

(* `add` of a normal job: M maps its dependencies to their modes.  There is *)
(* no place before or after a job without a position.                       *)
Add(c, place, t, M, r, f) ==
    /\ Idle /\ RoomFor(r)
    /\ DOMAIN M \subseteq Rows
    /\ place # "end" => t \in Lane(c, FALSE) \ unplaced
    /\ Insert(c, FALSE, Front(c, FALSE, place, t), r, 0, f, None)
    /\ deps' = deps \cup DepRows(nextId, M)
    /\ Placed(nextId, M)
    /\ checking' = IF DOMAIN M = {} THEN None ELSE nextId
    /\ wanted' = wanted \cup DepRows(nextId, M)
    /\ UNCHANGED <<ended, paused, finishing, todo, stale, outcome, shouldPause, crashes>>

(* `add --now` *)
AddNow(c, r, f) ==
    /\ Idle /\ RoomFor(r)
    /\ Insert(c, TRUE, Lane(c, TRUE), r, 0, f, None)
    /\ UNCHANGED <<deps, ended, paused, progress, observers>>

(* `requeue`: a fresh copy at the end of the channel, without dependencies. *)
Requeue(j) ==
    /\ Idle /\ RoomFor(retries[j])
    /\ status[j] \in Terminal
    /\ Insert(chan[j], FALSE, Lane(chan[j], FALSE), retries[j], 0, pauses[j], j)
    /\ UNCHANGED <<deps, ended, paused, progress, observers>>

(* `edit`: a new set of dependencies, the end of another channel, other    *)
(* `--retries`, another `--on-fail`, or several of these.  Dependencies    *)
(* and a channel are checked, and a check needs the job's position, which  *)
(* another channel gives it anew.                                          *)
Edit(j, c, M, r, f) ==
    /\ Idle
    /\ status[j] = "queued" /\ ~prio[j]
    /\ DOMAIN M \subseteq Rows \ {j}
    /\ LET given == DepRows(j, M)
           others == {w \in deps : w[1] # j}
       IN /\ c # chan[j] \/ given \cup others # deps \/ r # retries[j] \/ f # pauses[j]
          /\ deps' = others \cup given
          /\ wanted' = {w \in wanted : w[1] # j} \cup given
          /\ checking' = IF given \cup others = deps THEN None ELSE j
    /\ chan' = [chan EXCEPT ![j] = c]
    /\ ahead' = IF c = chan[j] THEN ahead ELSE Without(j) \cup (Lane(c, FALSE) \X {j})
    /\ unplaced' = IF c = chan[j] THEN unplaced ELSE unplaced \ {j}
    /\ known' = known \cup {c}
    /\ retries' = [retries EXCEPT ![j] = r]
    /\ nextId + Owed(retries') <= MaxId + 1
    /\ pauses' = [pauses EXCEPT ![j] = f]
    /\ UNCHANGED status
    /\ c # chan[j] \/ (deps' # deps /\ M # <<>>) => Placed(j, M) /\ j \notin unplaced'
    /\ UNCHANGED <<prio, attempt, parent, nextId, ended, paused,
                   finishing, todo, stale, outcome, shouldPause, crashes>>

(* Mutant: whoever needed the cancelled job is not told. *)
CancelQueuedAlone(j) ==
    /\ Idle
    /\ status[j] = "queued"
    /\ End(j, "cancelled")
    /\ UNCHANGED <<columns, flags, progress, wanted, shouldPause, crashes>>

(* `cancel ID` of a queued job: the row, then its dependants. *)
CancelQueued(j) ==
    /\ Idle
    /\ status[j] = "queued"
    /\ End(j, "cancelled")
    /\ todo' = {j}
    /\ UNCHANGED <<columns, flags, checking, finishing, stale, wanted, shouldPause, crashes>>

(* `rm ID`: refused while a queued job depends on it. *)
Rm(j) ==
    /\ Idle
    /\ status[j] = "queued" /\ Dependants(j) = {}
    /\ status' = [status EXCEPT ![j] = "gone"]
    /\ deps' = {r \in deps : r[1] # j /\ r[2] # j}
    /\ ahead' = Without(j)
    /\ UNCHANGED <<columns, ended, flags, progress, observers>>

(* `clear` of some channels: their history, then the channels that hold    *)
(* no job any more, with their pause flags.  Channel 1 is never forgotten. *)
Clear(C) ==
    /\ Idle
    /\ LET cleared == UNION {Unneeded(status, c) : c \in C}
           empty == {c \in known \ {1} : \A j \in Rows \ cleared : chan[j] # c}
       IN /\ status' = [j \in Ids |-> IF j \in cleared THEN "gone" ELSE status[j]]
          /\ known' = known \ empty
          /\ paused' = paused \ empty
          /\ shouldPause' = {j \in shouldPause : chan[j] \notin empty}
    /\ deps' = KeptDeps(status')
    /\ UNCHANGED <<columns, ahead, ended, progress, outcome, wanted, crashes>>

(* `pause` and `resume` *)
Pause(c) ==
    /\ Idle /\ Pauses
    /\ paused' = paused \cup {c}
    /\ UNCHANGED <<status, columns, ahead, deps, ended, known, progress, observers>>

Resume(c) ==
    /\ Idle
    /\ paused' = paused \ {c}
    /\ shouldPause' = {j \in shouldPause : chan[j] # c}
    /\ UNCHANGED <<status, columns, ahead, deps, ended, known, progress, outcome, wanted, crashes>>

----------------------------------------------------------------------------
(* Starting and ending jobs                                                *)

(* The head of a normal lane may be looked at: `_worker_step`, `_lane_busy` *)
Turn(j) ==
    /\ Idle
    /\ IsHead(j) /\ ~prio[j]
    /\ chan[j] \notin paused
    /\ Running(chan[j], FALSE) \cup Running(chan[j], TRUE) \cup Lane(chan[j], TRUE) = {}

Run(j) ==
    /\ status' = [status EXCEPT ![j] = "running"]
    /\ ahead' = Without(j)
    /\ UNCHANGED <<columns, deps, ended, flags, progress, observers>>

Start(j) == Turn(j) /\ Ready(j) /\ Run(j)

StartNow(j) ==
    /\ Idle
    /\ IsHead(j) /\ prio[j] /\ Running(chan[j], TRUE) = {}
    /\ Run(j)

(* `_skip_blocked`: skip a job that can never run, then whatever needed it. *)
SkipBlocked(j) ==
    /\ End(j, "skipped")
    /\ todo' = {j}
    /\ UNCHANGED <<columns, flags, finishing, stale, wanted, shouldPause, crashes>>

(* The worker finds its head blocked. *)
SkipHead(j) ==
    /\ Turn(j) /\ Blocked(j)
    /\ SkipBlocked(j)
    /\ UNCHANGED checking

(* The end of `add` and of `edit`: a dependency may have failed already. *)
Check ==
    /\ checking # None
    /\ checking' = None
    /\ IF Blocked(checking)
       THEN SkipBlocked(checking)
       ELSE UNCHANGED <<status, columns, ahead, deps, ended, flags, finishing, todo, stale, observers>>

WillRetry(j) == attempt[j] < retries[j]

(* A job ends: its row is recorded first, `_after_finish` follows. *)
Finish(j, st) ==
    /\ Idle
    /\ status[j] = "running"
    /\ End(j, st)
    /\ todo' = {j} /\ finishing' = j
    /\ shouldPause' = IF st = "failed" /\ pauses[j] /\ ~WillRetry(j) THEN shouldPause \cup {j} ELSE shouldPause
    /\ UNCHANGED <<columns, flags, checking, stale, wanted, crashes>>

(* Mutant: the mode of a dependency is not looked at. *)
DoomedInAnyMode(d) ==
    {w \in Queued : d \in DepsOf(w) /\ status[d] # "done"}

(* The queued jobs that needed d to end done, when it has not. *)
Doomed(d) ==
    {w \in Queued : <<w, d, "success">> \in deps /\ status[d] \in Terminal \ {"done"}}

(* One round of `skip_dependants`; its order among the waiting jobs is left open. *)
SkipDependant(d, w) ==
    /\ d \in todo /\ w \in Doomed(d)
    /\ End(w, "skipped")
    /\ todo' = todo \cup {w}
    /\ UNCHANGED <<columns, flags, checking, finishing, stale, wanted, shouldPause, crashes>>

(* d has no more jobs to skip, or its own row has been pruned. *)
Settled(d) ==
    /\ d \in todo /\ Doomed(d) = {}
    /\ todo' = todo \ {d}
    /\ UNCHANGED <<status, columns, ahead, deps, ended, flags, checking, finishing, stale, observers>>

(* Mutant: the last attempt is not made. *)
AutoRetryOneLess(j) == status[j] = "failed" /\ attempt[j] + 1 < retries[j]

(* `_maybe_auto_retry`: its conditions, read from the row *)
AutoRetry(j) == status[j] = "failed" /\ WillRetry(j)

(* Mutant: a job that was ever allowed a retry does not pause its channel. *)
PauseAskedNoRetries(j) == status[j] = "failed" /\ pauses[j] /\ retries[j] = 0

(* `_pause_if_asked`: its conditions, read from the row *)
PauseAsked(j) == status[j] = "failed" /\ pauses[j]

(* The rest of `_after_finish`. *)
AfterFinish ==
    /\ finishing # None /\ todo = {}
    /\ finishing' = None
    /\ IF AutoRetry(finishing)
       THEN /\ Insert(chan[finishing], FALSE, Lane(chan[finishing], FALSE),
                      retries[finishing], attempt[finishing] + 1, pauses[finishing], finishing)
            /\ UNCHANGED paused
       ELSE /\ paused' = IF PauseAsked(finishing) THEN paused \cup {chan[finishing]} ELSE paused
            /\ UNCHANGED <<status, columns, ahead, known>>
    /\ UNCHANGED <<deps, ended, checking, todo, stale, observers>>

----------------------------------------------------------------------------
(* Crash and restart                                                       *)

(* The daemon dies and is started again. *)
Dies ==
    /\ crashes < MaxCrashes
    /\ crashes' = crashes + 1
    /\ checking' = None /\ finishing' = None /\ todo' = {}
    /\ stale' = {j \in Ids : status'[j] = "running"}

(* It dies between two of the actions above. *)
Crash ==
    /\ UNCHANGED <<status, columns, ahead, deps, ended, flags, outcome, wanted, shouldPause>>
    /\ Dies

(* Queued job j is just being cancelled, or skipped: as the head of its     *)
(* lane, as the job just added or edited, or as a dependant.                *)
EndingQueued(j, st) ==
    /\ j \in Queued
    /\ \/ st = "cancelled" /\ Idle
       \/ st = "skipped" /\ \/ Blocked(j) /\ (Turn(j) \/ checking = j)
                            \/ \E d \in todo : j \in Doomed(d)

(* It dies in `_end_queued`, before `mark_finished`: job j is queued still, *)
(* without a position, and such jobs come first, by id.                     *)
CutOff(j) ==
    /\ \E st \in {"cancelled", "skipped"} : EndingQueued(j, st)
    /\ unplaced' = unplaced \cup {j}
    /\ LET lane == Lane(chan[j], prio[j]) \ {j}
           before == {i \in lane \cap unplaced : i < j}
       IN ahead' = Without(j) \cup (before \X {j}) \cup ({j} \X (lane \ before))
    /\ UNCHANGED <<status, chan, prio, retries, attempt, pauses, parent, nextId,
                   deps, ended, flags, outcome, wanted, shouldPause>>
    /\ Dies

(* It dies in `mark_finished`, before `_prune_backlog`: job j has ended, and *)
(* the history is as long as it was.                                         *)
EndUnpruned(j, st) ==
    /\ \/ EndingQueued(j, st)
       \/ status[j] = "running" /\ Idle /\ st \in Outcomes
       \/ j \in stale /\ todo = {} /\ st = "interrupted"
    /\ EndPruning(j, st, {})
    /\ UNCHANGED <<columns, flags, wanted, shouldPause>>
    /\ Dies

(* `_recover_on_startup`, for one row *)
Recover(j) ==
    /\ j \in stale /\ todo = {}
    /\ End(j, "interrupted")
    /\ stale' = stale \ {j} /\ todo' = {j}
    /\ UNCHANGED <<columns, flags, checking, finishing, wanted, shouldPause, crashes>>

----------------------------------------------------------------------------
Given == UNION {[D -> Modes] : D \in {D \in SUBSET Rows : Cardinality(D) <= MaxDeps}}

Request ==
    \/ \E c \in Channels, M \in Given, r \in 0..MaxRetries, f \in OnFail :
         \/ Add(c, "end", None, M, r, f)
         \/ \E place \in {"before", "after"}, t \in Queued : Add(c, place, t, M, r, f)
    \/ \E c \in Channels, r \in 0..MaxRetries, f \in OnFail : TRUE \in Lanes /\ AddNow(c, r, f)
    \/ \E j \in Ids : CancelQueued(j) \/ Rm(j) \/ Requeue(j)
    \/ \E j \in Ids, c \in Channels, M \in Given, r \in 0..MaxRetries, f \in OnFail :
         Edits /\ Edit(j, c, M, r, f)
    \/ \E C \in {Channels} \cup {{c} : c \in Channels} : Clear(C)
    \/ \E c \in Channels : Pause(c) \/ Resume(c)

Bookkeeping ==
    \/ Check \/ AfterFinish
    \/ \E d \in Ids : Settled(d) \/ Recover(d) \/ \E w \in Ids : SkipDependant(d, w)

Next ==
    \/ Request
    \/ \E j \in Ids : Start(j) \/ StartNow(j) \/ SkipHead(j)
    \/ \E j \in Ids, st \in Outcomes : Finish(j, st)
    \/ Bookkeeping
    \/ Crash
    \/ \E j \in Ids : CutOff(j) \/ \E st \in Terminal : EndUnpruned(j, st)

Spec == Init /\ [][Next]_vars

(* The daemon gets on with its work and running jobs end; nobody has to    *)
(* send a request or resume a channel.                                     *)
Fairness ==
    /\ WF_vars(Bookkeeping)
    /\ \A j \in Ids : /\ WF_vars(Start(j)) /\ WF_vars(StartNow(j)) /\ WF_vars(SkipHead(j))
                      /\ WF_vars(\E st \in Outcomes : Finish(j, st))

FairSpec == Spec /\ Fairness
----------------------------------------------------------------------------
(* Properties                                                              *)

(* Type invariant: the columns of jobs and job_deps and the daemon's progress. *)
(* A retry is only made within the `--retries` of the attempt that failed.     *)
TypeOK ==
    /\ status \in [Ids -> Status] /\ outcome \in [Ids -> Terminal \cup {"none"}]
    /\ chan \in [Ids -> Channels] /\ prio \in [Ids -> BOOLEAN]
    /\ retries \in [Ids -> Nat] /\ attempt \in [Ids -> Nat]
    /\ \A j \in Ids : attempt[j] > 0 => attempt[j] <= retries[parent[j]]
    /\ pauses \in [Ids -> BOOLEAN] /\ parent \in [Ids -> Ids \cup {None}]
    /\ nextId \in 1..(MaxId + 1)
    /\ unplaced \subseteq Ids
    /\ ahead \subseteq Ids \X Ids
    /\ deps \subseteq Ids \X Ids \X Modes /\ wanted \subseteq Ids \X Ids \X Modes
    /\ ended \in [Ids -> Nat]
    /\ paused \subseteq Channels /\ known \subseteq Channels
    /\ checking \in Ids \cup {None} /\ finishing \in Ids \cup {None}
    /\ todo \subseteq Ids /\ stale \subseteq Ids /\ shouldPause \subseteq Ids
    /\ crashes \in Nat

(* README.md:174: jobs that a queued job still needs are kept in history     *)
(* until it has run or been skipped, whatever is pruned, cleared or removed. *)
DependenciesKept ==
    \A r \in deps : status[r[1]] = "queued" => status[r[2]] \notin {"gone", "none"}

(* Every lane is served in one definite order: inserting, moving, starting  *)
(* and ending jobs keep its order a strict total one, among its own jobs,   *)
(* wherever the daemon dies.                                                *)
LaneOrder ==
    /\ \A q \in ahead : \E c \in Channels, p \in BOOLEAN : q[1] \in Lane(c, p) /\ q[2] \in Lane(c, p)
    /\ \A c \in Channels, p \in BOOLEAN : \A i, j \in Lane(c, p) :
         /\ i # j <=> (<<i, j>> \in ahead \/ <<j, i>> \in ahead)
         /\ \A k \in Lane(c, p) : <<i, j>> \in ahead /\ <<j, k>> \in ahead => <<i, k>> \in ahead

(* db.py:736: dependencies that could never be satisfied are rejected.  In   *)
(* every group of jobs, on any channels, none of which a crash has robbed of *)
(* its position, some job waits for no other job of the group: queue order   *)
(* and dependencies never deadlock.                                          *)
NoWaitCycle ==
    \A S \in (SUBSET (Ids \ unplaced)) \ {{}} : \E j \in S : WaitsFor(status, deps, ahead, j) \cap S = {}

(* Jobs that wait for each other. *)
WaitingInACircle(S) == S # {} /\ \A j \in S : WaitsFor(status, deps, ahead, j) \cap S # {}

(* The same of every group of jobs: db.py:736 makes no exception, and         *)
(* db.py:1314 says that what `_end_queued` leaves in the queue needs no care. *)
(* It fails: a cancelled or skipped job that lost its position to a crash     *)
(* goes ahead of the jobs it depends on, and its lane stands still.           *)
NobodyWaitsInACircle == \A S \in SUBSET Ids : ~WaitingInACircle(S)

(* README.md:148: a job runs only if every job it depends on ended as asked, *)
(* however long ago that was and whatever became of its row since.           *)
RanAsAsked ==
    \A r \in wanted : status[r[1]] = "running" \/ outcome[r[1]] \in {"done", "failed"} =>
        outcome[r[2]] \in IF r[3] = "success" THEN {"done"} ELSE Terminal

(* README.md:151: a job is skipped only when a job it needed to succeed did not. *)
SkipsDeserved ==
    \A j \in Ids : outcome[j] = "skipped" =>
        \E d \in Ids : <<j, d, "success">> \in wanted /\ outcome[d] \in Terminal \ {"done"}

(* Between two requests of an undisturbed daemon no job waits in the queue   *)
(* for something that has already gone wrong, on whatever channel it is.     *)
NoDoomedWaiter == Idle /\ crashes = 0 => \A j \in Queued : ~Blocked(j)

(* README.md:302: `--retries N` requeues a failed job automatically: every   *)
(* failure with attempts left has been followed by the next attempt.         *)
RetriesHappen ==
    Idle /\ crashes = 0 =>
        \A j \in Ids : outcome[j] = "failed" /\ WillRetry(j) =>
            \E k \in Ids : parent[k] = j /\ attempt[k] = attempt[j] + 1

(* README.md:199: the final failure of an `--on-fail pause` job leaves its   *)
(* channel paused until somebody resumes it.                                 *)
FailurePauses == Idle /\ crashes = 0 => \A j \in shouldPause : chan[j] \in paused

(* With no channel paused every queued job starts, is skipped or is removed: *)
(* nobody waits on everybody, and a crash does not leave a doomed job behind. *)
(* The exception is a circle through a job that a crash robbed of its place.  *)
QueueDrains ==
    \A j \in Ids : status[j] = "queued" ~>
        \/ status[j] # "queued" \/ paused # {}
        \/ \E S \in SUBSET Ids : S \cap unplaced # {} /\ WaitingInACircle(S)

=============================================================================
