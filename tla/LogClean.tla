----------------------------- MODULE LogClean ------------------------------
(***************************************************************************)
(* The logs of jobs: written by the daemon while a job and then its hooks  *)
(* run (daemon.py), deleted by age and by total size (logclean.py) by the  *)
(* daemon's timer, in a thread of its own, and by `qur clean-logs`.        *)
(*                                                                         *)
(* A cleaner reads the rows of all jobs, then lists the files, then        *)
(* deletes one file after another; everything else goes on in between.     *)
(* Ids start at 1 again when the database is deleted: `generation` tells   *)
(* the jobs of one database from those of the next.                        *)
(***************************************************************************)
EXTENDS Naturals, FiniteSets, FiniteSetsExt, Sequences, SequencesExt

CONSTANTS
    MaxId,      \* bound: ids a database may hand out
    Cleaners,   \* the timer and the commands that may run beside it
    Timer,      \* the one that comes back for ever
    MaxAge,     \* age limit
    MaxBytes,   \* size limit, in chunks of output
    Keep,       \* QUEUER_KEEP: finished jobs kept in the history
    Hooks,      \* the kinds of hooks configured
    LogCap,     \* MAX_LOG_BYTES, in chunks of output
    Stuck,      \* ids whose logs cannot be unlinked
    MaxTime, MaxStops \* bounds: time, ends of the daemon

ASSUME LogCleanOK ==
    /\ {MaxId, MaxAge, MaxBytes, LogCap, MaxTime, MaxStops} \subseteq Nat
    /\ Keep \in Nat \ {0} /\ Timer \in Cleaners /\ Stuck \subseteq 1..MaxId
    /\ Hooks \subseteq {"post-job", "on-finish", "on-error"}

Ids == 1..MaxId
Unfinished == {"queued", "running"}  \* "running" stands for frozen, too
Status == Unfinished \cup {"none", "ended"} \* "ended" for all of db.TERMINAL_STATUSES

VARIABLES
    row, nextId, generation, \* the database
    log,                     \* <id>.log
    kept,                    \* the databases whose jobs printed <id>.log.old
    handle,                  \* of each job: its log as the pump has it open
    hooks,                   \* of each job: the hooks its task has yet to run
    cleaner, now,            \* observer `known`: the ids a cleaner saw rows of
    stops,                   \* ends of the daemon so far
    opened                   \* observer: jobs whose pump could open their log

database == <<row, nextId, generation>>
files == <<log, kept>>
daemon == <<handle, hooks>>
vars == <<database, files, daemon, cleaner, now, stops, opened>>

NoRow == [status |-> "none", started |-> FALSE, at |-> 0]
Unseen == [status |-> "none", at |-> 0]
NoLog == [size |-> 0, mtime |-> 0, from |-> {}]
Idle == [at |-> "idle", seen |-> [j \in Ids |-> Unseen], known |-> {}, plan |-> <<>>]

Init ==
    /\ row = [j \in Ids |-> NoRow] /\ nextId = 1 /\ generation = 0
    /\ log = [j \in Ids |-> NoLog] /\ kept = [j \in Ids |-> {}]
    /\ handle = [j \in Ids |-> "none"] /\ hooks = [j \in Ids |-> <<>>]
    /\ cleaner = [c \in Cleaners |-> Idle]
    /\ now = 0 /\ stops = 0 /\ opened = {}

----------------------------------------------------------------------------
(* Files: a log exists when some generation has opened it                  *)

Files == {j \in Ids : log[j].from # {}}
Total(fs) == MapThenSumSet(LAMBDA j : log[j].size, fs)

(* An append opens the file by its name, and creates it when it is gone.   *)
Appended(j) ==
    [log EXCEPT ![j] = [size |-> @.size + 1, mtime |-> now, from |-> @.from \cup {generation}]]

Opened == [size |-> 0, mtime |-> now, from |-> {generation}]

(* _keep_old_log renames a log that is not empty; an error is swallowed. *)
KeepsOldLog(j, moved) ==
    kept' = IF moved /\ log[j].size > 0 THEN [kept EXCEPT ![j] = log[j].from] ELSE kept

(* Mutant: the log that is already there is appended to. *)
AppendsTo(j) == log' = [log EXCEPT ![j].from = @ \cup {generation}] /\ UNCHANGED kept

(* _keep_old_log, then the open that truncates what is left. *)
OpensLog(j) ==
    /\ log' = [log EXCEPT ![j] = Opened]
    /\ \E moved \in BOOLEAN : KeepsOldLog(j, moved)

----------------------------------------------------------------------------
(* Jobs                                                                    *)

Adds ==
    /\ nextId <= MaxId
    /\ row' = [row EXCEPT ![nextId].status = "queued"] /\ nextId' = nextId + 1
    /\ UNCHANGED <<generation, files, daemon, cleaner, now, stops, opened>>

(* The process exists and the row says so; the pump is a task yet to run. *)
Starts(j) ==
    /\ row[j].status = "queued"
    /\ row' = [row EXCEPT ![j].status = "running", ![j].started = TRUE]
    /\ handle' = [handle EXCEPT ![j] = "unopened"]
    /\ UNCHANGED <<nextId, generation, files, hooks, cleaner, now, stops, opened>>

(* The pump's first step. *)
LogOpens(j) ==
    /\ handle[j] = "unopened"
    /\ OpensLog(j)
    /\ handle' = [handle EXCEPT ![j] = "linked"] /\ opened' = opened \cup {j}
    /\ UNCHANGED <<database, hooks, cleaner, now, stops>>

(* The log cannot be opened: the output is drained and dropped. *)
LogFails(j) ==
    /\ handle[j] = "unopened"
    /\ \E moved \in BOOLEAN :
         /\ KeepsOldLog(j, moved)
         /\ log' = IF moved /\ log[j].size > 0 THEN [log EXCEPT ![j] = NoLog] ELSE log
    /\ handle' = [handle EXCEPT ![j] = "lost"]
    /\ UNCHANGED <<database, hooks, cleaner, now, stops, opened>>

(* The pump writes what the job prints, up to the cap; what it writes to a  *)
(* file that was unlinked is lost.                                          *)
Prints(j) ==
    /\ handle[j] = "linked" /\ log[j].size < LogCap
    /\ log' = Appended(j)
    /\ UNCHANGED <<database, kept, daemon, cleaner, now, stops, opened>>

(* ORDER BY finished_at DESC, id DESC *)
Newer(i, j, rows) == rows[i].at > rows[j].at \/ (rows[i].at = rows[j].at /\ i > j)

(* _prune_backlog: the rows after a finish; the files stay. *)
Pruned(rows) ==
    LET ended == {j \in Ids : rows[j].status = "ended"}
        old == {j \in ended : Cardinality({i \in ended : Newer(i, j, rows)}) >= Keep}
    IN [j \in Ids |-> IF j \in old THEN NoRow ELSE rows[j]]

Over(j) == [row[j] EXCEPT !.status = "ended", !.at = now]

(* _hooks_for: none for a job that was cut short, or that was cancelled     *)
(* before it started.                                                       *)
Hook(kind) == IF kind \in Hooks THEN <<kind>> ELSE <<>>

HooksFor(outcome, started) ==
    IF outcome = "interrupted" \/ (outcome = "cancelled" /\ ~started) THEN <<>>
    ELSE Hook("post-job") \o Hook("on-finish") \o IF outcome = "failed" THEN Hook("on-error") ELSE <<>>

(* mark_finished and _after_finish: a failure that is retried, as a new     *)
(* job, has no hooks yet.                                                   *)
Ends(j, outcome) ==
    /\ row' = Pruned([row EXCEPT ![j] = Over(j)])
    /\ \E final \in {TRUE, outcome # "failed"} :
         hooks' = [hooks EXCEPT ![j] = IF final THEN HooksFor(outcome, row[j].started) ELSE <<>>]
    /\ handle' = [handle EXCEPT ![j] = "none"]
    /\ UNCHANGED <<nextId, generation, files, cleaner, now, stops, opened>>

(* The process ended by itself or was killed by `qur cancel`, and the pump  *)
(* has read all of its output.                                              *)
ProcessEnds(j) ==
    /\ row[j].status = "running" /\ handle[j] # "unopened"
    /\ \E outcome \in {"done", "failed", "cancelled"} : Ends(j, outcome)

(* The process cannot be created, or the job is cancelled while it waits. *)
NeverStarts(j) ==
    /\ row[j].status = "queued"
    /\ \E outcome \in {"failed", "cancelled"} : Ends(j, outcome)

(* _run_hook: the first line, and at the end the output and the outcome.   *)
RunsHook(j) ==
    /\ hooks[j] # <<>>
    /\ log' = Appended(j)
    /\ hooks' = [hooks EXCEPT ![j] = Tail(@)]
    /\ UNCHANGED <<database, kept, handle, cleaner, now, stops, opened>>

(* clear_backlog *)
ClearsHistory ==
    /\ \E j \in Ids : row[j].status = "ended"
    /\ row' = [j \in Ids |-> IF row[j].status = "ended" THEN NoRow ELSE row[j]]
    /\ UNCHANGED <<nextId, generation, files, daemon, cleaner, now, stops, opened>>

(* The daemon ends and another starts: hooks are killed, the jobs that were *)
(* running are interrupted, the timer is started anew.                      *)
Restarts ==
    /\ stops < MaxStops /\ stops' = stops + 1
    /\ row' = Pruned([j \in Ids |-> IF row[j].status = "running"
                                    THEN Over(j) ELSE row[j]])
    /\ handle' = [j \in Ids |-> "none"] /\ hooks' = [j \in Ids |-> <<>>]
    /\ cleaner' = [cleaner EXCEPT ![Timer] = Idle]
    /\ UNCHANGED <<nextId, generation, files, now, opened>>

(* The database is deleted while no daemon runs and nobody cleans. *)
DeletesDatabase ==
    /\ stops < MaxStops /\ stops' = stops + 1
    /\ \A c \in Cleaners : cleaner[c].at = "idle"
    /\ row' = [j \in Ids |-> NoRow] /\ nextId' = 1 /\ generation' = generation + 1
    /\ handle' = [j \in Ids |-> "none"] /\ hooks' = [j \in Ids |-> <<>>] /\ opened' = {}
    /\ UNCHANGED <<files, cleaner, now>>

Tick ==
    /\ now < MaxTime /\ now' = now + 1
    /\ UNCHANGED <<database, files, daemon, cleaner, stops, opened>>

----------------------------------------------------------------------------
(* Cleaning (plan, delete)                                                 *)

Age(seen, j) == IF seen[j].status = "none" THEN log[j].mtime ELSE seen[j].at

(* Mutant: any log may go. *)
AnyLog(seen) == {j \in Files : j \in DOMAIN seen}

(* An orphan, or the log of a job that ended. *)
Deletable(seen) == {j \in Files : seen[j].status \in {"none", "ended"}}

Older(seen, i, j) == Age(seen, i) < Age(seen, j) \/ (Age(seen, i) = Age(seen, j) /\ i < j)

(* Mutant: the newest come first. *)
NewestFirst(seen, S) ==
    CHOOSE order \in [1..Cardinality(S) -> S] :
        \A m, n \in DOMAIN order : m < n => Older(seen, order[n], order[m])

(* The files in the order in which the size limit takes them. *)
OldestFirst(seen, S) ==
    CHOOSE order \in [1..Cardinality(S) -> S] :
        \A m, n \in DOMAIN order : m < n => Older(seen, order[m], order[n])

Aged(seen, j) == Age(seen, j) + MaxAge < now

(* The walk for the size limit, from the oldest: the files chosen, and what *)
(* they leave.                                                              *)
Plan(seen) ==
    LET D == Deletable(seen)
        aged == {j \in D : Aged(seen, j)}
        Step(acc, j) == IF acc.total <= MaxBytes \/ j \in acc.chosen THEN acc
                        ELSE [chosen |-> acc.chosen \cup {j}, total |-> acc.total - log[j].size]
        walked == FoldLeft(Step, [chosen |-> aged, total |-> Total(Files \ aged)], OldestFirst(seen, D))
        chosen == D \cap walked.chosen
    IN OldestFirst(seen, chosen)

(* SELECT id, status, finished_at: of an unfinished job, that it is one. *)
Rows == [j \in Ids |-> [status |-> IF row[j].status \in Unfinished THEN "unfinished" ELSE row[j].status,
                        at |-> row[j].at]]

ReadsRows(c) ==
    /\ cleaner[c].at = "idle"
    /\ cleaner' = [cleaner EXCEPT ![c] = [Idle EXCEPT !.at = "lists", !.seen = Rows,
                      !.known = {j \in Ids : row[j].status # "none"}]]
    /\ UNCHANGED <<database, files, daemon, now, stops, opened>>

(* A cleaner with nothing to delete is done. *)
ListsFiles(c) ==
    /\ cleaner[c].at = "lists"
    /\ LET plan == Plan(cleaner[c].seen) IN
       cleaner' = [cleaner EXCEPT ![c] =
           IF plan = <<>> THEN Idle ELSE [Idle EXCEPT !.at = "deletes", !.known = cleaner[c].known, !.plan = plan]]
    /\ UNCHANGED <<database, files, daemon, now, stops, opened>>

(* Mutant: the first error ends the deletion. *)
GivesUp(c) ==
    LET plan == cleaner[c].plan IN
    cleaner' = IF Len(plan) = 1 \/ Head(plan) \in Stuck THEN [cleaner EXCEPT ![c] = Idle]
               ELSE [cleaner EXCEPT ![c].plan = Tail(@)]

(* The rest is tried whether or not this file could be deleted. *)
GoesOn(c) ==
    cleaner' = IF Len(cleaner[c].plan) = 1 THEN [cleaner EXCEPT ![c] = Idle]
               ELSE [cleaner EXCEPT ![c].plan = Tail(@)]

(* A file that is gone is no error; a job that still writes goes on writing *)
(* to a file without a name.                                                *)
Unlinks(c) ==
    /\ cleaner[c].at = "deletes"
    /\ LET j == Head(cleaner[c].plan) IN
       IF j \in Stuck THEN UNCHANGED <<log, handle>>
       ELSE /\ log' = [log EXCEPT ![j] = NoLog]
            /\ handle' = [handle EXCEPT ![j] = IF @ = "linked" THEN "lost" ELSE @]
    /\ GoesOn(c)
    /\ UNCHANGED <<database, kept, hooks, now, stops, opened>>

Next ==
    \/ Adds \/ ClearsHistory \/ Restarts \/ DeletesDatabase \/ Tick
    \/ \E j \in Ids : \/ Starts(j) \/ LogOpens(j) \/ LogFails(j) \/ Prints(j)
                    \/ ProcessEnds(j) \/ NeverStarts(j) \/ RunsHook(j)
    \/ \E c \in Cleaners : ReadsRows(c) \/ ListsFiles(c) \/ Unlinks(c)

Spec == Init /\ [][Next]_vars

(* The timer comes back for ever; a command that was started ends. *)
Fairness ==
    /\ WF_vars(ReadsRows(Timer))
    /\ \A c \in Cleaners : WF_vars(ListsFiles(c)) /\ WF_vars(Unlinks(c))

FairSpec == Spec /\ Fairness

----------------------------------------------------------------------------
(* Properties                                                              *)

File == [size : Nat, mtime : 0..MaxTime, from : SUBSET (0..MaxStops)]

(* The variables have their types; a running job has a pump, a log that is  *)
(* open exists, and a cleaner deletes as long as its plan names files.      *)
TypeOK ==
    /\ row \in [Ids -> [status : Status, started : BOOLEAN, at : 0..MaxTime]]
    /\ nextId \in 1..(MaxId + 1) /\ generation \in 0..MaxStops
    /\ log \in [Ids -> File] /\ kept \in [Ids -> SUBSET (0..MaxStops)]
    /\ handle \in [Ids -> {"none", "unopened", "linked", "lost"}]
    /\ \A j \in Ids : /\ handle[j] # "none" <=> row[j].status = "running"
                      /\ handle[j] = "linked" => j \in Files
                      /\ j >= nextId => row[j] = NoRow
    /\ hooks \in [Ids -> Seq(Hooks)]
    /\ cleaner \in [Cleaners -> [at : {"idle", "lists", "deletes"},
          seen : [Ids -> [status : {"none", "unfinished", "ended"}, at : 0..MaxTime]],
          known : SUBSET Ids, plan : Seq(Ids)]]
    /\ \A c \in Cleaners : cleaner[c].at = "deletes" <=> cleaner[c].plan # <<>>
    /\ now \in 0..MaxTime /\ stops \in 0..MaxStops /\ opened \subseteq Ids

(* A queued, running or frozen job never loses its log to a cleaner, with   *)
(* the one exception the code has: a job that was added after the cleaner   *)
(* had read the rows looks like an orphan to it (logclean.py:50-64).        *)
UnfinishedLogKept ==
    [][\A c \in Cleaners : Unlinks(c) =>
         \A j \in Ids : log'[j] # log[j] /\ row[j].status \in Unfinished =>
             j \notin cleaner[c].known]_vars

(* Once its pump could open it, the log of a job holds output of that job   *)
(* only, though an older database may have left a log of the same name      *)
(* (L5), and hooks create a deleted log again. A job whose pump never got   *)
(* that far may have an older job's log.                                    *)
OwnOutputOnly ==
    \A j \in opened : log[j].from \subseteq {generation}

(* Violated: a log that is already there is moved instead of truncated, and *)
(* whatever stops the move surfaces at the open (daemon.py:1417-1427). A    *)
(* rename can fail where the open that truncates does not.                  *)
OldLogSpared ==
    [][\A j \in Ids : LogOpens(j) /\ log[j].size > 0 => kept'[j] = log[j].from]_vars

(* What a plan says: it takes the oldest first, everything past the age     *)
(* limit, and beyond that no more than it takes to fit the size limit,      *)
(* unfinished jobs' logs counted but not taken.                             *)
RightPlan(seen, plan) ==
    LET D == Deletable(seen)  P == {plan[i] : i \in DOMAIN plan} IN
    /\ P \subseteq D /\ Len(plan) = Cardinality(P)
    /\ \A i \in DOMAIN plan, j \in D : Age(seen, j) < Age(seen, plan[i]) =>
         \E k \in 1..i : plan[k] = j
    /\ \A j \in D \ P : ~Aged(seen, j)
    /\ P = D \/ Total(Files \ P) <= MaxBytes
    /\ P # {} => LET last == plan[Len(plan)] IN
         Aged(seen, last) \/ Total(Files \ (P \ {last})) > MaxBytes

PlansAreRight ==
    [][\A c \in Cleaners : ListsFiles(c) => RightPlan(cleaner[c].seen, cleaner'[c].plan)]_vars

(* The limits are kept: again and again, whatever command cleans beside the *)
(* timer and although some files cannot be deleted, every log that can be   *)
(* deleted and is past the age limit is gone, and what is left fits the     *)
(* size limit or belongs to unfinished jobs.                                *)
LimitsKept ==
    []<>(LET free == Deletable(Rows) \ Stuck IN
         /\ \A j \in free : ~Aged(Rows, j)
         /\ free = {} \/ Total(Files \ (Deletable(Rows) \cap Stuck)) <= MaxBytes)

=============================================================================
