--------------------------- MODULE RemoteWatcher ---------------------------
(***************************************************************************)
(* The host watcher (remote_watch.py) of one worker, the worker's event    *)
(* feed it reads (db.py, daemon.py) and the automatic pulls it starts.     *)
(*                                                                         *)
(* `poll` is the coroutine poll_once: `poll.at` is what it waits for.  A   *)
(* step ends at an await.  The daemon may die there with the message       *)
(* delivered and its record not yet written (Stop with `arrives`); between *)
(* two commits of one step its death only repeats what is written twice    *)
(* with the same value.  The pull task runs beside it.                     *)
(*                                                                         *)
(* A message is sent or is not; what it says is left out.  An event is     *)
(* known by the epoch of the worker's database and its sequence number: a  *)
(* batch is a set of events, handled in the order of their numbers.        *)
(***************************************************************************)
EXTENDS Naturals, Sequences, FiniteSets, FiniteSetsExt, SequencesExt

CONSTANTS
    Runs,           \* remote_runs rows of this host, all with --pull
    Kinds,          \* what an event says: see Kind
    MaxSeq,         \* bound: events of one worker database
    MaxEpoch,       \* bound: databases the worker has had
    MaxStops,       \* bound: deaths of the host's daemon and times the host was disabled
    Page, MaxPages, \* PAGE, MAX_PAGES
    Burst,          \* QUEUER_REMOTE_BURST
    SendAttempts, PullAttempts,
    Faults          \* circumstances let in: see Fault

(* "burst": the worker's database is reset when a burst was read or summarised, *)
(* or while it is read a second time.                                           *)
(* "unsent": a send fails while the watcher catches up.                        *)
(* "stop": the daemon dies, the host is disabled or the worker answers the     *)
(* second read with another protocol while the watcher catches up.             *)
(* "late": a job ends before the run's row has its number.                     *)
(* "torn": between two pages of one read the worker's database is reset, or    *)
(* an event is added to a history that is being read.                          *)
(* "long": the worker keeps more events than one read takes.                   *)
Fault == {"burst", "unsent", "stop", "late", "torn", "long"}

(* A job's end, a channel paused, or ("told") whatever the worker has already  *)
(* announced itself.  `run`: the run whose row has the number of the event's   *)
(* job, which in the database the run was made in is the run's own.            *)
Kind == {"done", "failed", "cancelled", "paused", "told"}

ASSUME WatcherOK ==
    /\ {MaxSeq, MaxStops, Burst} \subseteq Nat
    /\ {MaxEpoch, Page, MaxPages, SendAttempts, PullAttempts} \subseteq Nat \ {0}
    /\ Kinds \subseteq Kind
    /\ Faults \subseteq Fault /\ IsFiniteSet(Runs)

None == "none"

VARIABLES
    (* the worker's database *)
    epoch, log, pruned,
    (* the host's database: the remote_hosts row, remote_jobs, remote_runs *)
    host, jobs, run,
    (* the host daemon's memory *)
    poll, fails, summarised, pull,
    (* tarballs in the pull folder *)
    files,
    (* observers: what became of each event of this epoch, which of them a     *)
    (* failed second read passed over; the bound on stops                      *)
    fate, unread, stops

worker == <<epoch, log, pruned>>
memory == <<poll, fails, summarised, pull>>
observers == <<fate, unread, stops>>
vars == <<worker, host, jobs, run, memory, files, observers>>

Seqs == 1..MaxSeq
Event == [kind : Kinds, run : Runs \cup {None}]
Header == [epoch : 1..MaxEpoch, high : 0..MaxSeq]

IsFinal(ev) == ev.kind \in {"done", "failed", "cancelled"}

(* The end of a job with the number of a run.  Only a stranger's, a job with   *)
(* the number in another database, is told by the worker.                      *)
Ends(ev) == ev.run # None /\ (IsFinal(ev) \/ ev.kind = "told")
NoHeader == [epoch |-> 1, high |-> 0]
AtRest == [at |-> "idle", catchUp |-> FALSE, after |-> 0, pages |-> 0, head |-> NoHeader,
           fallback |-> 0, batch |-> {}, burst |-> FALSE]
NoPull == [todo |-> << >>, arrived |-> FALSE]

Init ==
    /\ epoch = 1 /\ log = << >> /\ pruned = 0
    /\ host = [epoch |-> 0, cursor |-> 0, incompatible |-> FALSE, alerted |-> FALSE]
    /\ jobs = {}
    /\ run = [r \in Runs |-> [home |-> 0, tries |-> 0, pulled |-> FALSE]]
    /\ poll = AtRest
    /\ fails = [s \in Seqs |-> 0] /\ summarised = 0
    /\ pull = NoPull
    /\ files = [r \in Runs |-> 0]
    /\ fate = [s \in Seqs |-> "open"] /\ unread = {} /\ stops = 0

----------------------------------------------------------------------------
(* The worker                                                              *)

(* A job is final once: only the last attempt is reported. *)
Reported(r) == \E s \in DOMAIN log : log[s].run = r /\ Ends(log[s])

(* Some pages of a read have arrived, and more are asked for. *)
Midway == poll.at = "read" /\ poll.pages > 0

(* _notify_finished, _pause_if_asked: an events row.  A job somebody's host *)
(* sent is never announced by the worker itself.                            *)
AddEvent(ev) ==
    /\ Len(log) < MaxSeq
    /\ Midway /\ poll.catchUp => "torn" \in Faults
    /\ Len(log) >= pruned + Page * MaxPages => "long" \in Faults
    /\ ev.run # None =>
         /\ run[ev.run].home = 0 => "late" \in Faults
         /\ ev.kind = "told" => run[ev.run].home \notin {0, epoch}
         /\ Ends(ev) = ~Reported(ev.run)
    /\ log' = Append(log, ev)
    /\ UNCHANGED <<epoch, pruned, host, jobs, run, memory, files, observers>>

(* prune_events, by number or by age: the oldest go, perhaps all. *)
PruneEvents(n) ==
    /\ n \in (pruned + 1)..Len(log)
    /\ pruned' = n
    /\ UNCHANGED <<epoch, log, host, jobs, run, memory, files, observers>>

WasReset == poll.head.epoch # host.epoch \/ poll.head.high < host.cursor

(* The row is about to get, or has, the epoch of a database to be read again. *)
Rereading == poll.fallback > 0 \/ (poll.at = "answered" /\ ~poll.catchUp /\ WasReset)

(* The worker's database is deleted: a new epoch, ids and seqs start again. *)
ResetDatabase ==
    /\ epoch < MaxEpoch
    /\ "burst" \in Faults \/ (summarised = 0 /\ Cardinality(poll.batch) <= Burst /\ ~Rereading)
    /\ Midway => "torn" \in Faults
    /\ epoch' = epoch + 1 /\ log' = << >> /\ pruned' = 0
    /\ fate' = [s \in Seqs |-> "open"] /\ unread' = {}
    /\ UNCHANGED <<host, jobs, run, memory, files, stops>>

(* get_events: the epoch and the end of the feed, and a page after a cursor. *)
(* The end of an empty table is 0.                                           *)
Feed == [epoch |-> epoch, high |-> IF pruned < Len(log) THEN Len(log) ELSE 0]

From(after) == IF after > pruned THEN after ELSE pruned
EventsAfter(after) ==
    {[seq |-> s, epoch |-> epoch, ev |-> log[s]] :
        s \in {t \in DOMAIN log : From(after) < t /\ t <= From(after) + Page}}

----------------------------------------------------------------------------
(* One poll                                                                *)

Goto(at) == poll' = [poll EXCEPT !.at = at]

(* The coroutine returns: with the worker's answer, or without one. *)
Return(answered) == poll' = [AtRest EXCEPT !.at = IF answered THEN "polled" ELSE "idle"]

Read(after, catchUp, fallback) ==
    poll' = [AtRest EXCEPT !.at = "read", !.after = after, !.catchUp = catchUp, !.fallback = fallback]

(* Without an epoch in the row this is the first contact: from the beginning. *)
FirstRead == Read(IF host.epoch = 0 THEN 0 ELSE host.cursor, host.epoch = 0, 0)

StartPoll ==
    /\ poll.at = "idle"
    /\ IF host.incompatible THEN Goto("probe") ELSE FirstRead
    /\ UNCHANGED <<worker, host, jobs, run, fails, summarised, pull, files, observers>>

(* Mutant: a worker once marked is never polled again. *)
ProbeForEver(same) ==
    /\ poll.at = "probe" /\ same \in BOOLEAN
    /\ Return(FALSE)
    /\ UNCHANGED <<worker, host, jobs, run, fails, summarised, pull, files, observers>>

(* `remote info` of a worker marked incompatible; a mismatch is not reported again. *)
ProbeAnswers(same) ==
    /\ poll.at = "probe"
    /\ host' = [host EXCEPT !.incompatible = same]
    /\ IF same THEN Return(FALSE) ELSE FirstRead
    /\ UNCHANGED <<worker, jobs, run, fails, summarised, pull, files, observers>>

(* _failure: whether the host has been unreachable for long is left open. *)
Unreachable(long) ==
    /\ poll.at \in {"probe", "read"} /\ poll.fallback = 0
    /\ IF long /\ ~host.alerted THEN poll' = [AtRest EXCEPT !.at = "alert"] ELSE Return(FALSE)
    /\ UNCHANGED <<worker, host, jobs, run, fails, summarised, pull, files, observers>>

AlertReturns(ok) ==
    /\ poll.at = "alert"
    /\ Return(FALSE)
    /\ host' = [host EXCEPT !.alerted = ok]
    /\ UNCHANGED <<worker, jobs, run, fails, summarised, pull, files, observers>>

(* ProtocolMismatch in the first read: marked, then reported once. *)
Mismatch ==
    /\ poll.at = "read" /\ poll.fallback = 0
    /\ host' = [host EXCEPT !.incompatible = TRUE]
    /\ Return(FALSE)
    /\ UNCHANGED <<worker, jobs, run, fails, summarised, pull, files, observers>>

(* One page of _read.  The header is the first page's. *)
PageArrives ==
    /\ poll.at = "read"
    /\ LET page == EventsAfter(poll.after)
           got == [poll EXCEPT !.head = IF poll.pages = 0 THEN Feed ELSE @,
                               !.batch = @ \cup page, !.pages = @ + 1]
           last == From(poll.after) + Page
       IN  poll' = IF last \notin DOMAIN log \/ got.pages = MaxPages
                   THEN [got EXCEPT !.at = "answered", !.after = 0, !.pages = 0]
                   ELSE [got EXCEPT !.after = last]
    /\ UNCHANGED <<worker, host, jobs, run, fails, summarised, pull, files, observers>>

(* What becomes of events of the present database. *)
Mark(seqs, what) == [s \in Seqs |-> IF s \in seqs THEN what ELSE fate[s]]

----------------------------------------------------------------------------
(* Announcing                                                              *)

Ours(e) == e.epoch = epoch
SeqsOf(S) == {e.seq : e \in {f \in S : Ours(f)}}

Announceable(b) == {e \in b : e.ev.kind # "told"}
Finals(b) == {e \in b : IsFinal(e.ev)}

First(b) == CHOOSE e \in b : \A f \in b : e.seq <= f.seq
LastSeq(b) == Max({e.seq : e \in b})

(* _process goes on with these events, or returns; then a catch-up closes   *)
(* and any other poll is over.                                              *)
GoOn(p, batch) ==
    IF batch # {} THEN [p EXCEPT !.at = "event", !.batch = batch]
    ELSE IF p.catchUp THEN [p EXCEPT !.at = "close", !.batch = batch, !.burst = FALSE]
    ELSE [AtRest EXCEPT !.at = "polled"]

(* Mutant: a page that was read is a page that was handled. *)
SkipAll(batch) == poll' = GoOn([poll EXCEPT !.catchUp = TRUE], {})

(* _process begins: more than Burst announceable events make a burst, which *)
(* is summarised unless the last summary ended at the same event.           *)
Process(batch) ==
    LET a == Announceable(batch)
        burst == Cardinality(a) > Burst
        p == [poll EXCEPT !.burst = burst, !.fallback = 0, !.head = IF poll.catchUp THEN @ ELSE NoHeader]
    IN  poll' = IF burst /\ Finals(batch) # {} /\ summarised # LastSeq(a)
                THEN [p EXCEPT !.at = "summary", !.batch = batch]
                ELSE GoOn(p, batch)

(* _catch_up: of the history only final events of runs not yet pulled.  A   *)
(* database the row does not name yet is met again, from its beginning.     *)
(* Jobs are matched by their numbers alone.                                 *)
Mine(e) == Ends(e.ev) /\ run[e.ev.run].home # 0 /\ ~run[e.ev.run].pulled

CatchUp ==
    LET wanted == {e \in poll.batch : Mine(e)}
    IN  /\ Process(wanted)
        /\ fate' = IF poll.head.epoch = epoch /\ (poll.fallback = 0 \/ host.epoch = epoch)
                   THEN Mark(1..poll.head.high \ SeqsOf(wanted), "history") ELSE fate

(* _ok: the host has answered; `reachable again` if an alert went out. *)
Ok(row) == host' = [row EXCEPT !.alerted = FALSE]

(* First contact: the row is made with the cursor at the beginning. *)
FirstContact ==
    /\ poll.at = "answered" /\ poll.catchUp /\ poll.fallback = 0
    /\ Ok([host EXCEPT !.epoch = poll.head.epoch, !.cursor = 0])
    /\ CatchUp
    /\ UNCHANGED <<worker, jobs, run, fails, summarised, pull, files, unread, stops>>

(* A gap below the feed gets one note, whether or not it can be sent. *)
News ==
    /\ poll.at = "answered" /\ ~poll.catchUp /\ ~WasReset
    /\ Ok(host)
    /\ Process(poll.batch)
    /\ UNCHANGED <<worker, jobs, run, fails, summarised, pull, files, observers>>

(* The worker's database is another one: read it again from its beginning. *)
(* `fallback` is one more than the first answer's last_seq.                *)
StartOver ==
    /\ poll.at = "answered" /\ ~poll.catchUp /\ WasReset
    /\ Ok([host EXCEPT !.epoch = poll.head.epoch, !.cursor = 0])
    /\ Read(0, TRUE, poll.head.high + 1)
    /\ UNCHANGED <<worker, jobs, run, fails, summarised, pull, files, observers>>

(* The second read fails: the cursor jumps to the end the first one named. *)
StartOverFails ==
    /\ poll.at = "read" /\ poll.fallback > 0
    /\ host' = [host EXCEPT !.cursor = poll.fallback - 1]
    /\ LET passed == IF host.epoch = epoch THEN 1..(poll.fallback - 1) ELSE {}
       IN  fate' = Mark(passed, "history") /\ unread' = unread \cup passed
    /\ Return(TRUE)
    /\ UNCHANGED <<worker, jobs, run, fails, summarised, pull, files, stops>>

StartOverAnswered ==
    /\ poll.at = "answered" /\ poll.fallback > 0
    /\ CatchUp
    /\ UNCHANGED <<worker, host, jobs, run, fails, summarised, pull, files, unread, stops>>

MayFail == poll.catchUp => "unsent" \in Faults

SummaryReturns(ok) ==
    /\ poll.at = "summary"
    /\ ~ok => MayFail
    /\ poll' = GoOn(poll, IF ok THEN poll.batch ELSE {})
    /\ IF ok THEN /\ summarised' = LastSeq(Announceable(poll.batch))
                  /\ fate' = Mark(SeqsOf(Finals(poll.batch)), "told")
       ELSE UNCHANGED <<summarised, fate>>
    /\ UNCHANGED <<worker, host, jobs, run, fails, pull, files, unread, stops>>

(* The event is dealt with: the cursor follows it. *)
SaveCursor ==
    /\ fails' = [fails EXCEPT ![First(poll.batch).seq] = 0]
    /\ host' = [host EXCEPT !.cursor = First(poll.batch).seq]
    /\ poll' = GoOn(poll, poll.batch \ {First(poll.batch)})

(* The next event: a final one is stored, and sent unless the worker or the *)
(* summary has told it.                                                     *)
NextEvent ==
    /\ poll.at = "event"
    /\ LET ev == First(poll.batch).ev
       IN  /\ jobs' = IF Ends(ev) /\ ev.kind # "cancelled" THEN jobs \cup {ev.run} ELSE jobs
           /\ IF ev.kind = "told" \/ (poll.burst /\ IsFinal(ev) /\ ev.kind # "failed")
              THEN SaveCursor
              ELSE Goto("send") /\ UNCHANGED <<fails, host>>
    /\ UNCHANGED <<worker, run, summarised, pull, files, observers>>

(* Mutant: an event whose message failed is dropped at once. *)
DropAtOnce(seq) == seq \in Seqs

(* The message has failed in SendAttempts polls: it is given up. *)
GiveUp(seq) == fails[seq] + 1 >= SendAttempts

SendReturns(ok) ==
    /\ poll.at = "send"
    /\ ~ok => MayFail
    /\ LET e == First(poll.batch)
       IN  IF ok THEN fate' = Mark(SeqsOf({e}), "told") /\ SaveCursor
           ELSE /\ fate' = IF fails[e.seq] + 1 < SendAttempts THEN fate
                           ELSE Mark({s \in SeqsOf({e}) : fate[s] = "open"}, "dropped")
                /\ IF GiveUp(e.seq) THEN SaveCursor
                   ELSE /\ fails' = [fails EXCEPT ![e.seq] = @ + 1]
                        /\ poll' = GoOn(poll, {})
                        /\ UNCHANGED host
    /\ UNCHANGED <<worker, jobs, run, summarised, pull, files, unread, stops>>

(* Mutant: the catch-up leaves the cursor where it is. *)
CursorStays ==
    /\ poll.at = "close"
    /\ Return(TRUE)
    /\ UNCHANGED <<worker, host, jobs, run, fails, summarised, pull, files, observers>>

CatchUpCloses ==
    /\ poll.at = "close"
    /\ host' = [host EXCEPT !.cursor = poll.head.high]
    /\ Return(TRUE)
    /\ UNCHANGED <<worker, jobs, run, fails, summarised, pull, files, observers>>

----------------------------------------------------------------------------
(* Automatic pulls                                                         *)

(* remote_run records the id of the job the worker made for a run. *)
RunQueued(r) ==
    /\ run[r].home = 0
    /\ run' = [run EXCEPT ![r].home = epoch]
    /\ UNCHANGED <<worker, host, jobs, memory, files, observers>>

(* Mutant: the last attempt is not made. *)
PendingOneShort == {r \in jobs : run[r].home # 0 /\ ~run[r].pulled /\ run[r].tries + 1 < PullAttempts}

(* _pending_pulls *)
Pending == {r \in jobs : run[r].home # 0 /\ ~run[r].pulled /\ run[r].tries < PullAttempts}

(* _start_pulls after an answered poll: one task per host at a time. *)
StartPulls ==
    /\ poll.at = "polled"
    /\ poll' = AtRest
    /\ pull' = IF pull.todo = << >> THEN [pull EXCEPT !.todo = SetToSeq(Pending)] ELSE pull
    /\ UNCHANGED <<worker, host, jobs, run, fails, summarised, files, observers>>

Pulling(r) == pull.todo # << >> /\ r = Head(pull.todo)

(* Whatever goes wrong counts as an attempt, and leaves no file behind. *)
PullFails(r) ==
    /\ Pulling(r) /\ ~pull.arrived
    /\ run' = [run EXCEPT ![r].tries = @ + 1]
    /\ pull' = [pull EXCEPT !.todo = Tail(@)]
    /\ UNCHANGED <<worker, host, jobs, poll, fails, summarised, files, observers>>

(* pull_tarball: the checked download is renamed to the folder's name or, if *)
(* that is taken, to the folder's name with the job's id.                    *)
PullArrives(r) ==
    /\ Pulling(r) /\ ~pull.arrived
    /\ files[r] < 2
    /\ files' = [files EXCEPT ![r] = @ + 1]
    /\ pull' = [pull EXCEPT !.arrived = TRUE]
    /\ UNCHANGED <<worker, host, jobs, run, poll, fails, summarised, observers>>

PullRecorded(r) ==
    /\ Pulling(r) /\ pull.arrived
    /\ run' = [run EXCEPT ![r].pulled = TRUE]
    /\ pull' = [todo |-> Tail(pull.todo), arrived |-> FALSE]
    /\ UNCHANGED <<worker, host, jobs, poll, fails, summarised, files, observers>>

----------------------------------------------------------------------------
(* Stops                                                                   *)

(* Between the row's new epoch and the end of the catch-up. *)
CatchingUp == poll.catchUp /\ host.epoch # 0

(* The message or the tarball that was on its way arrives, or it does not. *)
OnItsWay(arrives) ==
    /\ fate' = Mark(CASE arrives /\ poll.at = "send" -> SeqsOf({First(poll.batch)})
                       [] arrives /\ poll.at = "summary" -> SeqsOf(Finals(poll.batch))
                       [] OTHER -> {}, "told")
    /\ files' = IF arrives /\ pull.todo # << >> /\ ~pull.arrived /\ files[Head(pull.todo)] < 2
                THEN [files EXCEPT ![Head(pull.todo)] = @ + 1] ELSE files

(* The daemon dies and is started again, or (`keeps`) only the host is     *)
(* disabled and enabled again: both tasks are cancelled, the rest stays.   *)
Stop(keeps, arrives) ==
    /\ stops < MaxStops /\ stops' = stops + 1
    /\ CatchingUp => "stop" \in Faults
    /\ OnItsWay(arrives)
    /\ poll' = AtRest /\ pull' = NoPull
    /\ IF keeps THEN UNCHANGED <<fails, summarised>>
       ELSE fails' = [s \in Seqs |-> 0] /\ summarised' = 0
    /\ UNCHANGED <<worker, host, jobs, run, unread>>

----------------------------------------------------------------------------
Worker ==
    \/ \E ev \in Event : AddEvent(ev)
    \/ \E n \in Seqs : PruneEvents(n)
    \/ ResetDatabase

Poll ==
    \/ StartPoll \/ PageArrives \/ Mismatch \/ FirstContact \/ News
    \/ StartOver \/ StartOverFails \/ StartOverAnswered \/ NextEvent \/ CatchUpCloses
    \/ \E b \in BOOLEAN : ProbeAnswers(b) \/ Unreachable(b) \/ AlertReturns(b)
    \/ \E ok \in BOOLEAN : SummaryReturns(ok) \/ SendReturns(ok)

Pull == StartPulls \/ \E r \in Runs : RunQueued(r) \/ PullFails(r) \/ PullArrives(r) \/ PullRecorded(r)

Next == Worker \/ Poll \/ Pull \/ \E keeps, arrives \in BOOLEAN : Stop(keeps, arrives)

Spec == Init /\ [][Next]_vars

(* The loop polls for ever and its sends and downloads come to an end.  Of  *)
(* the network: a worker that is polled again and again answers sometimes,  *)
(* and a summary that is tried again and again is sent.  Single messages    *)
(* need no such help: they are given up.                                    *)
Fairness ==
    /\ WF_vars(Poll) /\ WF_vars(StartPulls)
    /\ \A r \in Runs : WF_vars(PullFails(r) \/ PullArrives(r)) /\ WF_vars(PullRecorded(r))
    /\ \A n \in 0..(MaxPages - 1) : SF_vars(poll.pages = n /\ PageArrives)
    /\ SF_vars(ProbeAnswers(FALSE)) /\ SF_vars(SummaryReturns(TRUE))

FairSpec == Spec /\ Fairness
----------------------------------------------------------------------------
(* Properties                                                              *)

TypeOK ==
    /\ epoch \in 1..MaxEpoch /\ log \in Seq(Event) /\ Len(log) <= MaxSeq /\ pruned \in 0..Len(log)
    /\ host \in [epoch : 0..MaxEpoch, cursor : 0..MaxSeq, incompatible : BOOLEAN, alerted : BOOLEAN]
    /\ jobs \subseteq Runs
    /\ run \in [Runs -> [home : 0..MaxEpoch, tries : 0..PullAttempts, pulled : BOOLEAN]]
    /\ fails \in [Seqs -> 0..(SendAttempts - 1)] /\ summarised \in 0..MaxSeq
    /\ poll.head \in Header /\ poll.after \in 0..MaxSeq /\ poll.pages \in 0..MaxPages
    /\ pull.todo \in Seq(Runs) /\ pull.arrived \in BOOLEAN
    /\ files \in [Runs -> 0..2]
    /\ fate \in [Seqs -> {"open", "told", "dropped", "history"}]
    /\ unread \subseteq Seqs /\ stops \in 0..MaxStops

(* remote_watch.py:8: the cursor moves after each successful send.  Below it *)
(* every event of this database was announced by the worker, by the host, in *)
(* a summary, was given up after SendAttempts polls, was history when the    *)
(* host met the database, or was pruned before the host came.                *)
Handled(s) ==
    log[s].kind = "told" \/ fate[s] # "open" \/ s <= pruned

NothingSilentlyLost ==
    host.epoch = epoch => \A s \in 1..Min({host.cursor, Len(log)}) : Handled(s)

(* README.md:917: old history is never replayed.                             *)
HistoryNotReplayed ==
    [][epoch' = epoch => \A s \in Seqs : fate[s] = "history" => fate'[s] = "history"]_vars

(* The end, done or failed, of a job this host sent is stored. *)
ResultStored(s) == log[s].run # None /\ log[s].kind \in {"done", "failed"} => log[s].run \in jobs

JumpedOver == (pruned + 1)..Min({host.cursor, Len(log)})

(* remote_watch.py:184-188: whatever the cursor jumps over, history or not, *)
(* the result of a job this host sent is stored, so that it is pulled.      *)
(* Excepted is what the code excepts: where the second read of a database   *)
(* that was replaced fails, the cursor jumps over events nobody has read.   *)
OwnFinalsKept ==
    host.epoch = epoch => \A s \in JumpedOver \ unread : ResultStored(s)

(* Violated: the same without the exception, as the docstring has it.       *)
NoResultPassed ==
    host.epoch = epoch => \A s \in JumpedOver : ResultStored(s)

(* Every event is announced or given up in the end, unless it was pruned:   *)
(* again and again the host has dealt with all there is.                    *)
EventsAnnounced == []<>(\A s \in DOMAIN log : Handled(s))

(* A stored result of a run with --pull is pulled, or its attempts are used. *)
PullsHappen ==
    []<>(\A r \in jobs : run[r].home # 0 => run[r].pulled \/ run[r].tries >= PullAttempts)

=============================================================================
