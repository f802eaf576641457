------------------------------ MODULE Telegram ------------------------------
(***************************************************************************)
(* The daemon's Telegram listener: one poller per bot (_poll_bot), what a  *)
(* button press does here or on a worker, and the guards against presses   *)
(* that are old, repeated or about another database.                       *)
(*                                                                         *)
(* Presses that only show something, and those refused for who pressed     *)
(* them, change nothing: they are `look`.  A step ends at an await.  A     *)
(* poller that is off is one of a daemon that is down or steps aside.      *)
(***************************************************************************)
EXTENDS Naturals, Sequences, FiniteSets, FiniteSetsExt, SequencesExt

CONSTANTS
    Bots,
    LocalJobs, WorkerJobs, \* finished jobs with buttons, here and on one worker
    Whats,                 \* what the buttons do: see What
    Stale, AliveSave,      \* TG_STALE_SECS, TG_ALIVE_SAVE_SECS
    Guard,                 \* REQUEUE_GUARD_SECS
    Limit, SeenMax,        \* updates of one answer; callback ids remembered
    MaxTime, MaxPresses, MaxEpoch, MaxStops, \* bounds: clock, presses of a bot, databases, stops
    Faults                 \* circumstances let in: see Fault

What == {"requeue", "cancel", "look"}

(* "interrupt": a poller stops while it drops the backlog of an outage.        *)
(* "unanswered": a worker runs a command and the answer does not come.         *)
(* "race": two bots requeue the same job of a worker at once.                  *)
Fault == {"interrupt", "unanswered", "race"}

ASSUME TelegramOK ==
    /\ {Stale, Guard, MaxTime, MaxPresses, MaxEpoch, MaxStops} \subseteq Nat
    /\ {AliveSave, Limit} \subseteq Nat \ {0} /\ SeenMax \in Nat \ {0, 1}
    /\ AliveSave < Stale /\ AliveSave <= MaxTime
    /\ LocalJobs \cap WorkerJobs = {} /\ Whats \subseteq What /\ Faults \subseteq Fault

Jobs == LocalJobs \cup WorkerJobs

VARIABLES
    clock, pairing,
    presses,   \* Telegram: the updates of each bot; an update's id is its place
    confirmed, \* Telegram: ids up to this one are not handed out again
    poller,    \* the coroutine of each bot
    offset,    \* [db, mem]: the last id taken; 0 is none
    alive,     \* [db, mem, saved]: the time of the last good poll; 0 is none
    seen,      \* _seen_callbacks
    guard,     \* [db, mem]: when a worker's job was requeued; 0 is never
    epoch, known, \* the worker's database, and the one the watcher saw last
    acts,      \* what was done, here and on the worker, in order
    (* observers: the true time of the last good poll; how long it was ago when *)
    (* the poller began; presses that waited through an outage; dropped ones    *)
    polled, gap, late, dropped, stops

memory == <<offset, alive, seen, guard>>
worker == <<epoch, known>>
telegram == <<presses, confirmed>>
observers == <<polled, gap, late, dropped>>
vars == <<clock, pairing, telegram, poller, memory, worker, acts, observers, stops>>

Off == [at |-> "off", draining |-> FALSE, batch |-> << >>, since |-> 0]
Zero == [b \in Bots |-> 0]
Never == [j \in Jobs |-> 0]

(* The time 0 of "never" is so long ago that the first good poll is saved. *)
Init ==
    /\ clock = AliveSave /\ pairing = FALSE
    /\ presses = [b \in Bots |-> << >>] /\ confirmed = Zero
    /\ poller = [b \in Bots |-> Off]
    /\ offset = [db |-> Zero, mem |-> Zero]
    /\ alive = [db |-> Zero, mem |-> Zero, saved |-> Zero]
    /\ seen = << >>
    /\ guard = [db |-> Never, mem |-> Never]
    /\ epoch = 1 /\ known = 1
    /\ acts = << >>
    /\ polled = Zero /\ gap = Zero /\ late = {} /\ dropped = {} /\ stops = 0

(* Updates not taken yet: the ones Telegram would hand out. *)
From(b) == IF offset.mem[b] > confirmed[b] THEN offset.mem[b] ELSE confirmed[b]
Waiting(b, from) == (from + 1)..Len(presses[b])

----------------------------------------------------------------------------
(* Telegram, the clock, the worker                                         *)

Tick ==
    /\ clock < MaxTime /\ clock' = clock + 1
    /\ UNCHANGED <<pairing, telegram, poller, memory, worker, acts, observers, stops>>

(* A button of a message made while the worker's database was `tag`. *)
Press(b, what, job, tag) ==
    /\ Len(presses[b]) < MaxPresses
    /\ job \in LocalJobs => tag = known
    /\ tag <= known
    /\ presses' = [presses EXCEPT ![b] = Append(@, [what |-> what, job |-> job, tag |-> tag])]
    /\ UNCHANGED <<clock, pairing, confirmed, poller, memory, worker, acts, observers, stops>>

(* `qur connect` pairs, and takes whatever waits at the bot meanwhile. *)
PairingStarts ==
    /\ ~pairing /\ stops < MaxStops /\ pairing' = TRUE /\ stops' = stops + 1
    /\ UNCHANGED <<clock, telegram, poller, memory, worker, acts, observers>>

PairingTakes(b) ==
    /\ pairing /\ confirmed[b] < Len(presses[b])
    /\ confirmed' = [confirmed EXCEPT ![b] = Len(presses[b])]
    /\ UNCHANGED <<clock, pairing, presses, poller, memory, worker, acts, observers, stops>>

PairingEnds ==
    /\ pairing /\ pairing' = FALSE
    /\ UNCHANGED <<clock, telegram, poller, memory, worker, acts, observers, stops>>

AtWorker(b) == poller[b].at = "worker"

ResetDatabase ==
    /\ epoch < MaxEpoch /\ epoch' = epoch + 1
    /\ UNCHANGED <<clock, pairing, telegram, poller, memory, known, acts, observers, stops>>

Watched ==
    /\ known # epoch /\ known' = epoch
    /\ UNCHANGED <<clock, pairing, telegram, poller, memory, epoch, acts, observers, stops>>

----------------------------------------------------------------------------
(* The poller                                                              *)

(* _tg_last_alive: memory first, then the database. *)
LastAlive(b) == IF alive.mem[b] # 0 THEN alive.mem[b] ELSE alive.db[b]

(* Mutant: how long the daemon was off does not matter. *)
NeverLong(b) == LastAlive(b) > clock

(* Offline for longer than Stale: what waits is dropped, not run. *)
LongOff(b) == LastAlive(b) # 0 /\ clock - LastAlive(b) > Stale

(* The supervisor starts a poller for a bot that listens, again after it has *)
(* ended: the offset it knows, or the saved one.                             *)
Starts(b) ==
    /\ poller[b].at = "off" /\ ~pairing
    /\ poller' = [poller EXCEPT ![b] = [Off EXCEPT !.at = "loop", !.draining = LongOff(b)]]
    /\ offset' = [offset EXCEPT !.mem[b] = IF @ = 0 THEN offset.db[b] ELSE @]
    /\ gap' = [gap EXCEPT ![b] = IF polled[b] = 0 THEN 0 ELSE clock - polled[b]]
    /\ late' = IF gap'[b] > Stale
               THEN late \cup {<<b, i>> : i \in Waiting(b, offset'.mem[b])} ELSE late
    /\ UNCHANGED <<clock, pairing, telegram, alive, seen, guard, worker, acts, polled, dropped, stops>>

MayStop(b) == poller[b].draining => "interrupt" \in Faults

(* It looks whether its bot still listens. *)
StepsAside(b) ==
    /\ poller[b].at = "loop" /\ pairing /\ MayStop(b)
    /\ poller' = [poller EXCEPT ![b] = Off]
    /\ UNCHANGED <<clock, pairing, telegram, memory, worker, acts, observers, stops>>

(* getUpdates reaches Telegram, which forgets what lies before the offset.  *)
(* A request that fails is made again.                                      *)
Asks(b) ==
    /\ poller[b].at = "loop" /\ ~pairing
    /\ poller' = [poller EXCEPT ![b].at = "asked"]
    /\ confirmed' = [confirmed EXCEPT ![b] = From(b)]
    /\ UNCHANGED <<clock, pairing, presses, memory, worker, acts, observers, stops>>

Fails(b) ==
    /\ poller[b].at = "asked"
    /\ poller' = [poller EXCEPT ![b].at = "loop"]
    /\ UNCHANGED <<clock, pairing, telegram, memory, worker, acts, observers, stops>>

(* Mutant: saved once, and never again. *)
SavedOnce(b) ==
    alive' = IF alive.saved[b] = 0
             THEN [db |-> [alive.db EXCEPT ![b] = clock], mem |-> [alive.mem EXCEPT ![b] = clock],
                   saved |-> [alive.saved EXCEPT ![b] = clock]]
             ELSE [alive EXCEPT !.mem[b] = clock]

(* _tg_mark_alive: in memory always, in the database now and then. *)
MarkAlive(b) ==
    alive' = IF clock - alive.saved[b] >= AliveSave
             THEN [db |-> [alive.db EXCEPT ![b] = clock], mem |-> [alive.mem EXCEPT ![b] = clock],
                   saved |-> [alive.saved EXCEPT ![b] = clock]]
             ELSE [alive EXCEPT !.mem[b] = clock]

(* Mutant: an empty answer ends nothing. *)
DrainsForEver(b, batch) == poller[b].draining /\ batch \in Seq(Nat)

(* Whether the poller goes on dropping: until an answer is empty. *)
StillDraining(b, batch) == poller[b].draining /\ batch # << >>

Answer(b) ==
    LET from == From(b)
        size == Min({Limit, Len(presses[b]) - from})
    IN  IF size > 0 THEN [i \in 1..size |-> from + i] ELSE << >>

Answered(b) ==
    /\ poller[b].at = "asked"
    /\ MarkAlive(b)
    /\ polled' = [polled EXCEPT ![b] = clock]
    /\ poller' = [poller EXCEPT ![b].batch = Answer(b), ![b].draining = StillDraining(b, Answer(b)),
                                ![b].at = IF Answer(b) = << >> THEN "loop" ELSE "update"]
    /\ UNCHANGED <<clock, pairing, telegram, offset, seen, guard, worker, acts, gap, late, dropped, stops>>

----------------------------------------------------------------------------
(* One update                                                              *)

(* Mutant: the offset lives in memory only. *)
OffsetInMemory(b, i) == offset' = [offset EXCEPT !.mem[b] = i]

(* The offset is saved before the update is handled. *)
SaveOffset(b, i) == offset' = [db |-> [offset.db EXCEPT ![b] = i], mem |-> [offset.mem EXCEPT ![b] = i]]

Rest(b) == LET rest == Tail(poller[b].batch)
           IN  [poller[b] EXCEPT !.at = IF rest = << >> THEN "loop" ELSE "update", !.batch = rest]
Next1(b) == poller' = [poller EXCEPT ![b] = Rest(b)]

(* _seen_callback: half of it is forgotten when it is full. *)
Remember(key) ==
    seen' = LET longer == Append(seen, key)
            IN  IF Len(longer) > SeenMax THEN SubSeq(longer, (SeenMax \div 2) + 1, Len(longer)) ELSE longer

Done(what, b, i) == [press |-> <<b, i>>, what |-> what, job |-> presses[b][i].job, at |-> clock]

(* recent_requeue: the newest requeue of a job of this machine. *)
RequeuedHere(job) ==
    \E n \in DOMAIN acts : acts[n].what = "requeue" /\ acts[n].job = job /\ clock - acts[n].at <= Guard

(* Mutant: the guard of a worker's job lives in memory only. *)
GuardInMemory(job) == guard.mem[job] # 0 /\ clock - guard.mem[job] <= Guard

(* The memory's record first, then the database's. *)
RequeuedThere(job) ==
    \/ guard.mem[job] # 0 /\ clock - guard.mem[job] <= Guard
    \/ guard.db[job] # 0 /\ clock - guard.db[job] <= Guard

(* epoch_ok: the tag is the database the watcher saw last. *)
EpochOK(p) == p.tag = known

Expired == [job \in Jobs |-> IF guard.mem[job] # 0 /\ clock - guard.mem[job] > Guard THEN 0 ELSE guard.mem[job]]

(* What a fresh press does: something here, a command on the worker, or     *)
(* nothing.                                                                 *)
Handle(b, i) ==
    LET p == presses[b][i]
        here == p.job \in LocalJobs
        does == /\ <<b, i>> \notin ToSet(seen) /\ p.what # "look"
                /\ ~here => EpochOK(p)
                /\ p.what = "requeue" => IF here THEN ~RequeuedHere(p.job) ELSE ~RequeuedThere(p.job)
    IN  /\ IF <<b, i>> \in ToSet(seen) THEN UNCHANGED seen ELSE Remember(<<b, i>>)
        /\ acts' = IF does /\ here THEN Append(acts, Done(p.what, b, i)) ELSE acts
        /\ IF does /\ ~here
           THEN /\ poller' = [poller EXCEPT ![b].at = "worker", ![b].since = clock]
                /\ guard' = IF p.what = "requeue" THEN [guard EXCEPT !.mem = Expired] ELSE guard
                /\ (\E c \in Bots \ {b} : AtWorker(c)) => "race" \in Faults
           ELSE Next1(b) /\ UNCHANGED guard

Update(b) ==
    LET i == Head(poller[b].batch)
    IN  /\ poller[b].at = "update"
        /\ SaveOffset(b, i)
        /\ IF poller[b].draining
           THEN dropped' = dropped \cup {<<b, i>>} /\ Next1(b) /\ UNCHANGED <<seen, acts, guard>>
           ELSE Handle(b, i) /\ UNCHANGED dropped
        /\ UNCHANGED <<clock, pairing, telegram, alive, worker, polled, gap, late, stops>>

(* The worker runs `qur requeue` or `qur cancel`. *)
RunsThere(b) == Append(acts, Done(presses[b][Head(poller[b].batch)].what, b, Head(poller[b].batch)))

(* _requeue: the memory keeps when it was asked, the database when it was answered. *)
SetGuard(b) ==
    LET p == presses[b][Head(poller[b].batch)]
    IN  guard' = IF p.what = "requeue"
                 THEN [db |-> [guard.db EXCEPT ![p.job] = clock],
                       mem |-> [guard.mem EXCEPT ![p.job] = poller[b].since]]
                 ELSE guard

WorkerAnswers(b) ==
    /\ AtWorker(b)
    /\ acts' = RunsThere(b)
    /\ SetGuard(b)
    /\ Next1(b)
    /\ UNCHANGED <<clock, pairing, telegram, offset, alive, seen, worker, observers, stops>>

(* ssh fails, or times out after the worker has run the command. *)
WorkerFails(b, ran) ==
    /\ AtWorker(b)
    /\ ran => "unanswered" \in Faults
    /\ acts' = IF ran THEN RunsThere(b) ELSE acts
    /\ Next1(b)
    /\ UNCHANGED <<clock, pairing, telegram, memory, worker, observers, stops>>

(* The supervisor cancels the poller of a bot that no longer listens: an    *)
(* update it was handling is not handled again.                             *)
Cancelled(b, ran) ==
    /\ pairing /\ poller[b].at # "off" /\ MayStop(b)
    /\ ran => AtWorker(b) /\ "unanswered" \in Faults
    /\ acts' = IF ran THEN RunsThere(b) ELSE acts
    /\ poller' = [poller EXCEPT ![b] = Off]
    /\ UNCHANGED <<clock, pairing, telegram, memory, worker, observers, stops>>

(* The daemon dies, perhaps (`half`) with the step of one poller half done: *)
(* the offset saved and the press not handled, the command run and nothing  *)
(* recorded.                                                                *)
DaemonDies(b, half) ==
    /\ stops < MaxStops /\ stops' = stops + 1
    /\ \A c \in Bots : MayStop(c)
    /\ half => poller[b].at = "update" \/ (AtWorker(b) /\ "unanswered" \in Faults)
    /\ acts' = IF half /\ AtWorker(b) THEN RunsThere(b) ELSE acts
    /\ poller' = [c \in Bots |-> Off]
    /\ offset' = [mem |-> Zero, db |-> IF half /\ ~AtWorker(b)
                                      THEN [offset.db EXCEPT ![b] = Head(poller[b].batch)] ELSE offset.db]
    /\ alive' = [alive EXCEPT !.mem = Zero, !.saved = Zero]
    /\ guard' = [guard EXCEPT !.mem = Never]
    /\ seen' = << >>
    /\ UNCHANGED <<clock, pairing, telegram, worker, observers>>

----------------------------------------------------------------------------
Poll(b) == StepsAside(b) \/ Asks(b) \/ Answered(b) \/ Update(b) \/ WorkerAnswers(b) \/ WorkerFails(b, FALSE)

Next ==
    \/ Tick \/ PairingStarts \/ PairingEnds \/ ResetDatabase \/ Watched
    \/ \E b \in Bots :
         \/ \E what \in Whats, job \in Jobs, tag \in 1..MaxEpoch : Press(b, what, job, tag)
         \/ PairingTakes(b) \/ Starts(b) \/ Fails(b) \/ Poll(b)
         \/ \E ran \in BOOLEAN : WorkerFails(b, ran) \/ Cancelled(b, ran) \/ DaemonDies(b, ran)

Spec == Init /\ [][Next]_vars

(* Pairing ends by a timeout, the supervisor comes round, the watcher goes  *)
(* on polling, and Telegram answers a poller that asks again and again.     *)
Fairness ==
    /\ WF_vars(PairingEnds) /\ WF_vars(Watched)
    /\ \A b \in Bots : WF_vars(Starts(b)) /\ WF_vars(Poll(b)) /\ SF_vars(Answered(b))

FairSpec == Spec /\ Fairness

----------------------------------------------------------------------------
(* Properties                                                              *)

TypeOK ==
    /\ clock \in AliveSave..MaxTime /\ pairing \in BOOLEAN
    /\ \A b \in Bots :
         /\ {confirmed[b], offset.db[b], offset.mem[b]} \subseteq 0..Len(presses[b])
         /\ {alive.db[b], alive.mem[b], alive.saved[b], polled[b]} \subseteq 0..clock
         /\ poller[b].at \in {"off", "loop", "asked", "update", "worker"}
         /\ poller[b].at \in {"update", "worker"} <=> poller[b].batch # << >>
         /\ ToSet(poller[b].batch) \subseteq 1..Len(presses[b])
    /\ Len(seen) <= SeenMax
    /\ known <= epoch

(* README.md:725: after the daemon was off for longer than Stale, presses   *)
(* that piled up meanwhile are never run, however the backlog is read.      *)
StaleNeverRun == \A n \in DOMAIN acts : acts[n].press \notin late

(* ... and a press is dropped only after the bot was left alone for long.   *)
DroppedOnlyAfterOutage ==
    [][\A b \in Bots : (\E i \in 1..MaxPresses : <<b, i>> \in dropped' \ dropped)
                        => gap[b] > Stale - AliveSave]_vars

(* README.md:1103: a press that was already handled is not replayed, over   *)
(* restarts, pairing pauses and forgotten callback ids.                     *)
AtMostOnce == \A m, n \in DOMAIN acts : acts[m].press = acts[n].press => m = n

(* README.md:723: a second Requeue of a job within Guard does nothing,      *)
(* wherever the job is and whatever restarted between the two taps.         *)
NoDoubleRequeue ==
    \A m, n \in DOMAIN acts :
        m < n /\ acts[m].what = "requeue" /\ acts[n].what = "requeue" /\ acts[m].job = acts[n].job
        => acts[n].at - acts[m].at > Guard

(* Again and again every press has been taken from Telegram and new ones    *)
(* would be run: no backlog keeps the poller dropping for ever.             *)
Responsive ==
    []<>(\A b \in Bots : Waiting(b, From(b)) = {} /\ poller[b].at # "off" /\ ~poller[b].draining)

=============================================================================
