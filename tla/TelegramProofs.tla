-------------------------- MODULE TelegramProofs --------------------------
(***************************************************************************)
(* What the Telegram listener promises: a press is acted on at most once,  *)
(* a stale one never, none is dropped without an outage, and requeues of a *)
(* job keep their distance.                                                *)
(***************************************************************************)
EXTENDS Telegram, Integers, TLAPS

States == {"off", "loop", "asked", "update", "worker"}
Batches == Seq(Nat)
Button == [what : What, job : Jobs, tag : Nat]
Buttons == Seq(Button)
Act == [press : Bots \X Nat, what : What, job : Jobs, at : Nat]
Acts == Seq(Act)
Poller == [at : States, draining : BOOLEAN, batch : Batches, since : Nat]

(* A poller has ids in hand exactly while it handles them, of presses there are. *)
WellFormed(p, n) ==
    /\ p.at \in {"update", "worker"} <=> p.batch # << >>
    /\ \A k \in DOMAIN p.batch : p.batch[k] \in 1..n

Times == [Bots -> Nat]

(* The types of the records and sequences TypeOK looks into. *)
Types ==
    /\ clock \in Nat /\ clock >= AliveSave
    /\ presses \in [Bots -> Buttons] /\ confirmed \in Times
    /\ poller \in [Bots -> Poller]
    /\ \A b \in Bots : WellFormed(poller[b], Len(presses[b]))
    /\ offset \in [db : Times, mem : Times]
    /\ alive \in [db : Times, mem : Times, saved : Times]
    /\ guard \in [db : [Jobs -> Nat], mem : [Jobs -> Nat]]
    /\ known \in Nat /\ epoch \in Nat
    /\ acts \in Acts
    /\ polled \in Times /\ gap \in Times /\ \A b \in Bots : polled[b] <= clock
    /\ late \subseteq Bots \X Nat /\ dropped \subseteq Bots \X Nat

Batch(b) == poller[b].batch

LEMMA TailOf ==
    ASSUME NEW s \in Batches, s # << >>
    PROVE  /\ Tail(s) \in Batches /\ Len(s) \in Nat \ {0} /\ DOMAIN s = 1..Len(s) /\ Head(s) = s[1]
           /\ 1 \in DOMAIN s
           /\ DOMAIN Tail(s) = 1..(Len(s) - 1)
           /\ \A k \in 1..(Len(s) - 1) : Tail(s)[k] = s[k + 1] /\ k + 1 \in DOMAIN s
           /\ Tail(s) # << >> => 1 \in 1..(Len(s) - 1)
    BY DEF Batches

LEMMA EmptyBatch == << >> \in Batches /\ DOMAIN << >> = {}
    BY DEF Batches

LEMMA Lengths ==
    ASSUME Types, NEW b \in Bots
    PROVE  /\ Len(presses[b]) \in Nat /\ \A i \in 1..Len(presses[b]) : presses[b][i] \in Button
           /\ DOMAIN presses[b] = 1..Len(presses[b])
<1>1. presses[b] \in Seq(Button)
    BY DEF Types, Buttons
<1> QED BY <1>1

LEMMA MoreButtons ==
    ASSUME NEW s \in Buttons, NEW x \in Button
    PROVE  /\ Append(s, x) \in Buttons /\ Len(Append(s, x)) = Len(s) + 1 /\ Len(s) \in Nat
           /\ \A i \in 1..Len(s) : Append(s, x)[i] = s[i]
    BY DEF Buttons

(* An element of a sequence. *)
LEMMA ElementOf ==
    ASSUME NEW T, NEW q \in Seq(T), NEW k \in 1..Len(q)
    PROVE  q[k] \in T
    OBVIOUS

LEMMA MoreActs ==
    ASSUME NEW s \in Acts, NEW x \in Act
    PROVE  /\ Append(s, x) \in Acts /\ DOMAIN Append(s, x) = DOMAIN s \cup {Len(s) + 1} /\ Len(s) \in Nat
           /\ DOMAIN s = 1..Len(s)
           /\ \A i \in DOMAIN s : Append(s, x)[i] = s[i]
           /\ Append(s, x)[Len(s) + 1] = x
    BY DEF Acts

(* An answer holds the presses that follow the offset, and none only if none wait. *)
LEMMA AnswerIs ==
    ASSUME TelegramOK, Types, NEW b \in Bots
    PROVE  /\ Answer(b) \in Batches /\ From(b) \in Nat
           /\ From(b) >= offset.mem[b] /\ From(b) >= confirmed[b]
           /\ From(b) = offset.mem[b] \/ From(b) = confirmed[b]
           /\ \A k \in DOMAIN Answer(b) : k \in Nat \ {0} /\ Answer(b)[k] = From(b) + k
                                          /\ Answer(b)[k] \in 1..Len(presses[b])
           /\ Answer(b) = << >> => From(b) >= Len(presses[b])
           /\ Answer(b) # << >> => 1 \in DOMAIN Answer(b)
<1>0. Len(presses[b]) \in Nat
    BY Lengths
<1>1. From(b) \in Nat /\ From(b) >= offset.mem[b] /\ From(b) >= confirmed[b]
      /\ (From(b) = offset.mem[b] \/ From(b) = confirmed[b])
    BY SMTT(30) DEF Types, From, Times
<1> DEFINE size == Min({Limit, Len(presses[b]) - From(b)})
<1>2. size \in Int /\ size <= Limit /\ size <= Len(presses[b]) - From(b)
      /\ (size = Limit \/ size = Len(presses[b]) - From(b))
    <2> DEFINE d == Len(presses[b]) - From(b)
    <2>1. Limit \in Int /\ d \in Int
        BY <1>0, <1>1 DEF TelegramOK
    <2> HIDE DEF d
    <2>2. \E x \in {Limit, d} : \A y \in {Limit, d} : x <= y
        BY <2>1
    <2>3. Min({Limit, d}) \in {Limit, d} /\ \A y \in {Limit, d} : Min({Limit, d}) <= y
        BY <2>2 DEF Min
    <2> QED BY <2>1, <2>3 DEF d
<1>3. Answer(b) = IF size > 0 THEN [i \in 1..size |-> From(b) + i] ELSE << >>
    BY DEF Answer
<1> HIDE DEF size
<1>4. CASE size > 0
    <2>1. PICK f \in Nat, n \in Nat : f = From(b) /\ n = size
        BY <1>1, <1>2, <1>4
    <2>2. Answer(b) = [i \in 1..n |-> f + i]
        BY <2>1, <1>3, <1>4
    <2>3. Answer(b) \in Seq(Nat) /\ DOMAIN Answer(b) = 1..n /\ 1 \in 1..n
        BY <2>1, <2>2, <1>4, SMTT(30)
    <2>4. Answer(b) # << >>
        BY <2>3, EmptyBatch
    <2>5. \A k \in 1..n : Answer(b)[k] = f + k
        BY <2>2
    <2>6. \A k \in 1..n : k \in Nat \ {0} /\ f + k \in 1..Len(presses[b])
        <3>1. PICK l \in Nat : l = Len(presses[b])
            BY <1>0
        <3>2. f + n <= l
            BY <1>2, <2>1, <3>1
        <3>3. \A k \in 1..n : k \in Nat \ {0} /\ f + k \in 1..l
            BY <2>1, <3>2
        <3> QED BY <3>1, <3>3
    <2> QED BY <1>1, <2>1, <2>3, <2>4, <2>5, <2>6 DEF Batches
<1>5. CASE ~(size > 0)
    <2>1. Answer(b) = << >> /\ size = Len(presses[b]) - From(b)
        BY <1>2, <1>3, <1>5 DEF TelegramOK
    <2> QED BY <1>0, <1>1, <1>2, <1>5, <2>1, EmptyBatch
<1> QED BY <1>4, <1>5

----------------------------------------------------------------------------
(* What the steps of a poller do to it                                     *)

MovesTo(b, at, draining, batch) ==
    /\ poller' \in [Bots -> Poller]
    /\ poller'[b].at = at /\ poller'[b].draining = draining /\ poller'[b].batch = batch
    /\ \A c \in Bots : c # b => poller'[c] = poller[c]

LEMMA NewState ==
    ASSUME NEW p \in Poller, NEW at \in States
    PROVE  LET q == [p EXCEPT !.at = at]
           IN  q \in Poller /\ q.at = at /\ q.draining = p.draining /\ q.batch = p.batch /\ q.since = p.since
    BY DEF Poller

LEMMA Replaced ==
    ASSUME Types, NEW b \in Bots, NEW q \in Poller, poller' = [poller EXCEPT ![b] = q]
    PROVE  MovesTo(b, q.at, q.draining, q.batch) /\ poller'[b] = q
<1>1. poller \in [Bots -> Poller]
    BY DEF Types
<1> QED BY <1>1 DEF MovesTo

LEMMA AsideMoves ==
    ASSUME Types, NEW b \in Bots, NEW at \in States, poller' = [poller EXCEPT ![b].at = at]
    PROVE  MovesTo(b, at, poller[b].draining, Batch(b)) /\ poller'[b].since = poller[b].since
<1>1. PICK p \in Poller : p = poller[b]
    BY DEF Types
<1>2. poller' = [poller EXCEPT ![b] = [p EXCEPT !.at = at]]
    BY <1>1
<1> QED BY <1>1, <1>2, NewState DEF Types, MovesTo, Batch

LEMMA OffMoves ==
    ASSUME Types, NEW b \in Bots, poller' = [poller EXCEPT ![b] = Off]
    PROVE  MovesTo(b, "off", FALSE, << >>)
<1>1. Off \in Poller /\ Off.at = "off" /\ Off.draining = FALSE /\ Off.batch = << >>
    BY EmptyBatch DEF Off, Poller, States
<1> QED BY <1>1 DEF Types, MovesTo

LEMMA StartsMoves ==
    ASSUME Types, NEW b \in Bots, Starts(b)
    PROVE  MovesTo(b, "loop", LongOff(b), << >>)
<1> DEFINE p == [Off EXCEPT !.at = "loop", !.draining = LongOff(b)]
<1>1. LongOff(b) \in BOOLEAN
    BY DEF LongOff
<1>2. p \in Poller /\ p.at = "loop" /\ p.draining = LongOff(b) /\ p.batch = << >>
    BY <1>1, EmptyBatch DEF Off, Poller, States
<1>3. poller' = [poller EXCEPT ![b] = p]
    BY DEF Starts
<1> HIDE DEF p
<1> QED BY <1>2, <1>3 DEF Types, MovesTo

LEMMA AnsweredMoves ==
    ASSUME TelegramOK, Types, NEW b \in Bots, Answered(b)
    PROVE  MovesTo(b, IF Answer(b) = << >> THEN "loop" ELSE "update",
                   poller[b].draining /\ Answer(b) # << >>, Answer(b))
<1>1. PICK p \in Poller : p = poller[b]
    BY DEF Types
<1>2. PICK a \in Batches : a = Answer(b)
    BY AnswerIs
<1>3. PICK at \in States : at = IF a = << >> THEN "loop" ELSE "update"
    BY DEF States
<1>4. PICK dr \in BOOLEAN : dr = StillDraining(b, Answer(b))
    BY DEF StillDraining
<1> DEFINE q == [p EXCEPT !.batch = a, !.draining = dr, !.at = at]
<1>5. q \in Poller /\ q.at = at /\ q.draining = dr /\ q.batch = a
    BY DEF Poller
<1>6. poller' = [poller EXCEPT ![b] = q]
    BY <1>1, <1>2, <1>3, <1>4 DEF Answered
<1> HIDE DEF q
<1>7. MovesTo(b, at, dr, a)
    BY <1>5, <1>6 DEF Types, MovesTo
<1>8. dr = (poller[b].draining /\ Answer(b) # << >>)
    BY <1>4 DEF StillDraining
<1> QED BY <1>2, <1>3, <1>7, <1>8

LEMMA NextMoves ==
    ASSUME Types, NEW b \in Bots, Batch(b) # << >>, Next1(b)
    PROVE  MovesTo(b, IF Tail(Batch(b)) = << >> THEN "loop" ELSE "update", poller[b].draining, Tail(Batch(b)))
<1>1. PICK p \in Poller : p = poller[b]
    BY DEF Types
<1>2. p.batch \in Batches /\ p.batch # << >> /\ p.batch = Batch(b)
    BY <1>1 DEF Poller, Batch
<1>3. PICK a \in Batches : a = Tail(p.batch)
    BY <1>2, TailOf
<1>4. PICK at \in States : at = IF a = << >> THEN "loop" ELSE "update"
    BY DEF States
<1> DEFINE q == [p EXCEPT !.at = at, !.batch = a]
<1>5. q \in Poller /\ q.at = at /\ q.draining = p.draining /\ q.batch = a
    BY DEF Poller
<1>6. poller' = [poller EXCEPT ![b] = q]
    BY <1>1, <1>3, <1>4 DEF Next1, Rest
<1> HIDE DEF q
<1>7. MovesTo(b, at, p.draining, a)
    BY <1>5, <1>6 DEF Types, MovesTo
<1> QED BY <1>1, <1>2, <1>3, <1>4, <1>7

LEMMA WorkerMoves ==
    ASSUME Types, NEW b \in Bots, poller' = [poller EXCEPT ![b].at = "worker", ![b].since = clock]
    PROVE  MovesTo(b, "worker", poller[b].draining, Batch(b)) /\ poller'[b].since = clock
<1>1. PICK p \in Poller : p = poller[b]
    BY DEF Types
<1> DEFINE q == [p EXCEPT !.at = "worker", !.since = clock]
<1>2. clock \in Nat
    BY DEF Types
<1>3. q \in Poller /\ q.at = "worker" /\ q.draining = p.draining /\ q.batch = p.batch /\ q.since = clock
    BY <1>2 DEF Poller, States
<1>4. poller' = [poller EXCEPT ![b] = q]
    BY <1>1
<1> HIDE DEF q
<1>5. MovesTo(b, q.at, q.draining, q.batch) /\ poller'[b] = q
    BY <1>3, <1>4, Replaced
<1> QED BY <1>1, <1>3, <1>5 DEF Batch

LEMMA DiesMoves ==
    ASSUME poller' = [c \in Bots |-> Off]
    PROVE  /\ poller' \in [Bots -> Poller]
           /\ \A c \in Bots : poller'[c].at = "off" /\ poller'[c].draining = FALSE /\ poller'[c].batch = << >>
    BY EmptyBatch DEF Off, Poller, States

----------------------------------------------------------------------------
(* The steps, as far as the properties can tell                            *)

Same == UNCHANGED <<clock, presses, known, epoch>>

Records(b) ==
    \E a \in Act : /\ a.press = <<b, Batch(b)[1]>> /\ a.at = clock
                  /\ a.what = presses[b][Batch(b)[1]].what /\ a.job = presses[b][Batch(b)[1]].job
                  /\ acts' = Append(acts, a)

Advances(b) ==
    MovesTo(b, IF Tail(Batch(b)) = << >> THEN "loop" ELSE "update", poller[b].draining, Tail(Batch(b)))

Takes(b) ==
    /\ offset' \in [db : Times, mem : Times]
    /\ offset'.db = [offset.db EXCEPT ![b] = Batch(b)[1]]
    /\ offset'.mem = [offset.mem EXCEPT ![b] = Batch(b)[1]]

(* Nobody's poller moves. *)
OutsideStep ==
    /\ UNCHANGED <<poller, offset, alive, guard, acts, polled, gap, late, dropped>>
    /\ clock' \in Nat /\ clock' >= clock /\ known' \in Nat /\ epoch' \in Nat
    /\ presses' \in [Bots -> Buttons] /\ confirmed' \in Times
    /\ \A c \in Bots : /\ Len(presses'[c]) >= Len(presses[c])
                       /\ \A i \in 1..Len(presses[c]) : presses'[c][i] = presses[c][i]
                       /\ confirmed'[c] >= confirmed[c] /\ confirmed'[c] \in {confirmed[c], Len(presses[c])}

StartsStep(b) ==
    /\ Same /\ UNCHANGED <<confirmed, alive, guard, acts, polled, dropped>>
    /\ poller[b].at = "off" /\ MovesTo(b, "loop", LongOff(b), << >>)
    /\ offset' \in [db : Times, mem : Times]
    /\ offset'.db = offset.db
    /\ offset'.mem = [offset.mem EXCEPT ![b] = IF offset.mem[b] = 0 THEN offset.db[b] ELSE offset.mem[b]]
    /\ gap' = [gap EXCEPT ![b] = IF polled[b] = 0 THEN 0 ELSE clock - polled[b]]
    /\ late' = IF gap'[b] > Stale THEN late \cup {<<b, i>> : i \in Waiting(b, offset'.mem[b])} ELSE late

AsksStep(b) ==
    /\ Same /\ UNCHANGED <<offset, alive, guard, acts, polled, gap, late, dropped>>
    /\ confirmed' \in Times
    /\ \A c \in Bots : confirmed'[c] >= confirmed[c] /\ confirmed'[c] \in {confirmed[c], From(c)}
    /\ Batch(b) = << >> /\ poller[b].at # "off"
    /\ \E at \in {"loop", "asked"} : MovesTo(b, at, poller[b].draining, << >>)

AnsweredStep(b) ==
    /\ Same /\ UNCHANGED <<confirmed, offset, guard, acts, gap, late, dropped>>
    /\ Batch(b) = << >> /\ poller[b].at # "off"
    /\ MovesTo(b, IF Answer(b) = << >> THEN "loop" ELSE "update",
               poller[b].draining /\ Answer(b) # << >>, Answer(b))
    /\ polled' = [polled EXCEPT ![b] = clock]
    /\ alive' \in [db : Times, mem : Times, saved : Times]
    /\ \A c \in Bots : c # b => /\ alive'.db[c] = alive.db[c] /\ alive'.mem[c] = alive.mem[c]
                               /\ alive'.saved[c] = alive.saved[c]
    /\ alive'.mem[b] = clock
    /\ \/ alive'.db[b] = clock /\ alive'.saved[b] = clock
       \/ /\ clock - alive.saved[b] < AliveSave
          /\ alive'.db[b] = alive.db[b] /\ alive'.saved[b] = alive.saved[b]

DroppedStep(b) ==
    /\ Same /\ UNCHANGED <<confirmed, alive, guard, acts, polled, gap, late>>
    /\ poller[b].at = "update" /\ poller[b].draining
    /\ Takes(b) /\ Advances(b)
    /\ dropped' = dropped \cup {<<b, Batch(b)[1]>>}

HandledStep(b) ==
    /\ Same /\ UNCHANGED <<confirmed, alive, guard, polled, gap, late, dropped>>
    /\ poller[b].at = "update" /\ ~poller[b].draining
    /\ Takes(b) /\ Advances(b)
    /\ \/ acts' = acts
       \/ LET p == presses[b][Batch(b)[1]]
          IN  Records(b) /\ p.job \in LocalJobs /\ (p.what = "requeue" => ~RequeuedHere(p.job))

SentStep(b) ==
    /\ Same /\ UNCHANGED <<confirmed, alive, acts, polled, gap, late, dropped>>
    /\ poller[b].at = "update" /\ ~poller[b].draining
    /\ Takes(b)
    /\ MovesTo(b, "worker", poller[b].draining, Batch(b)) /\ poller'[b].since = clock
    /\ guard' \in [db : [Jobs -> Nat], mem : [Jobs -> Nat]] /\ guard'.db = guard.db
    /\ LET p == presses[b][Batch(b)[1]]
       IN  p.job \in WorkerJobs /\ (p.what = "requeue" => ~RequeuedThere(p.job))
    /\ (\E c \in Bots \ {b} : AtWorker(c)) => "race" \in Faults

ReturnedStep(b) ==
    /\ Same /\ UNCHANGED <<confirmed, offset, alive, polled, gap, late, dropped>>
    /\ AtWorker(b) /\ Advances(b)
    /\ guard' \in [db : [Jobs -> Nat], mem : [Jobs -> Nat]]
    /\ \/ /\ Records(b)
          /\ LET p == presses[b][Batch(b)[1]]
             IN  guard'.db = IF p.what = "requeue" THEN [guard.db EXCEPT ![p.job] = clock] ELSE guard.db
       \/ acts' = acts /\ guard'.db = guard.db
       \/ Records(b) /\ "unanswered" \in Faults

StoppedStep(b) ==
    /\ Same /\ UNCHANGED <<confirmed, offset, alive, guard, polled, gap, late, dropped>>
    /\ poller[b].at # "off" /\ MayStop(b)
    /\ MovesTo(b, "off", FALSE, << >>)
    /\ acts' = acts \/ (AtWorker(b) /\ "unanswered" \in Faults /\ Records(b))

DiedStep(b) ==
    /\ Same /\ UNCHANGED <<confirmed, polled, gap, late, dropped>>
    /\ \A c \in Bots : MayStop(c)
    /\ poller' \in [Bots -> Poller]
    /\ \A c \in Bots : poller'[c].at = "off" /\ poller'[c].draining = FALSE /\ poller'[c].batch = << >>
    /\ offset' \in [db : Times, mem : Times] /\ offset'.mem = Zero
    /\ \/ offset'.db = offset.db
       \/ poller[b].at = "update" /\ offset'.db = [offset.db EXCEPT ![b] = Batch(b)[1]]
    /\ alive' \in [db : Times, mem : Times, saved : Times]
    /\ alive'.db = alive.db /\ alive'.mem = Zero /\ alive'.saved = Zero
    /\ guard' \in [db : [Jobs -> Nat], mem : [Jobs -> Nat]] /\ guard'.db = guard.db
    /\ acts' = acts \/ (AtWorker(b) /\ "unanswered" \in Faults /\ Records(b))

(* What a poller has in hand names a press. *)
LEMMA HandIsPress ==
    ASSUME Types, NEW b \in Bots, Batch(b) # << >>
    PROVE  /\ Batch(b) \in Batches /\ Batch(b)[1] \in 1..Len(presses[b]) /\ Batch(b)[1] \in Nat
           /\ Head(Batch(b)) = Batch(b)[1] /\ presses[b][Batch(b)[1]] \in Button
<1>1. Batch(b) \in Batches
    BY DEF Types, Poller, Batch
<1>2. Head(Batch(b)) = Batch(b)[1] /\ 1 \in DOMAIN Batch(b)
    BY <1>1, TailOf
<1>3. Batch(b)[1] \in 1..Len(presses[b])
    BY <1>2 DEF Types, WellFormed, Batch
<1> QED BY <1>1, <1>2, <1>3, Lengths

LEMMA DoneRecords ==
    ASSUME Types, NEW b \in Bots, Batch(b) # << >>, NEW w, w = presses[b][Batch(b)[1]].what,
           acts' = Append(acts, Done(w, b, Batch(b)[1]))
    PROVE  Records(b)
<1>1. presses[b][Batch(b)[1]] \in Button /\ Batch(b)[1] \in Nat
    BY HandIsPress
<1>2. clock \in Nat
    BY DEF Types
<1>3. Done(w, b, Batch(b)[1]) \in Act
    BY <1>1, <1>2 DEF Done, Act, Button
<1> QED BY <1>3 DEF Records, Done

LEMMA UpdateSteps ==
    ASSUME TelegramOK, Types, NEW b \in Bots, Update(b)
    PROVE  DroppedStep(b) \/ HandledStep(b) \/ SentStep(b)
<1> DEFINE p == presses[b][Batch(b)[1]]
<1>1. poller[b].at = "update" /\ Batch(b) # << >>
    BY DEF Update, Types, WellFormed, Batch
<1>2. Head(poller[b].batch) = Batch(b)[1] /\ Batch(b)[1] \in Nat /\ p \in Button
    BY <1>1, HandIsPress DEF Batch
<1>3. Same /\ UNCHANGED <<confirmed, alive, polled, gap, late>>
    BY DEF Update, Same, telegram, worker
<1>4. Takes(b)
    BY <1>2 DEF Update, SaveOffset, Takes, Types, Times
<1>5. Next1(b) => Advances(b)
    BY <1>1, NextMoves DEF Advances
<1>6. CASE poller[b].draining
    BY <1>1, <1>2, <1>3, <1>4, <1>5, <1>6 DEF Update, DroppedStep
<1>7. CASE ~poller[b].draining
    <2> DEFINE here == p.job \in LocalJobs
               does == /\ <<b, Batch(b)[1]>> \notin ToSet(seen) /\ p.what # "look"
                       /\ ~here => EpochOK(p)
                       /\ p.what = "requeue" => IF here THEN ~RequeuedHere(p.job) ELSE ~RequeuedThere(p.job)
    <2>1. Handle(b, Batch(b)[1]) /\ dropped' = dropped
        BY <1>2, <1>7 DEF Update
    <2>2. /\ acts' = IF does /\ here THEN Append(acts, Done(p.what, b, Batch(b)[1])) ELSE acts
          /\ IF does /\ ~here
             THEN /\ poller' = [poller EXCEPT ![b].at = "worker", ![b].since = clock]
                  /\ guard' = IF p.what = "requeue" THEN [guard EXCEPT !.mem = Expired] ELSE guard
                  /\ (\E c \in Bots \ {b} : AtWorker(c)) => "race" \in Faults
             ELSE Next1(b) /\ UNCHANGED guard
        BY <2>1 DEF Handle
    <2>3. does \in BOOLEAN /\ here \in BOOLEAN
        OBVIOUS
    <2>4. does /\ here => ~(p.what = "requeue" /\ RequeuedHere(p.job))
        OBVIOUS
    <2>5. does /\ ~here => p.job \in WorkerJobs /\ ~(p.what = "requeue" /\ RequeuedThere(p.job))
        BY <1>2 DEF Button, Jobs
    <2> HIDE DEF does
    <2>6. CASE does /\ ~here
        <3>1. MovesTo(b, "worker", poller[b].draining, Batch(b)) /\ poller'[b].since = clock /\ acts' = acts
            BY <2>2, <2>6, WorkerMoves
        <3>2. guard' \in [db : [Jobs -> Nat], mem : [Jobs -> Nat]] /\ guard'.db = guard.db
            <4>1. guard \in [db : [Jobs -> Nat], mem : [Jobs -> Nat]]
                BY DEF Types
            <4>2. Expired \in [Jobs -> Nat]
                BY <4>1 DEF Expired
            <4>3. PICK e \in [Jobs -> Nat] : e = Expired
                BY <4>2
            <4>4. guard' = IF p.what = "requeue" THEN [guard EXCEPT !.mem = e] ELSE guard
                BY <2>2, <2>6, <4>3
            <4> QED BY <4>1, <4>4
        <3> QED BY <1>1, <1>3, <1>4, <1>7, <2>1, <2>2, <2>5, <2>6, <3>1, <3>2 DEF SentStep
    <2>7. CASE does /\ here
        <3>1. Records(b) /\ Next1(b) /\ UNCHANGED guard
            BY <1>1, <2>2, <2>7, DoneRecords
        <3> QED BY <1>1, <1>3, <1>4, <1>5, <1>7, <2>1, <2>4, <2>7, <3>1 DEF HandledStep
    <2>8. CASE ~does
        <3>1. acts' = acts /\ Next1(b) /\ UNCHANGED guard
            BY <2>2, <2>8
        <3> QED BY <1>1, <1>3, <1>4, <1>5, <1>7, <2>1, <3>1 DEF HandledStep
    <2> QED BY <2>3, <2>6, <2>7, <2>8
<1> QED BY <1>6, <1>7

LEMMA WorkerSteps ==
    ASSUME TelegramOK, Types, NEW b \in Bots, NEW ran \in BOOLEAN, WorkerAnswers(b) \/ WorkerFails(b, ran)
    PROVE  ReturnedStep(b)
<1> DEFINE p == presses[b][Batch(b)[1]]
<1>1. AtWorker(b) /\ Batch(b) # << >>
    BY DEF WorkerAnswers, WorkerFails, AtWorker, Types, WellFormed, Batch
<1>2. Head(poller[b].batch) = Batch(b)[1] /\ p \in Button /\ Batch(b) = poller[b].batch
    BY <1>1, HandIsPress DEF Batch
<1>3. Same /\ UNCHANGED <<confirmed, offset, alive, polled, gap, late, dropped>>
    BY DEF WorkerAnswers, WorkerFails, Same, telegram, worker, observers, memory
<1>4. Advances(b)
    BY <1>1, NextMoves DEF WorkerAnswers, WorkerFails, Advances
<1>5. acts' = RunsThere(b) => Records(b)
    BY <1>1, <1>2, DoneRecords DEF RunsThere
<1>6. CASE WorkerAnswers(b)
    <2>1. guard' = IF p.what = "requeue"
                   THEN [db |-> [guard.db EXCEPT ![p.job] = clock],
                         mem |-> [guard.mem EXCEPT ![p.job] = poller[b].since]]
                   ELSE guard
        BY <1>2, <1>6 DEF WorkerAnswers, SetGuard
    <2>2. poller[b].since \in Nat /\ clock \in Nat
        BY DEF Types, Poller
    <2>3. guard' \in [db : [Jobs -> Nat], mem : [Jobs -> Nat]]
        BY <2>1, <2>2 DEF Types
    <2>4. guard'.db = IF p.what = "requeue" THEN [guard.db EXCEPT ![p.job] = clock] ELSE guard.db
        BY <2>1
    <2>5. Records(b)
        BY <1>5, <1>6 DEF WorkerAnswers
    <2> QED BY <1>1, <1>3, <1>4, <2>3, <2>4, <2>5 DEF ReturnedStep
<1>7. CASE WorkerFails(b, ran)
    <2>1. guard' = guard /\ guard \in [db : [Jobs -> Nat], mem : [Jobs -> Nat]]
        BY <1>7 DEF WorkerFails, memory, Types
    <2>2. acts' = acts \/ (Records(b) /\ "unanswered" \in Faults)
        BY <1>5, <1>7 DEF WorkerFails
    <2> QED BY <1>1, <1>3, <1>4, <2>1, <2>2 DEF ReturnedStep
<1> QED BY <1>6, <1>7

LEMMA StopSteps ==
    ASSUME TelegramOK, Types, NEW b \in Bots, NEW ran \in BOOLEAN, StepsAside(b) \/ Cancelled(b, ran)
    PROVE  StoppedStep(b)
<1>1. poller[b].at # "off" /\ MayStop(b) /\ poller' = [poller EXCEPT ![b] = Off]
    BY DEF StepsAside, Cancelled
<1>2. MovesTo(b, "off", FALSE, << >>)
    BY <1>1, OffMoves
<1>3. Same /\ UNCHANGED <<confirmed, offset, alive, guard, polled, gap, late, dropped>>
    BY DEF StepsAside, Cancelled, Same, telegram, worker, observers, memory
<1>4. acts' = acts \/ (AtWorker(b) /\ "unanswered" \in Faults /\ Records(b))
    <2>1. ASSUME AtWorker(b), acts' = RunsThere(b) PROVE Records(b)
        <3>1. Batch(b) # << >>
            BY <2>1 DEF AtWorker, Types, WellFormed, Batch
        <3> QED BY <2>1, <3>1, HandIsPress, DoneRecords DEF RunsThere, Batch
    <2> QED BY <2>1 DEF StepsAside, Cancelled
<1> QED BY <1>1, <1>2, <1>3, <1>4 DEF StoppedStep

LEMMA DeathSteps ==
    ASSUME TelegramOK, Types, NEW b \in Bots, NEW half \in BOOLEAN, DaemonDies(b, half)
    PROVE  DiedStep(b)
<1>1. Same /\ UNCHANGED <<confirmed, polled, gap, late, dropped>> /\ \A c \in Bots : MayStop(c)
    BY DEF DaemonDies, Same, telegram, worker, observers
<1>2. /\ poller' \in [Bots -> Poller]
      /\ \A c \in Bots : poller'[c].at = "off" /\ poller'[c].draining = FALSE /\ poller'[c].batch = << >>
    BY DiesMoves DEF DaemonDies
<1>3. Zero \in Times /\ Never \in [Jobs -> Nat]
    BY DEF Zero, Never, Times
<1>4. half => Batch(b) # << >>
    BY DEF DaemonDies, AtWorker, Types, WellFormed, Batch
<1>5. half => Head(poller[b].batch) = Batch(b)[1] /\ Batch(b)[1] \in Nat
    BY <1>4, HandIsPress DEF Batch
<1>6. /\ offset'.mem = Zero
      /\ offset'.db = IF half /\ ~AtWorker(b) THEN [offset.db EXCEPT ![b] = Batch(b)[1]] ELSE offset.db
      /\ offset' = [mem |-> Zero, db |-> offset'.db]
    BY <1>5 DEF DaemonDies
<1>7. offset'.db \in Times
    <2>1. offset.db \in Times
        BY DEF Types
    <2>2. ASSUME NEW n \in Nat PROVE [offset.db EXCEPT ![b] = n] \in Times
        BY <2>1 DEF Times
    <2> QED BY <1>5, <1>6, <2>1, <2>2
<1>8. offset' \in [db : Times, mem : Times]
    BY <1>3, <1>6, <1>7
<1>9. \/ offset'.db = offset.db
      \/ poller[b].at = "update" /\ offset'.db = [offset.db EXCEPT ![b] = Batch(b)[1]]
    BY <1>6 DEF DaemonDies
<1>10. /\ alive' \in [db : Times, mem : Times, saved : Times]
       /\ alive'.db = alive.db /\ alive'.mem = Zero /\ alive'.saved = Zero
    BY <1>3 DEF DaemonDies, Types
<1>11. guard' \in [db : [Jobs -> Nat], mem : [Jobs -> Nat]] /\ guard'.db = guard.db
    BY <1>3 DEF DaemonDies, Types
<1>12. acts' = acts \/ (AtWorker(b) /\ "unanswered" \in Faults /\ Records(b))
    <2>1. ASSUME half, AtWorker(b), acts' = RunsThere(b) PROVE Records(b)
        BY <1>4, <1>5, <2>1, DoneRecords DEF RunsThere
    <2>2. acts' = IF half /\ AtWorker(b) THEN RunsThere(b) ELSE acts
        BY DEF DaemonDies
    <2>3. half /\ AtWorker(b) => "unanswered" \in Faults
        BY DEF DaemonDies, AtWorker
    <2> QED BY <2>1, <2>2, <2>3
<1> QED BY <1>1, <1>2, <1>6, <1>8, <1>9, <1>10, <1>11, <1>12 DEF DiedStep

LEMMA StartSteps ==
    ASSUME TelegramOK, Types, NEW b \in Bots, Starts(b)
    PROVE  StartsStep(b)
<1>1. Same /\ UNCHANGED <<confirmed, alive, guard, acts, polled, dropped>> /\ poller[b].at = "off"
    BY DEF Starts, Same, telegram, worker
<1>2. MovesTo(b, "loop", LongOff(b), << >>)
    BY StartsMoves
<1>3. /\ offset' \in [db : Times, mem : Times] /\ offset'.db = offset.db
      /\ offset'.mem = [offset.mem EXCEPT ![b] = IF offset.mem[b] = 0 THEN offset.db[b] ELSE offset.mem[b]]
    BY DEF Starts, Types, Times
<1> QED BY <1>1, <1>2, <1>3 DEF Starts, StartsStep

LEMMA AskSteps ==
    ASSUME TelegramOK, Types, NEW b \in Bots, Asks(b) \/ Fails(b)
    PROVE  AsksStep(b)
<1>1. Same /\ UNCHANGED <<offset, alive, guard, acts, polled, gap, late, dropped>>
    BY DEF Asks, Fails, Same, telegram, worker, observers, memory
<1>2. Batch(b) = << >> /\ poller[b].at # "off"
    BY DEF Asks, Fails, Types, WellFormed, Batch
<1>3. /\ confirmed' \in Times
      /\ \A c \in Bots : confirmed'[c] >= confirmed[c] /\ confirmed'[c] \in {confirmed[c], From(c)}
    <2>1. confirmed \in Times /\ From(b) \in Nat /\ From(b) >= confirmed[b]
        BY AnswerIs DEF Types
    <2>2. PICK f \in Nat : f = From(b)
        BY <2>1
    <2>3. confirmed' = [confirmed EXCEPT ![b] = f] \/ confirmed' = confirmed
        BY <2>2 DEF Asks, Fails, telegram
    <2>4. f >= confirmed[b]
        BY <2>1, <2>2
    <2>5. \A c \in Bots : confirmed'[c] = confirmed[c] \/ (c = b /\ confirmed'[c] = f)
        BY <2>1, <2>3 DEF Times
    <2>6. confirmed' \in Times
        BY <2>1, <2>3 DEF Times
    <2>7. \A c \in Bots : confirmed[c] \in Nat
        BY <2>1 DEF Times
    <2> QED BY <2>2, <2>4, <2>5, <2>6, <2>7
<1>4. \E at \in {"loop", "asked"} : MovesTo(b, at, poller[b].draining, Batch(b))
    <2>1. CASE Asks(b)
        BY <2>1, AsideMoves DEF Asks, States
    <2>2. CASE Fails(b)
        BY <2>2, AsideMoves DEF Fails, States
    <2> QED BY <2>1, <2>2
<1> QED BY <1>1, <1>2, <1>3, <1>4 DEF AsksStep

LEMMA AnswerSteps ==
    ASSUME TelegramOK, Types, NEW b \in Bots, Answered(b)
    PROVE  AnsweredStep(b)
<1>1. Same /\ UNCHANGED <<confirmed, offset, guard, acts, gap, late, dropped>>
      /\ polled' = [polled EXCEPT ![b] = clock]
    BY DEF Answered, Same, telegram, worker
<1>2. Batch(b) = << >> /\ poller[b].at # "off"
    BY DEF Answered, Types, WellFormed, Batch
<1>3. clock \in Nat /\ alive \in [db : Times, mem : Times, saved : Times]
    BY DEF Types
<1>4. CASE clock - alive.saved[b] >= AliveSave
    <2>1. alive' = [db |-> [alive.db EXCEPT ![b] = clock], mem |-> [alive.mem EXCEPT ![b] = clock],
                    saved |-> [alive.saved EXCEPT ![b] = clock]]
        BY <1>4 DEF Answered, MarkAlive
    <2>2. alive' \in [db : Times, mem : Times, saved : Times]
        BY <1>3, <2>1 DEF Times
    <2> QED BY <1>1, <1>2, <1>3, <2>1, <2>2, AnsweredMoves DEF AnsweredStep, Times
<1>5. CASE ~(clock - alive.saved[b] >= AliveSave)
    <2>1. alive' = [alive EXCEPT !.mem[b] = clock]
        BY <1>5 DEF Answered, MarkAlive
    <2>2. /\ alive' \in [db : Times, mem : Times, saved : Times] /\ alive'.db = alive.db
          /\ alive'.saved = alive.saved /\ alive'.mem = [alive.mem EXCEPT ![b] = clock]
        BY <1>3, <2>1 DEF Times
    <2>3. clock - alive.saved[b] < AliveSave
        BY <1>3, <1>5 DEF Times, TelegramOK
    <2> QED BY <1>1, <1>2, <1>3, <2>2, <2>3, AnsweredMoves DEF AnsweredStep, Times
<1> QED BY <1>4, <1>5


LEMMA OutsideSteps ==
    ASSUME TelegramOK, Types,
           \/ Tick \/ PairingStarts \/ PairingEnds \/ ResetDatabase \/ Watched \/ UNCHANGED vars
           \/ \E b \in Bots : PairingTakes(b)
           \/ \E b \in Bots, what \in Whats, job \in Jobs, tag \in 1..MaxEpoch : Press(b, what, job, tag)
    PROVE  OutsideStep
<1>1. /\ clock \in Nat /\ known \in Nat /\ epoch \in Nat /\ confirmed \in Times
      /\ presses \in [Bots -> Buttons] /\ \A c \in Bots : Len(presses[c]) \in Nat /\ confirmed[c] \in Nat
    BY Lengths DEF Types, Times
<1>2. CASE \/ Tick \/ PairingStarts \/ PairingEnds \/ ResetDatabase \/ Watched \/ UNCHANGED vars
    <2>1. UNCHANGED <<poller, offset, alive, guard, acts, polled, gap, late, dropped, presses, confirmed>>
        BY <1>2 DEF Tick, PairingStarts, PairingEnds, ResetDatabase, Watched, vars, telegram, memory,
                    worker, observers
    <2>2. clock' \in Nat /\ clock' >= clock /\ known' \in Nat /\ epoch' \in Nat
        <3>1. clock' \in {clock, clock + 1} /\ epoch' \in {epoch, epoch + 1} /\ known' \in {known, epoch}
            BY <1>2 DEF Tick, PairingStarts, PairingEnds, ResetDatabase, Watched, vars, worker
        <3>2. PICK c \in Nat, e \in Nat, k \in Nat : c = clock /\ e = epoch /\ k = known
            BY <1>1
        <3>3. clock' \in {c, c + 1} /\ epoch' \in {e, e + 1} /\ known' \in {k, e}
            BY <3>1, <3>2
        <3>4. \A t \in {c, c + 1} : t \in Nat /\ t >= c
            OBVIOUS
        <3>5. \A t \in {e, e + 1} \cup {k, e} : t \in Nat
            OBVIOUS
        <3> QED BY <3>2, <3>3, <3>4, <3>5
    <2>3. /\ presses' \in [Bots -> Buttons] /\ confirmed' \in Times
          /\ \A c \in Bots : /\ Len(presses'[c]) >= Len(presses[c])
                             /\ \A i \in 1..Len(presses[c]) : presses'[c][i] = presses[c][i]
        BY <1>1, <2>1
    <2>4. \A c \in Bots : confirmed'[c] >= confirmed[c] /\ confirmed'[c] = confirmed[c]
        BY <1>1, <2>1
    <2> QED BY <2>1, <2>2, <2>3, <2>4 DEF OutsideStep
<1>3. CASE \E b \in Bots : PairingTakes(b)
    <2>1. PICK b \in Bots : PairingTakes(b)
        BY <1>3
    <2>2. UNCHANGED <<poller, offset, alive, guard, acts, polled, gap, late, dropped, presses, clock, known, epoch>>
        BY <2>1 DEF PairingTakes, memory, worker, observers
    <2>3. PICK n \in Nat : n = Len(presses[b])
        BY <1>1
    <2>4. confirmed' = [confirmed EXCEPT ![b] = n] /\ confirmed[b] < n
        BY <2>1, <2>3 DEF PairingTakes
    <2>5. confirmed' \in Times /\ \A c \in Bots : confirmed'[c] = confirmed[c] \/ (c = b /\ confirmed'[c] = n)
        BY <1>1, <2>4 DEF Times
    <2>6. confirmed[b] \in Nat /\ \A c \in Bots : confirmed[c] <= confirmed[c]
        BY <1>1
    <2>7. \A c \in Bots : confirmed'[c] >= confirmed[c] /\ confirmed'[c] \in {confirmed[c], Len(presses[c])}
        BY <2>3, <2>4, <2>5, <2>6
    <2>8. \A c \in Bots : Len(presses'[c]) >= Len(presses[c])
        BY <1>1, <2>2
    <2>9. /\ clock' \in Nat /\ clock' >= clock /\ known' \in Nat /\ epoch' \in Nat
          /\ presses' \in [Bots -> Buttons]
        BY <1>1, <2>2
    <2> QED BY <2>2, <2>5, <2>7, <2>8, <2>9 DEF OutsideStep
<1>4. CASE \E b \in Bots, what \in Whats, job \in Jobs, tag \in 1..MaxEpoch : Press(b, what, job, tag)
    <2>1. PICK b \in Bots, what \in Whats, job \in Jobs, tag \in 1..MaxEpoch : Press(b, what, job, tag)
        BY <1>4
    <2>2. UNCHANGED <<poller, offset, alive, guard, acts, polled, gap, late, dropped, confirmed, clock, known, epoch>>
        BY <2>1 DEF Press, memory, worker, observers
    <2>3. PICK x \in Button : x = [what |-> what, job |-> job, tag |-> tag]
        <3>1. what \in What /\ tag \in Nat
            BY DEF TelegramOK
        <3> QED BY <3>1 DEF Button
    <2>4. presses' = [presses EXCEPT ![b] = Append(presses[b], x)]
        BY <2>1, <2>3 DEF Press
    <2>5. PICK s \in Buttons : s = presses[b]
        BY <1>1
    <2>6. PICK t \in Buttons : /\ t = Append(s, x) /\ Len(t) = Len(s) + 1 /\ Len(s) \in Nat
                               /\ \A i \in 1..Len(s) : t[i] = s[i]
        BY MoreButtons
    <2>7. presses' = [presses EXCEPT ![b] = t]
        BY <2>4, <2>5, <2>6
    <2>8. presses' \in [Bots -> Buttons] /\ presses'[b] = t /\ \A c \in Bots : c # b => presses'[c] = presses[c]
        BY <1>1, <2>7
    <2>9. \A c \in Bots : /\ Len(presses'[c]) >= Len(presses[c])
                         /\ \A i \in 1..Len(presses[c]) : presses'[c][i] = presses[c][i]
        <3> SUFFICES ASSUME NEW c \in Bots
                     PROVE  /\ Len(presses'[c]) >= Len(presses[c])
                            /\ \A i \in 1..Len(presses[c]) : presses'[c][i] = presses[c][i]
            OBVIOUS
        <3>1. CASE c = b
            <4>1. presses'[c] = t /\ presses[c] = s
                BY <2>5, <2>8, <3>1
            <4>2. Len(t) >= Len(s)
                BY <2>6
            <4> QED BY <2>6, <4>1, <4>2
        <3>2. CASE c # b
            <4>1. presses'[c] = presses[c] /\ Len(presses[c]) \in Nat
                BY <1>1, <2>8, <3>2
            <4> QED BY <4>1
        <3> QED BY <3>1, <3>2
    <2>10. \A c \in Bots : confirmed'[c] >= confirmed[c] /\ confirmed'[c] = confirmed[c]
        BY <1>1, <2>2
    <2>11. clock' \in Nat /\ clock' >= clock /\ known' \in Nat /\ epoch' \in Nat /\ confirmed' \in Times
        BY <1>1, <2>2
    <2> QED BY <2>2, <2>8, <2>9, <2>10, <2>11 DEF OutsideStep
<1> QED BY <1>2, <1>3, <1>4

(* What a step does that belongs to the poller of one bot. *)
PollerStep(b) ==
    \/ StartsStep(b) \/ AsksStep(b) \/ AnsweredStep(b)
    \/ DroppedStep(b) \/ HandledStep(b) \/ SentStep(b) \/ ReturnedStep(b)
    \/ StoppedStep(b) \/ DiedStep(b)

LEMMA Steps ==
    ASSUME TelegramOK, Types, [Next]_vars
    PROVE  OutsideStep \/ \E b \in Bots : PollerStep(b)
<1>1. CASE \/ Tick \/ PairingStarts \/ PairingEnds \/ ResetDatabase \/ Watched \/ UNCHANGED vars
    BY <1>1, OutsideSteps
<1>2. ASSUME NEW b \in Bots, NEW what \in Whats, NEW job \in Jobs, NEW tag \in 1..MaxEpoch,
             Press(b, what, job, tag)
      PROVE  OutsideStep
    BY <1>2, OutsideSteps
<1>3. ASSUME NEW b \in Bots, PairingTakes(b) PROVE OutsideStep
    BY <1>3, OutsideSteps
<1>4. ASSUME NEW b \in Bots, Starts(b) \/ Fails(b) \/ Poll(b) PROVE PollerStep(b)
    BY <1>4, StartSteps, AskSteps, AnswerSteps, UpdateSteps, WorkerSteps, StopSteps DEF Poll, PollerStep
<1>5. ASSUME NEW b \in Bots, NEW ran \in BOOLEAN, WorkerFails(b, ran) \/ Cancelled(b, ran) \/ DaemonDies(b, ran)
      PROVE  PollerStep(b)
    BY <1>5, WorkerSteps, StopSteps, DeathSteps DEF PollerStep
<1>6. CASE Next
    BY <1>1, <1>2, <1>3, <1>4, <1>5, <1>6 DEF Next
<1> QED BY <1>1, <1>6

----------------------------------------------------------------------------
(* The types                                                               *)

LEMMA MovesWell ==
    ASSUME Types, UNCHANGED presses, NEW b \in Bots, NEW at, NEW draining, NEW batch,
           MovesTo(b, at, draining, batch),
           at \in {"update", "worker"} <=> batch # << >>,
           \A k \in DOMAIN batch : batch[k] \in 1..Len(presses[b])
    PROVE  poller' \in [Bots -> Poller] /\ \A c \in Bots : WellFormed(poller'[c], Len(presses'[c]))
    BY DEF Types, MovesTo, WellFormed

LEMMA RestIsWell ==
    ASSUME Types, NEW b \in Bots, Batch(b) # << >>
    PROVE  \A k \in DOMAIN Tail(Batch(b)) : Tail(Batch(b))[k] \in 1..Len(presses[b])
<1>1. Batch(b) \in Batches /\ \A k \in DOMAIN Batch(b) : Batch(b)[k] \in 1..Len(presses[b])
    BY DEF Types, Poller, Batch, WellFormed
<1> QED BY <1>1, TailOf

LEMMA AdvancesWell ==
    ASSUME Types, UNCHANGED presses, NEW b \in Bots, Batch(b) # << >>, Advances(b)
    PROVE  poller' \in [Bots -> Poller] /\ \A c \in Bots : WellFormed(poller'[c], Len(presses'[c]))
<1>1. PICK t : t = Tail(Batch(b))
    OBVIOUS
<1>2. PICK at : at = IF t = << >> THEN "loop" ELSE "update"
    OBVIOUS
<1>3. MovesTo(b, at, poller[b].draining, t)
    BY <1>1, <1>2 DEF Advances
<1>4. \A k \in DOMAIN t : t[k] \in 1..Len(presses[b])
    BY <1>1, RestIsWell
<1> QED BY <1>2, <1>3, <1>4, MovesWell

LEMMA RecordsAct ==
    ASSUME Types, NEW b \in Bots, acts' = acts \/ Records(b)
    PROVE  acts' \in Acts
<1>1. acts \in Acts
    BY DEF Types
<1>2. CASE acts' = acts
    BY <1>1, <1>2
<1>3. CASE Records(b)
    <2>1. PICK a \in Act : acts' = Append(acts, a)
        BY <1>3 DEF Records
    <2> QED BY <1>1, <2>1, MoreActs
<1> QED BY <1>2, <1>3

LEMMA TypesStep ==
    ASSUME TelegramOK, Types, [Next]_vars
    PROVE  Types'
<1>0. /\ clock \in Nat /\ clock >= AliveSave /\ poller \in [Bots -> Poller]
      /\ AliveSave \in Nat /\ \A c \in Bots : polled[c] \in Nat /\ polled[c] <= clock
      /\ \A c \in Bots : WellFormed(poller[c], Len(presses[c])) /\ Len(presses[c]) \in Nat
    BY Lengths DEF Types, Times, TelegramOK
<1>1. CASE OutsideStep
    <2>1. \A c \in Bots : Len(presses'[c]) \in Nat
        <3> SUFFICES ASSUME NEW c \in Bots PROVE Len(presses'[c]) \in Nat
            OBVIOUS
        <3>1. presses'[c] \in Seq(Button)
            BY <1>1 DEF OutsideStep, Buttons
        <3> QED BY <3>1
    <2>2. \A c \in Bots : WellFormed(poller'[c], Len(presses'[c]))
        <3> SUFFICES ASSUME NEW c \in Bots PROVE WellFormed(poller'[c], Len(presses'[c]))
            OBVIOUS
        <3>1. poller' = poller /\ Len(presses'[c]) >= Len(presses[c])
            BY <1>1 DEF OutsideStep
        <3>2. PICK m \in Nat, n \in Nat : m = Len(presses[c]) /\ n = Len(presses'[c])
            BY <1>0, <2>1
        <3> QED BY <1>0, <3>1, <3>2, SMTT(30) DEF WellFormed
    <2>3. clock' >= AliveSave /\ \A c \in Bots : polled'[c] <= clock'
        BY <1>0, <1>1 DEF OutsideStep
    <2> QED BY <1>1, <2>2, <2>3 DEF OutsideStep, Types
<1>2. ASSUME NEW b \in Bots, PollerStep(b) PROVE Types'
    <2>0. Same
        BY <1>2 DEF PollerStep, StartsStep, AsksStep, AnsweredStep, DroppedStep, HandledStep, SentStep,
                    ReturnedStep, StoppedStep, DiedStep
    <2>1. poller' \in [Bots -> Poller] /\ \A c \in Bots : WellFormed(poller'[c], Len(presses'[c]))
        <3>0. UNCHANGED presses
            BY <2>0 DEF Same
        <3>1. CASE StartsStep(b)
            BY <3>0, <3>1, MovesWell, EmptyBatch DEF StartsStep
        <3>2. CASE AsksStep(b)
            BY <3>0, <3>2, MovesWell, EmptyBatch DEF AsksStep
        <3>3. CASE AnsweredStep(b)
            <4>1. \A k \in DOMAIN Answer(b) : Answer(b)[k] \in 1..Len(presses[b])
                BY AnswerIs
            <4> QED BY <3>0, <3>3, <4>1, MovesWell DEF AnsweredStep
        <3>4. CASE DroppedStep(b) \/ HandledStep(b) \/ ReturnedStep(b)
            <4>1. Advances(b) /\ Batch(b) # << >>
                BY <1>0, <3>4 DEF DroppedStep, HandledStep, ReturnedStep, AtWorker, WellFormed, Batch
            <4> QED BY <3>0, <4>1, AdvancesWell
        <3>5. CASE SentStep(b)
            <4>1. Batch(b) # << >> /\ \A k \in DOMAIN Batch(b) : Batch(b)[k] \in 1..Len(presses[b])
                BY <1>0, <3>5 DEF SentStep, WellFormed, Batch
            <4> QED BY <3>0, <3>5, <4>1, MovesWell DEF SentStep
        <3>6. CASE StoppedStep(b)
            BY <3>0, <3>6, MovesWell, EmptyBatch DEF StoppedStep
        <3>7. CASE DiedStep(b)
            BY <3>0, <3>7, EmptyBatch DEF DiedStep, WellFormed
        <3> QED BY <1>2, <3>1, <3>2, <3>3, <3>4, <3>5, <3>6, <3>7 DEF PollerStep
    <2>2. acts' \in Acts
        <3>1. acts' = acts \/ Records(b)
            BY <1>2 DEF PollerStep, StartsStep, AsksStep, AnsweredStep, DroppedStep, HandledStep, SentStep,
                        ReturnedStep, StoppedStep, DiedStep
        <3> QED BY <3>1, RecordsAct
    <2>3. offset' \in [db : Times, mem : Times]
        BY <1>2 DEF PollerStep, StartsStep, AsksStep, AnsweredStep, DroppedStep, HandledStep, SentStep,
                    ReturnedStep, StoppedStep, DiedStep, Takes, Types
    <2>4. alive' \in [db : Times, mem : Times, saved : Times]
        BY <1>2 DEF PollerStep, StartsStep, AsksStep, AnsweredStep, DroppedStep, HandledStep, SentStep,
                    ReturnedStep, StoppedStep, DiedStep, Types
    <2>5. guard' \in [db : [Jobs -> Nat], mem : [Jobs -> Nat]]
        BY <1>2 DEF PollerStep, StartsStep, AsksStep, AnsweredStep, DroppedStep, HandledStep, SentStep,
                    ReturnedStep, StoppedStep, DiedStep, Types
    <2>6. confirmed' \in Times
        BY <1>2 DEF PollerStep, StartsStep, AsksStep, AnsweredStep, DroppedStep, HandledStep, SentStep,
                    ReturnedStep, StoppedStep, DiedStep, Types
    <2>7. polled' \in Times /\ \A c \in Bots : polled'[c] <= clock'
        <3>1. polled' = polled \/ polled' = [polled EXCEPT ![b] = clock]
            BY <1>2 DEF PollerStep, StartsStep, AsksStep, AnsweredStep, DroppedStep, HandledStep, SentStep,
                        ReturnedStep, StoppedStep, DiedStep
        <3>2. polled \in Times /\ clock' = clock
            BY <2>0 DEF Types, Same
        <3>3. PICK t \in Nat : t = clock
            BY <1>0
        <3>4. polled' = polled \/ polled' = [polled EXCEPT ![b] = t]
            BY <3>1, <3>3
        <3>5. polled' \in Times
            BY <3>2, <3>4 DEF Times
        <3>6. \A c \in Bots : polled'[c] \in {polled[c], t}
            BY <3>2, <3>4 DEF Times
        <3> QED BY <1>0, <3>2, <3>3, <3>5, <3>6
    <2>8. gap' \in Times
        <3>1. gap' = gap \/ gap' = [gap EXCEPT ![b] = IF polled[b] = 0 THEN 0 ELSE clock - polled[b]]
            BY <1>2 DEF PollerStep, StartsStep, AsksStep, AnsweredStep, DroppedStep, HandledStep, SentStep,
                        ReturnedStep, StoppedStep, DiedStep
        <3>2. PICK g \in Nat : g = IF polled[b] = 0 THEN 0 ELSE clock - polled[b]
            BY <1>0
        <3>3. gap \in Times
            BY DEF Types
        <3> QED BY <3>1, <3>2, <3>3 DEF Times
    <2>9. late' \subseteq Bots \X Nat
        <3>1. CASE StartsStep(b)
            <4>1. offset'.mem[b] \in Nat /\ Len(presses[b]) \in Nat
                BY <1>0, <2>3 DEF Times
            <4>2. Waiting(b, offset'.mem[b]) \subseteq Nat
                BY <4>1, SMTT(30) DEF Waiting
            <4> QED BY <3>1, <4>2 DEF StartsStep, Types
        <3>2. CASE ~StartsStep(b)
            BY <1>2, <3>2 DEF PollerStep, AsksStep, AnsweredStep, DroppedStep, HandledStep, SentStep,
                        ReturnedStep, StoppedStep, DiedStep, Types
        <3> QED BY <3>1, <3>2
    <2>10. dropped' \subseteq Bots \X Nat
        <3>1. CASE DroppedStep(b)
            <4>1. Batch(b)[1] \in Nat
                BY <1>0, <3>1, HandIsPress DEF DroppedStep, WellFormed, Batch
            <4> QED BY <3>1, <4>1 DEF DroppedStep, Types
        <3>2. CASE ~DroppedStep(b)
            BY <1>2, <3>2 DEF PollerStep, StartsStep, AsksStep, AnsweredStep, HandledStep, SentStep,
                        ReturnedStep, StoppedStep, DiedStep, Types
        <3> QED BY <3>1, <3>2
    <2> QED BY <1>0, <2>0, <2>1, <2>2, <2>3, <2>4, <2>5, <2>6, <2>7, <2>8, <2>9, <2>10 DEF Types, Same
<1> QED BY <1>1, <1>2, Steps

LEMMA TypesInit ==
    ASSUME TelegramOK, Init
    PROVE  Types
<1>1. Zero \in Times /\ Never \in [Jobs -> Nat]
    BY DEF Zero, Never, Times
<1>2. Off \in Poller /\ Off.at = "off" /\ Off.batch = << >>
    BY EmptyBatch DEF Off, Poller, States
<1>3. << >> \in Buttons /\ << >> \in Acts /\ 1 \in Nat
    BY DEF Buttons, Acts
<1>4. clock \in Nat /\ clock >= AliveSave /\ \A b \in Bots : polled[b] <= clock
    BY DEF Init, TelegramOK, Zero
<1>5. poller \in [Bots -> Poller] /\ \A b \in Bots : WellFormed(poller[b], Len(presses[b]))
    BY <1>2, EmptyBatch DEF Init, WellFormed
<1> QED BY <1>1, <1>3, <1>4, <1>5 DEF Init, Types

LEMMA TypesInvariant ==
    ASSUME TelegramOK
    PROVE  Spec => []Types
<1>1. Init => Types
    BY TypesInit
<1>2. Types /\ [Next]_vars => Types'
    BY TypesStep
<1> QED BY <1>1, <1>2, PTL DEF Spec

----------------------------------------------------------------------------
(* A press is taken once                                                   *)

(* The ids a poller has in hand follow each other.  Those of updates were   *)
(* not taken yet; the one a worker works on is the last that was.           *)
Held(b) ==
    /\ \A k \in DOMAIN Batch(b) : Batch(b)[k] = Batch(b)[1] + k - 1
    /\ poller[b].at = "update" => Batch(b)[1] > offset.mem[b]
    /\ AtWorker(b) => Batch(b)[1] = offset.mem[b]
    /\ poller[b].at # "off" => offset.mem[b] = offset.db[b]
    /\ offset.mem[b] \in {0, offset.db[b]}

InHand == \A b \in Bots : Held(b)

LEMMA OthersKept ==
    ASSUME Types, NEW b \in Bots, PollerStep(b), ~DiedStep(b), NEW c \in Bots, c # b
    PROVE  /\ poller'[c] = poller[c] /\ offset'.db[c] = offset.db[c] /\ offset'.mem[c] = offset.mem[c]
           /\ alive'.db[c] = alive.db[c] /\ alive'.mem[c] = alive.mem[c] /\ alive'.saved[c] = alive.saved[c]
           /\ polled'[c] = polled[c] /\ gap'[c] = gap[c]
<1> USE DEF MovesTo, Takes, Advances, Types, Times
<1>1. CASE StartsStep(b)
    BY <1>1 DEF StartsStep
<1>2. CASE AsksStep(b)
    BY <1>2 DEF AsksStep
<1>3. CASE AnsweredStep(b)
    BY <1>3 DEF AnsweredStep
<1>4. CASE DroppedStep(b)
    BY <1>4 DEF DroppedStep
<1>5. CASE HandledStep(b)
    BY <1>5 DEF HandledStep
<1>6. CASE SentStep(b)
    BY <1>6 DEF SentStep
<1>7. CASE ReturnedStep(b)
    BY <1>7 DEF ReturnedStep
<1>8. CASE StoppedStep(b)
    BY <1>8 DEF StoppedStep
<1> QED BY <1>1, <1>2, <1>3, <1>4, <1>5, <1>6, <1>7, <1>8 DEF PollerStep

LEMMA Advanced ==
    ASSUME Types, NEW b \in Bots, Held(b), Batch(b) # << >>, Advances(b)
    PROVE  /\ \A k \in DOMAIN Batch(b)' : Batch(b)'[k] = Batch(b)[1] + k /\ k \in Nat
           /\ \A k \in DOMAIN Batch(b)' : Batch(b)'[k] = Batch(b)'[1] + k - 1
           /\ poller'[b].at \in {"loop", "update"} /\ poller'[b].draining = poller[b].draining
           /\ poller'[b].at = "update" => Batch(b)'[1] = Batch(b)[1] + 1
           /\ \A k \in DOMAIN Batch(b)' : \E j \in DOMAIN Batch(b) : Batch(b)'[k] = Batch(b)[j]
<1>1. PICK s \in Batches, t \in Batches : s = Batch(b) /\ t = Tail(s) /\ s # << >>
    BY HandIsPress, TailOf
<1>2. PICK n \in Nat \ {0} : /\ n = Len(s) /\ DOMAIN s = 1..n /\ DOMAIN t = 1..(n - 1)
                             /\ \A k \in 1..(n - 1) : t[k] = s[k + 1] /\ k + 1 \in DOMAIN s
                             /\ t # << >> => 1 \in 1..(n - 1)
    BY <1>1, TailOf
<1>3. PICK f \in Nat : f = s[1]
    BY <1>1, HandIsPress
<1>4. \A k \in DOMAIN s : s[k] = f + k - 1
    BY <1>1, <1>3 DEF Held
<1>5. \A k \in DOMAIN t : t[k] = f + k /\ k \in Nat
    <2> SUFFICES ASSUME NEW k \in 1..(n - 1) PROVE t[k] = f + k /\ k \in Nat
        BY <1>2
    <2>1. t[k] = s[k + 1] /\ k + 1 \in DOMAIN s /\ k \in Nat
        BY <1>2
    <2>2. s[k + 1] = f + (k + 1) - 1
        BY <1>4, <2>1
    <2> QED BY <2>1, <2>2
<1>6. t # << >> => t[1] = f + 1
    BY <1>2, <1>5
<1>7. \A k \in DOMAIN t : t[k] = t[1] + k - 1
    BY <1>2, <1>5
<1>8. MovesTo(b, IF t = << >> THEN "loop" ELSE "update", poller[b].draining, t)
    BY <1>1 DEF Advances
<1>9. Batch(b)' = t /\ poller'[b].at = (IF t = << >> THEN "loop" ELSE "update")
      /\ poller'[b].draining = poller[b].draining
    BY <1>8 DEF MovesTo, Batch
<1>10. \A k \in DOMAIN t : \E j \in DOMAIN s : t[k] = s[j]
    BY <1>2
<1>11. poller'[b].at \in {"loop", "update"} /\ (poller'[b].at = "update" => t # << >>)
    BY <1>9
<1>12. /\ \A k \in DOMAIN t : t[k] = s[1] + k /\ k \in Nat
       /\ t # << >> => t[1] = s[1] + 1
    BY <1>3, <1>5, <1>6
<1> QED BY <1>1, <1>7, <1>9, <1>10, <1>11, <1>12

LEMMA InHandStep ==
    ASSUME TelegramOK, Types, InHand, [Next]_vars
    PROVE  InHand'
<1>0. \A c \in Bots : Held(c) /\ offset.db[c] \in Nat /\ offset.mem[c] \in Nat
    BY DEF InHand, Types, Times
<1>1. CASE OutsideStep
    BY <1>0, <1>1 DEF OutsideStep, InHand, Held, Batch, AtWorker
<1>2. ASSUME NEW b \in Bots, PollerStep(b) PROVE InHand'
    <2>1. CASE DiedStep(b)
        BY <2>1, EmptyBatch DEF DiedStep, InHand, Held, Batch, AtWorker, Zero
    <2>2. CASE ~DiedStep(b)
        <3>1. ASSUME NEW c \in Bots, c # b PROVE Held(c)'
            BY <1>0, <1>2, <2>2, <3>1, OthersKept DEF Held, Batch, AtWorker
        <3>2. Held(b)'
            <4>1. CASE StartsStep(b)
                <5>1. poller'[b].at = "loop" /\ poller'[b].batch = << >>
                    BY <4>1 DEF StartsStep, MovesTo
                <5>2. offset'.db[b] = offset.db[b]
                      /\ offset'.mem[b] = IF offset.mem[b] = 0 THEN offset.db[b] ELSE offset.mem[b]
                    BY <4>1 DEF StartsStep, Types, Times
                <5> QED BY <1>0, <5>1, <5>2, EmptyBatch DEF Held, Batch, AtWorker
            <4>2. CASE AsksStep(b)
                BY <1>0, <4>2, EmptyBatch DEF AsksStep, Held, Batch, AtWorker, MovesTo
            <4>3. CASE AnsweredStep(b)
                <5>1. PICK a \in Batches : /\ a = Answer(b) /\ Batch(b)' = a
                                           /\ poller'[b].at = IF a = << >> THEN "loop" ELSE "update"
                    BY <4>3, AnswerIs DEF AnsweredStep, MovesTo, Batch
                <5>2. PICK f \in Nat : /\ f = From(b) /\ f >= offset.mem[b]
                                       /\ \A k \in DOMAIN a : a[k] = f + k /\ k \in Nat
                                       /\ a # << >> => 1 \in DOMAIN a
                    BY <5>1, AnswerIs
                <5>3. UNCHANGED offset /\ poller[b].at # "off"
                    BY <4>3 DEF AnsweredStep
                <5>4. a # << >> => a[1] = f + 1
                    BY <5>2
                <5>5. \A k \in DOMAIN a : a[k] = a[1] + k - 1
                    BY <5>2, <5>4, EmptyBatch, SMTT(30)
                <5> QED BY <1>0, <5>1, <5>2, <5>3, <5>4, <5>5, SMTT(30) DEF Held, AtWorker
            <4>4. CASE DroppedStep(b) \/ HandledStep(b) \/ ReturnedStep(b)
                <5>1. Advances(b) /\ Batch(b) # << >> /\ poller[b].at # "off"
                    BY <4>4 DEF DroppedStep, HandledStep, ReturnedStep, AtWorker, Types, WellFormed, Batch
                <5>2. Batch(b)[1] \in Nat
                    BY <5>1, HandIsPress
                <5>3. offset'.mem[b] = Batch(b)[1] /\ offset'.db[b] = Batch(b)[1]
                    <6>1. CASE Takes(b)
                        BY <6>1 DEF Takes, Types, Times
                    <6>2. CASE offset' = offset /\ AtWorker(b)
                        BY <1>0, <5>1, <6>2 DEF Held
                    <6> QED BY <4>4, <6>1, <6>2 DEF DroppedStep, HandledStep, ReturnedStep
                <5> QED BY <1>0, <5>1, <5>2, <5>3, Advanced, SMTT(30) DEF Held, AtWorker
            <4>5. CASE SentStep(b)
                <5>1. offset'.mem[b] = Batch(b)[1] /\ offset'.db[b] = Batch(b)[1]
                    BY <4>5 DEF SentStep, Takes, Types, Times
                <5>2. Batch(b)' = Batch(b) /\ poller'[b].at = "worker"
                    BY <4>5 DEF SentStep, MovesTo, Batch
                <5> QED BY <1>0, <5>1, <5>2 DEF Held, AtWorker
            <4>6. CASE StoppedStep(b)
                BY <1>0, <4>6, EmptyBatch DEF StoppedStep, Held, Batch, AtWorker, MovesTo
            <4> QED BY <1>2, <2>2, <4>1, <4>2, <4>3, <4>4, <4>5, <4>6 DEF PollerStep
        <3> QED BY <3>1, <3>2 DEF InHand
    <2> QED BY <2>1, <2>2
<1> QED BY <1>1, <1>2, Steps

LEMMA InHandInvariant ==
    ASSUME TelegramOK
    PROVE  Spec => [](Types /\ InHand)
<1>1. Init => Types /\ InHand
    <2> SUFFICES ASSUME Init PROVE InHand
        BY TypesInit
    <2>1. \A b \in Bots : poller[b].at = "off" /\ Batch(b) = << >>
        BY DEF Init, Off, Batch
    <2>2. \A b \in Bots : offset.mem[b] = 0
        BY DEF Init, Zero
    <2> QED BY <2>1, <2>2, EmptyBatch DEF InHand, Held, AtWorker
<1>2. Types /\ InHand /\ [Next]_vars => (Types /\ InHand)'
    BY TypesStep, InHandStep
<1> QED BY <1>1, <1>2, PTL DEF Spec

----------------------------------------------------------------------------
(* A press is acted on once                                                *)

(* What was acted on was taken first, and is not what a worker works on.    *)
Taken(a) ==
    /\ a.press[2] <= offset.db[a.press[1]]
    /\ \A b \in Bots : AtWorker(b) => a.press # <<b, Batch(b)[1]>>

Pressed == \A n \in DOMAIN acts : Taken(acts[n])

(* Where a step adds to what was done, and that it is a press nobody acted on. *)
Adds(b) == Records(b) /\ poller[b].at \in {"update", "worker"}

LEMMA SavedGrows ==
    ASSUME TelegramOK, Types, InHand, [Next]_vars, NEW c \in Bots
    PROVE  offset'.db[c] >= offset.db[c]
<1>0. Held(c) /\ offset.db[c] \in Nat /\ offset.mem[c] \in Nat
    BY DEF InHand, Types, Times
<1>1. CASE OutsideStep
    BY <1>0, <1>1 DEF OutsideStep
<1>2. ASSUME NEW b \in Bots, PollerStep(b) PROVE offset'.db[c] >= offset.db[c]
    <2>1. offset'.db = offset.db \/ (poller[b].at = "update" /\ offset'.db = [offset.db EXCEPT ![b] = Batch(b)[1]])
        BY <1>2 DEF PollerStep, StartsStep, AsksStep, AnsweredStep, DroppedStep, HandledStep, SentStep,
                    ReturnedStep, StoppedStep, DiedStep, Takes
    <2>2. CASE poller[b].at = "update" /\ offset'.db = [offset.db EXCEPT ![b] = Batch(b)[1]]
        <3>1. Batch(b)[1] \in Nat
            BY <2>2, HandIsPress DEF Types, WellFormed, Batch
        <3>2. offset'.db[c] = IF c = b THEN Batch(b)[1] ELSE offset.db[c]
            BY <2>2 DEF Types, Times
        <3> QED BY <1>0, <2>2, <3>1, <3>2 DEF Held
    <2> QED BY <1>0, <2>1, <2>2
<1> QED BY <1>1, <1>2, Steps

LEMMA ActFields ==
    ASSUME Types, NEW n \in DOMAIN acts
    PROVE  /\ acts[n] \in Act /\ acts[n].press[1] \in Bots /\ acts[n].press[2] \in Nat /\ acts[n].at \in Nat
           /\ acts[n].job \in Jobs /\ n \in Nat /\ offset.db[acts[n].press[1]] \in Nat
<1>1. acts \in Seq(Act) /\ offset.db \in [Bots -> Nat]
    BY DEF Types, Acts, Times
<1>2. acts[n] \in Act /\ n \in Nat
    BY <1>1
<1> QED BY <1>1, <1>2 DEF Act

LEMMA RecordsOne ==
    ASSUME Types, NEW b \in Bots, Records(b)
    PROVE  \E a \in Act :
             /\ a.press = <<b, Batch(b)[1]>> /\ a.at = clock
             /\ a.what = presses[b][Batch(b)[1]].what /\ a.job = presses[b][Batch(b)[1]].job
             /\ Len(acts) \in Nat /\ DOMAIN acts = 1..Len(acts)
             /\ DOMAIN acts' = 1..(Len(acts) + 1)
             /\ acts'[Len(acts) + 1] = a
             /\ \A n \in DOMAIN acts : acts'[n] = acts[n] /\ n \in DOMAIN acts'
    BY MoreActs DEF Types, Records

(* What was done is never forgotten, and a step adds at most one press. *)
LEMMA StepAdds ==
    ASSUME TelegramOK, Types, [Next]_vars
    PROVE  acts' = acts \/ \E b \in Bots : PollerStep(b) /\ Adds(b)
<1>1. ASSUME NEW b \in Bots, PollerStep(b) PROVE acts' = acts \/ Adds(b)
    BY <1>1 DEF PollerStep, StartsStep, AsksStep, AnsweredStep, DroppedStep, HandledStep, SentStep,
                ReturnedStep, StoppedStep, DiedStep, Adds, AtWorker
<1>2. OutsideStep => acts' = acts
    BY DEF OutsideStep
<1> QED BY <1>1, <1>2, Steps

(* A worker is asked to do what nobody did yet, and goes on with that.      *)
LEMMA TakenStep ==
    ASSUME TelegramOK, Types, InHand, [Next]_vars, NEW n \in DOMAIN acts, Taken(acts[n])
    PROVE  acts'[n] = acts[n] /\ n \in DOMAIN acts' /\ Taken(acts[n])'
<1>0. acts'[n] = acts[n] /\ n \in DOMAIN acts'
    BY StepAdds, RecordsOne DEF Adds
<1>1. PICK b1 \in Bots, i1 \in Nat : /\ acts[n].press[1] = b1 /\ acts[n].press[2] = i1
                                     /\ acts[n].press = <<b1, i1>>
    BY ActFields DEF Act
<1>2. i1 <= offset.db[b1] /\ offset.db[b1] \in Nat /\ offset'.db[b1] \in Nat
    BY <1>1, ActFields, TypesStep DEF Taken, Types, Times
<1>3. i1 <= offset'.db[b1]
    BY <1>2, SavedGrows
<1>4. ASSUME NEW c \in Bots, AtWorker(c)' PROVE <<b1, i1>> # <<c, Batch(c)'[1]>>
    <2>1. CASE AtWorker(c) /\ Batch(c)' = Batch(c)
        BY <1>1, <2>1 DEF Taken
    <2>2. CASE ~(AtWorker(c) /\ Batch(c)' = Batch(c))
        <3>1. ~OutsideStep
            BY <1>4, <2>2 DEF OutsideStep, AtWorker, Batch
        <3>2. PICK b \in Bots : PollerStep(b)
            BY <3>1, Steps
        <3>3. ~DiedStep(b)
            BY <1>4 DEF DiedStep, AtWorker
        <3>4. c = b
            BY <1>4, <2>2, <3>2, <3>3, OthersKept DEF AtWorker, Batch
        <3>5. SentStep(b)
            <4>1. ~(DroppedStep(b) \/ HandledStep(b) \/ ReturnedStep(b))
                BY <1>4, <3>4 DEF DroppedStep, HandledStep, ReturnedStep, Advances, MovesTo, AtWorker
            <4>2. ~(StartsStep(b) \/ AsksStep(b) \/ AnsweredStep(b) \/ StoppedStep(b))
                BY <1>4, <3>4 DEF StartsStep, AsksStep, AnsweredStep, StoppedStep, MovesTo, AtWorker
            <4> QED BY <3>2, <3>3, <4>1, <4>2 DEF PollerStep
        <3>6. Batch(b)' = Batch(b) /\ Batch(b)[1] > offset.mem[b] /\ offset.mem[b] = offset.db[b]
            BY <3>5 DEF SentStep, MovesTo, Batch, InHand, Held
        <3>7. Batch(b)[1] \in Nat
            BY <3>5, HandIsPress DEF SentStep, Types, WellFormed, Batch
        <3>8. b1 = b => i1 < Batch(b)[1]
            BY <1>2, <3>6, <3>7
        <3> QED BY <1>1, <3>4, <3>6, <3>7, <3>8
    <2> QED BY <2>1, <2>2
<1> QED BY <1>0, <1>1, <1>3, <1>4 DEF Taken

(* What a step adds was taken, and nobody acted on it before. *)
LEMMA AddsNew ==
    ASSUME TelegramOK, Types, InHand, Pressed, [Next]_vars, NEW b \in Bots, PollerStep(b), Adds(b)
    PROVE  /\ Batch(b)[1] \in Nat /\ Batch(b)[1] <= offset'.db[b] /\ ~AtWorker(b)'
           /\ \A n \in DOMAIN acts : acts[n].press # <<b, Batch(b)[1]>>
<1>0. Batch(b)[1] \in Nat /\ Held(b) /\ offset.db[b] \in Nat /\ offset'.db[b] \in Nat
    BY HandIsPress, TypesStep DEF Adds, Types, WellFormed, Batch, InHand, Times
<1>1. CASE poller[b].at = "worker"
    <2>1. Batch(b)[1] = offset.db[b]
        BY <1>1 DEF InHand, Held, AtWorker
    <2>2. ~AtWorker(b)'
        BY <1>1 DEF PollerStep, StartsStep, AsksStep, AnsweredStep, DroppedStep, HandledStep, SentStep,
                    ReturnedStep, StoppedStep, DiedStep, Advances, MovesTo, AtWorker, Types, WellFormed, Batch
    <2>3. \A n \in DOMAIN acts : acts[n].press # <<b, Batch(b)[1]>>
        BY <1>1 DEF Pressed, Taken, AtWorker
    <2> QED BY <1>0, <2>1, <2>2, <2>3, SavedGrows
<1>2. CASE poller[b].at = "update"
    <2>0. acts' # acts
        <3>1. PICK m \in Nat : m = Len(acts) /\ DOMAIN acts = 1..m /\ DOMAIN acts' = 1..(m + 1)
            BY RecordsOne DEF Adds
        <3>2. m + 1 \in DOMAIN acts' /\ m + 1 \notin DOMAIN acts
            BY <3>1
        <3> QED BY <3>2
    <2>1. HandledStep(b)
        BY <1>2, <2>0 DEF PollerStep, StartsStep, AsksStep, AnsweredStep, DroppedStep, SentStep,
                    ReturnedStep, StoppedStep, DiedStep, AtWorker, Types, WellFormed, Batch
    <2>2. offset'.db[b] = Batch(b)[1] /\ ~AtWorker(b)'
        BY <2>1 DEF HandledStep, Takes, Types, Times, Advances, MovesTo, AtWorker
    <2>3. Batch(b)[1] > offset.db[b]
        BY <1>2 DEF InHand, Held
    <2>4. ASSUME NEW n \in DOMAIN acts PROVE acts[n].press # <<b, Batch(b)[1]>>
        <3>1. acts[n].press[2] <= offset.db[acts[n].press[1]]
            BY DEF Pressed, Taken
        <3> QED BY <1>0, <2>3, <3>1, ActFields
    <2> QED BY <1>0, <2>2, <2>4
<1> QED BY <1>1, <1>2 DEF Adds

LEMMA PressedStep ==
    ASSUME TelegramOK, Types, InHand, Pressed, AtMostOnce, [Next]_vars
    PROVE  Pressed' /\ AtMostOnce'
<1>1. \A n \in DOMAIN acts : acts'[n] = acts[n] /\ n \in DOMAIN acts' /\ Taken(acts[n])'
    BY TakenStep DEF Pressed
<1>2. CASE acts' = acts
    <2>1. Pressed'
        BY <1>1, <1>2 DEF Pressed, Taken
    <2>2. AtMostOnce'
        BY <1>2 DEF AtMostOnce
    <2> QED BY <2>1, <2>2
<1>3. ASSUME NEW b \in Bots, PollerStep(b), Adds(b) PROVE Pressed' /\ AtMostOnce'
    <2>1. PICK a \in Act, m \in Nat : /\ a.press = <<b, Batch(b)[1]>> /\ m = Len(acts) /\ DOMAIN acts = 1..m
                                      /\ DOMAIN acts' = 1..(m + 1) /\ acts'[m + 1] = a
        BY <1>3, RecordsOne DEF Adds
    <2>2. /\ Batch(b)[1] \in Nat /\ Batch(b)[1] <= offset'.db[b] /\ ~AtWorker(b)'
          /\ \A n \in DOMAIN acts : acts[n].press # <<b, Batch(b)[1]>>
        BY <1>3, AddsNew
    <2>3. Taken(a)'
        BY <2>1, <2>2 DEF Taken
    <2>4. \A n \in DOMAIN acts' : n \in DOMAIN acts \/ n = m + 1
        BY <2>1
    <2>5. Pressed'
        <3>1. ASSUME NEW n \in DOMAIN acts' PROVE Taken(acts[n])'
            <4>1. CASE n \in DOMAIN acts
                BY <1>1, <4>1 DEF Taken
            <4>2. CASE n = m + 1
                BY <2>1, <2>3, <4>2 DEF Taken
            <4> QED BY <2>4, <4>1, <4>2
        <3> QED BY <3>1 DEF Pressed
    <2>6. AtMostOnce'
        BY <1>1, <2>1, <2>2, <2>4 DEF AtMostOnce
    <2> QED BY <2>5, <2>6
<1> QED BY <1>2, <1>3, StepAdds

(* No press is acted on twice, however often the daemon dies, is paired     *)
(* anew or forgets the callbacks it has seen: the offset is on disk before  *)
(* a press is handled, and what is asked of Telegram lies behind it.        *)
THEOREM PressesRunOnce ==
    ASSUME TelegramOK
    PROVE  Spec => []AtMostOnce
<1>1. Init => Pressed /\ AtMostOnce
    BY DEF Init, Pressed, AtMostOnce
<1>2. Types /\ InHand /\ Pressed /\ AtMostOnce /\ [Next]_vars => Pressed' /\ AtMostOnce'
    BY PressedStep
<1> QED BY <1>1, <1>2, InHandInvariant, PTL DEF Spec

----------------------------------------------------------------------------
(* What a poller knows of its last good poll                               *)

(* The record on disk lags behind the true time by less than AliveSave, and *)
(* a poller that drops began after an outage that was nearly Stale long.    *)
Lived(b) ==
    /\ polled[b] = 0 => alive.db[b] = 0 /\ alive.mem[b] = 0 /\ alive.saved[b] = 0
    /\ polled[b] # 0 => /\ alive.db[b] # 0 /\ alive.db[b] <= polled[b]
                        /\ polled[b] - alive.db[b] < AliveSave
    /\ alive.mem[b] \in {0, polled[b]} /\ alive.saved[b] \in {0, alive.db[b]}
    /\ poller[b].at = "off" => ~poller[b].draining
    /\ poller[b].draining => gap[b] > Stale - AliveSave

AliveInv == \A b \in Bots : Lived(b)

LEMMA OutageIsLong ==
    ASSUME TelegramOK, Types, NEW b \in Bots, Lived(b)
    PROVE  /\ LongOff(b) => polled[b] # 0 /\ clock - polled[b] > Stale - AliveSave
           /\ polled[b] # 0 /\ clock - polled[b] > Stale => LongOff(b)
           /\ Stale \in Nat /\ AliveSave \in Nat /\ AliveSave > 0
<1>1. PICK c \in Nat, p \in Nat, d \in Nat, m \in Nat :
        c = clock /\ p = polled[b] /\ d = alive.db[b] /\ m = alive.mem[b]
    BY DEF Types, Times
<1>2. Stale \in Nat /\ AliveSave \in Nat /\ AliveSave > 0
    BY DEF TelegramOK
<1>3. /\ p = 0 => d = 0 /\ m = 0
      /\ p # 0 => d # 0 /\ d <= p /\ p - d < AliveSave
      /\ m \in {0, p}
    BY <1>1 DEF Lived
<1>4. PICK l \in Nat : l = (IF m # 0 THEN m ELSE d) /\ l = LastAlive(b)
    BY <1>1 DEF LastAlive
<1>5. LongOff(b) <=> l # 0 /\ c - l > Stale
    BY <1>1, <1>4 DEF LongOff
<1>6. (l = 0 <=> p = 0) /\ l <= p /\ (p # 0 => p - l < AliveSave)
    BY <1>2, <1>3, <1>4
<1> QED BY <1>1, <1>2, <1>5, <1>6

LEMMA AliveStep ==
    ASSUME TelegramOK, Types, AliveInv, [Next]_vars
    PROVE  AliveInv'
<1>0. \A c \in Bots : Lived(c)
    BY DEF AliveInv
<1>1. CASE OutsideStep
    BY <1>0, <1>1 DEF OutsideStep, AliveInv, Lived
<1>2. ASSUME NEW b \in Bots, PollerStep(b) PROVE AliveInv'
    <2>1. CASE DiedStep(b)
        <3>1. ASSUME NEW c \in Bots PROVE Lived(c)'
            <4>1. polled'[c] = polled[c] /\ alive'.db[c] = alive.db[c] /\ alive'.mem[c] = 0 /\ alive'.saved[c] = 0
                BY <2>1 DEF DiedStep, Zero
            <4>2. poller'[c].draining = FALSE
                BY <2>1 DEF DiedStep
            <4> QED BY <1>0, <4>1, <4>2 DEF Lived
        <3> QED BY <3>1 DEF AliveInv
    <2>2. CASE ~DiedStep(b)
        <3>1. ASSUME NEW c \in Bots, c # b PROVE Lived(c)'
            BY <1>0, <1>2, <2>2, <3>1, OthersKept DEF Lived
        <3>2. Lived(b)'
            <4>1. CASE StartsStep(b)
                <5>1. /\ polled' = polled /\ alive' = alive /\ poller'[b].at = "loop"
                      /\ poller'[b].draining = LongOff(b)
                    BY <4>1 DEF StartsStep, MovesTo
                <5>2. gap'[b] = IF polled[b] = 0 THEN 0 ELSE clock - polled[b]
                    BY <4>1 DEF StartsStep, Types, Times
                <5>3. LongOff(b) => gap'[b] > Stale - AliveSave
                    BY <1>0, <5>2, OutageIsLong
                <5> QED BY <1>0, <5>1, <5>3 DEF Lived
            <4>2. CASE AnsweredStep(b)
                <5>1. poller'[b].at # "off" /\ (poller'[b].draining => poller[b].draining) /\ gap' = gap
                    BY <4>2 DEF AnsweredStep, MovesTo
                <5>2. PICK n \in Nat, p \in Nat, d \in Nat, s \in Nat :
                        n = clock /\ p = polled[b] /\ d = alive.db[b] /\ s = alive.saved[b]
                    BY DEF Types, Times
                <5>3. polled'[b] = n /\ alive'.mem[b] = n
                    BY <4>2, <5>2 DEF AnsweredStep, Types, Times
                <5>4. n >= AliveSave /\ AliveSave > 0 /\ AliveSave \in Nat /\ p <= n
                    BY <5>2 DEF Types, TelegramOK
                <5>5. PICK d2 \in Nat, s2 \in Nat :
                        /\ d2 = alive'.db[b] /\ s2 = alive'.saved[b]
                        /\ (d2 = n /\ s2 = n) \/ (n - s < AliveSave /\ d2 = d /\ s2 = s)
                    BY <4>2, <5>2 DEF AnsweredStep
                <5>6. (p = 0 => d = 0) /\ (p # 0 => d <= p) /\ s \in {0, d}
                    BY <1>0, <5>2 DEF Lived
                <5>7. n # 0 /\ d2 # 0 /\ d2 <= n /\ n - d2 < AliveSave /\ s2 \in {0, d2}
                    BY <5>4, <5>5, <5>6
                <5> QED BY <1>0, <5>1, <5>3, <5>5, <5>7 DEF Lived
            <4>3. CASE DroppedStep(b) \/ HandledStep(b) \/ ReturnedStep(b)
                <5>1. Advances(b) /\ UNCHANGED <<alive, polled, gap>> /\ poller[b].at # "off"
                    BY <4>3 DEF DroppedStep, HandledStep, ReturnedStep, AtWorker
                <5>2. poller'[b].at # "off" /\ poller'[b].draining = poller[b].draining
                    BY <5>1 DEF Advances, MovesTo
                <5> QED BY <1>0, <5>1, <5>2 DEF Lived
            <4>4. CASE AsksStep(b)
                BY <1>0, <4>4 DEF AsksStep, Lived, MovesTo
            <4>5. CASE SentStep(b)
                BY <1>0, <4>5 DEF SentStep, Lived, MovesTo
            <4>6. CASE StoppedStep(b)
                BY <1>0, <4>6 DEF StoppedStep, Lived, MovesTo
            <4> QED BY <1>2, <2>2, <4>1, <4>2, <4>3, <4>4, <4>5, <4>6 DEF PollerStep
        <3> QED BY <3>1, <3>2 DEF AliveInv
    <2> QED BY <2>1, <2>2
<1> QED BY <1>1, <1>2, Steps

LEMMA AliveInvariant ==
    ASSUME TelegramOK
    PROVE  Spec => []AliveInv
<1>1. Init => AliveInv
    BY DEF Init, AliveInv, Lived, Zero, Off
<1>2. Types /\ AliveInv /\ [Next]_vars => AliveInv'
    BY AliveStep
<1> QED BY <1>1, <1>2, TypesInvariant, PTL DEF Spec

(* No press is dropped but by a poller that began after its bot had been    *)
(* left alone for longer than the time to wait, less the time between two   *)
(* saved good polls, whatever died in between.                              *)
THEOREM DropsAfterOutages ==
    ASSUME TelegramOK
    PROVE  Spec => DroppedOnlyAfterOutage
<1>1. ASSUME Types, AliveInv, [Next]_vars
      PROVE  \A b \in Bots : (\E i \in 1..MaxPresses : <<b, i>> \in dropped' \ dropped)
                              => gap[b] > Stale - AliveSave
    <2> SUFFICES ASSUME NEW b \in Bots, NEW i \in 1..MaxPresses, <<b, i>> \in dropped' \ dropped
                 PROVE  gap[b] > Stale - AliveSave
        OBVIOUS
    <2>1. PICK c \in Bots : DroppedStep(c)
        BY <1>1, Steps DEF PollerStep, OutsideStep, StartsStep, AsksStep, AnsweredStep, HandledStep, SentStep,
                           ReturnedStep, StoppedStep, DiedStep
    <2>2. c = b /\ poller[b].draining
        BY <2>1 DEF DroppedStep
    <2> QED BY <1>1, <2>2 DEF AliveInv, Lived
<1>2. Types /\ AliveInv /\ [Next]_vars
      => [\A b \in Bots : (\E i \in 1..MaxPresses : <<b, i>> \in dropped' \ dropped)
                           => gap[b] > Stale - AliveSave]_vars
    BY <1>1
<1> QED BY <1>2, TypesInvariant, AliveInvariant, PTL DEF Spec, DroppedOnlyAfterOutage

----------------------------------------------------------------------------
(* Presses that waited through an outage                                   *)

(* A press is out of the way: taken; or about to be dropped; or given away  *)
(* by Telegram to somebody else.                                            *)
Settled(b, i) ==
    \/ i <= offset.db[b]
    \/ poller[b].at # "off" /\ poller[b].draining
    \/ i <= confirmed[b] /\ \A k \in DOMAIN Batch(b) : Batch(b)[k] # i

OutOfTheWay(b, i) ==
    /\ i <= Len(presses[b]) /\ Settled(b, i)
    /\ AtWorker(b) => Batch(b)[1] # i

LateInv == \A b \in Bots, i \in Nat : <<b, i>> \in late => OutOfTheWay(b, i)

(* What a poller that does not drop acts on is not such a press. *)
LEMMA NotInTheWay ==
    ASSUME TelegramOK, Types, InHand, NEW b \in Bots, NEW i \in Nat, OutOfTheWay(b, i),
           AtWorker(b) \/ (poller[b].at = "update" /\ ~poller[b].draining)
    PROVE  Batch(b)[1] # i
<1>1. Batch(b) # << >>
    BY DEF Types, WellFormed, AtWorker, Batch
<1>2. Batch(b)[1] \in Nat /\ 1 \in DOMAIN Batch(b) /\ offset.db[b] \in Nat
    BY <1>1, HandIsPress, TailOf DEF Types, Times
<1>3. poller[b].at = "update" => Batch(b)[1] > offset.db[b]
    BY DEF InHand, Held
<1> QED BY <1>2, <1>3 DEF OutOfTheWay, Settled, AtWorker

LEMMA StaysOut ==
    ASSUME TelegramOK, Types, InHand, "interrupt" \notin Faults, [Next]_vars,
           NEW b \in Bots, NEW i \in Nat, OutOfTheWay(b, i)
    PROVE  OutOfTheWay(b, i)'
<1>0. /\ offset.db[b] \in Nat /\ offset'.db[b] \in Nat /\ offset'.db[b] >= offset.db[b]
      /\ offset.mem[b] \in Nat /\ confirmed[b] \in Nat /\ Len(presses[b]) \in Nat /\ confirmed'[b] \in Nat
      /\ Len(presses'[b]) \in Nat
    <2>1. Types'
        BY TypesStep
    <2>2. presses'[b] \in Seq(Button)
        BY <2>1 DEF Types, Buttons
    <2>3. Len(presses'[b]) \in Nat
        BY <2>2
    <2>4. offset'.db[b] \in Nat /\ confirmed'[b] \in Nat
        BY <2>1 DEF Types, Times
    <2>5. offset.db[b] \in Nat /\ offset.mem[b] \in Nat /\ confirmed[b] \in Nat /\ Len(presses[b]) \in Nat
        BY Lengths DEF Types, Times
    <2> QED BY <2>3, <2>4, <2>5, SavedGrows
<1>1. CASE OutsideStep
    <2>1. Len(presses'[b]) >= Len(presses[b]) /\ confirmed'[b] >= confirmed[b]
        BY <1>1 DEF OutsideStep
    <2>2. poller' = poller /\ offset' = offset
        BY <1>1 DEF OutsideStep
    <2>3. i <= Len(presses'[b]) /\ (i <= confirmed[b] => i <= confirmed'[b])
        <3>1. PICK l \in Nat, m \in Nat, c \in Nat, d \in Nat :
                l = Len(presses[b]) /\ m = Len(presses'[b]) /\ c = confirmed[b] /\ d = confirmed'[b]
            BY <1>0
        <3>2. i <= l
            BY <3>1 DEF OutOfTheWay
        <3> QED BY <2>1, <3>1, <3>2, SMTT(30)
    <2> QED BY <2>2, <2>3 DEF OutOfTheWay, Settled, AtWorker, Batch
<1>2. ASSUME NEW a \in Bots, PollerStep(a) PROVE OutOfTheWay(b, i)'
    <2>0. Same
        BY <1>2 DEF PollerStep, StartsStep, AsksStep, AnsweredStep, DroppedStep, HandledStep, SentStep,
                    ReturnedStep, StoppedStep, DiedStep
    <2>1. i <= Len(presses'[b])
        BY <2>0 DEF Same, OutOfTheWay
    <2>2. confirmed'[b] >= confirmed[b]
        <3>1. confirmed' = confirmed \/ AsksStep(a)
            BY <1>2 DEF PollerStep, StartsStep, AnsweredStep, DroppedStep, HandledStep, SentStep, ReturnedStep,
                        StoppedStep, DiedStep
        <3> QED BY <1>0, <3>1 DEF AsksStep
    <2>3. i <= offset.db[b] => i <= offset'.db[b]
        BY <1>0, SMTT(30)
    <2>4. i <= confirmed[b] => i <= confirmed'[b]
        BY <1>0, <2>2
    <2>5. CASE DiedStep(a)
        <3>1. poller'[b].at = "off" /\ Batch(b)' = << >> /\ ~poller[b].draining
            BY <2>5 DEF DiedStep, Batch, MayStop
        <3> QED BY <2>1, <2>3, <2>4, <3>1, EmptyBatch DEF OutOfTheWay, Settled, AtWorker
    <2>6. CASE ~DiedStep(a) /\ a # b
        <3>1. poller'[b] = poller[b]
            BY <1>2, <2>6, OthersKept
        <3> QED BY <2>1, <2>3, <2>4, <3>1 DEF OutOfTheWay, Settled, AtWorker, Batch
    <2>7. CASE ~DiedStep(a) /\ a = b
        <3>1. CASE StartsStep(b)
            <4>1. poller[b].at = "off" /\ poller'[b].at = "loop" /\ Batch(b)' = << >>
                BY <3>1 DEF StartsStep, MovesTo, Batch
            <4> QED BY <2>1, <2>3, <2>4, <4>1, EmptyBatch DEF OutOfTheWay, Settled, AtWorker
        <3>2. CASE AsksStep(b)
            <4>1. /\ poller'[b].at \in {"loop", "asked"} /\ Batch(b)' = << >>
                  /\ poller'[b].draining = poller[b].draining
                BY <3>2 DEF AsksStep, MovesTo, Batch
            <4> QED BY <2>1, <2>3, <2>4, <4>1, EmptyBatch DEF OutOfTheWay, Settled, AtWorker
        <3>3. CASE AnsweredStep(b)
            <4>1. PICK s \in Batches : /\ s = Answer(b) /\ Batch(b)' = s
                                       /\ poller'[b].at = IF s = << >> THEN "loop" ELSE "update"
                                       /\ poller'[b].draining = (poller[b].draining /\ s # << >>)
                BY <3>3, AnswerIs DEF AnsweredStep, MovesTo, Batch
            <4>2. PICK f \in Nat : /\ f = From(b) /\ f >= confirmed[b]
                                   /\ f = offset.mem[b] \/ f = confirmed[b]
                                   /\ \A k \in DOMAIN s : s[k] = f + k /\ k \in Nat /\ k # 0
                                   /\ s = << >> => f >= Len(presses[b])
                BY <4>1, AnswerIs, SMTT(30)
            <4>3. poller[b].at # "off" /\ offset.mem[b] = offset.db[b] /\ i <= Len(presses[b])
                BY <3>3 DEF AnsweredStep, InHand, Held, OutOfTheWay
            <4>4. ~AtWorker(b)' /\ poller'[b].at # "off"
                BY <4>1 DEF AtWorker
            <4>5. CASE i <= offset.db[b]
                BY <2>1, <2>3, <4>4, <4>5 DEF OutOfTheWay, Settled
            <4>6. CASE i <= confirmed[b]
                <5>1. \A k \in DOMAIN s : s[k] # i
                    BY <1>0, <4>2, <4>6, SMTT(30)
                <5> QED BY <2>1, <2>4, <4>1, <4>4, <4>6, <5>1 DEF OutOfTheWay, Settled
            <4>7. CASE poller[b].draining /\ s # << >>
                BY <2>1, <4>1, <4>4, <4>7 DEF OutOfTheWay, Settled
            <4>8. CASE s = << >>
                BY <1>0, <4>2, <4>3, <4>5, <4>6, <4>8, SMTT(30)
            <4> QED BY <4>5, <4>6, <4>7, <4>8 DEF OutOfTheWay, Settled
        <3>4. CASE DroppedStep(b) \/ HandledStep(b) \/ ReturnedStep(b)
            <4>1. Advances(b) /\ Batch(b) # << >> /\ Held(b)
                BY <3>4 DEF DroppedStep, HandledStep, ReturnedStep, AtWorker, Types, WellFormed, Batch, InHand
            <4>2. /\ poller'[b].at \in {"loop", "update"} /\ poller'[b].draining = poller[b].draining
                  /\ \A k \in DOMAIN Batch(b)' : \E j \in DOMAIN Batch(b) : Batch(b)'[k] = Batch(b)[j]
                BY <4>1, Advanced
            <4> QED BY <2>1, <2>3, <2>4, <4>2 DEF OutOfTheWay, Settled, AtWorker
        <3>5. CASE SentStep(b)
            <4>1. Batch(b)' = Batch(b) /\ poller'[b].at = "worker" /\ poller'[b].draining = poller[b].draining
                BY <3>5 DEF SentStep, MovesTo, Batch
            <4>2. Batch(b)[1] # i
                BY <3>5, NotInTheWay DEF SentStep
            <4> QED BY <2>1, <2>3, <2>4, <4>1, <4>2 DEF OutOfTheWay, Settled, AtWorker
        <3>6. CASE StoppedStep(b)
            <4>1. poller'[b].at = "off" /\ Batch(b)' = << >> /\ ~poller[b].draining
                BY <3>6 DEF StoppedStep, MovesTo, Batch, MayStop
            <4> QED BY <2>1, <2>3, <2>4, <4>1, EmptyBatch DEF OutOfTheWay, Settled, AtWorker
        <3> QED BY <1>2, <2>7, <3>1, <3>2, <3>3, <3>4, <3>5, <3>6 DEF PollerStep
    <2> QED BY <2>5, <2>6, <2>7
<1> QED BY <1>1, <1>2, Steps

(* A poller that begins after an outage drops all that waited meanwhile. *)
LEMMA WaitedIsDropped ==
    ASSUME TelegramOK, Types, InHand, Pressed, AliveInv, [Next]_vars,
           NEW b \in Bots, NEW i \in Nat, <<b, i>> \in late' \ late
    PROVE  OutOfTheWay(b, i)' /\ StartsStep(b) /\ i > offset.db[b]
<1>1. PICK c \in Bots : StartsStep(c)
    BY Steps DEF PollerStep, OutsideStep, DroppedStep, AsksStep, AnsweredStep, HandledStep, SentStep,
                 ReturnedStep, StoppedStep, DiedStep
<1>2. gap'[c] > Stale /\ <<b, i>> \in {<<c, j>> : j \in Waiting(c, offset'.mem[c])}
    BY <1>1 DEF StartsStep
<1>3. c = b /\ i \in Waiting(b, offset'.mem[b]) /\ gap'[b] > Stale
    BY <1>2
<1>4. offset'.mem[b] = offset.db[b] /\ offset.db[b] \in Nat /\ Len(presses[b]) \in Nat
    BY <1>1, <1>3, Lengths DEF StartsStep, Types, Times, InHand, Held
<1>5. i > offset.db[b] /\ i <= Len(presses[b])
    BY <1>3, <1>4 DEF Waiting
<1>6. gap'[b] = IF polled[b] = 0 THEN 0 ELSE clock - polled[b]
    BY <1>1, <1>3 DEF StartsStep, Types, Times
<1>7. LongOff(b)
    BY <1>3, <1>6, OutageIsLong DEF AliveInv
<1>8. poller'[b].at = "loop" /\ poller'[b].draining /\ presses' = presses
    BY <1>1, <1>3, <1>7 DEF StartsStep, MovesTo, Same
<1> QED BY <1>1, <1>3, <1>5, <1>8 DEF OutOfTheWay, Settled, AtWorker

LEMMA LateStep ==
    ASSUME TelegramOK, Types, InHand, Pressed, AliveInv, LateInv, StaleNeverRun, "interrupt" \notin Faults,
           [Next]_vars
    PROVE  LateInv' /\ StaleNeverRun'
<1>1. LateInv'
    <2> SUFFICES ASSUME NEW b \in Bots, NEW i \in Nat, <<b, i>> \in late' PROVE OutOfTheWay(b, i)'
        BY DEF LateInv
    <2>1. CASE <<b, i>> \in late
        BY <2>1, StaysOut DEF LateInv
    <2>2. CASE <<b, i>> \notin late
        BY <2>2, WaitedIsDropped
    <2> QED BY <2>1, <2>2
<1>2. \A n \in DOMAIN acts : acts'[n] = acts[n] /\ acts[n].press \notin late'
    <2> SUFFICES ASSUME NEW n \in DOMAIN acts PROVE acts'[n] = acts[n] /\ acts[n].press \notin late'
        OBVIOUS
    <2>1. acts'[n] = acts[n] /\ acts[n].press \notin late
        BY TakenStep DEF Pressed, StaleNeverRun
    <2>2. PICK b \in Bots, i \in Nat : /\ acts[n].press = <<b, i>> /\ i <= offset.db[b] /\ offset.db[b] \in Nat
        BY ActFields DEF Act, Pressed, Taken
    <2>3. <<b, i>> \notin late' \ late
        BY <2>2, WaitedIsDropped
    <2> QED BY <2>1, <2>2, <2>3
<1>3. CASE acts' = acts
    BY <1>1, <1>2, <1>3 DEF StaleNeverRun
<1>4. ASSUME NEW b \in Bots, PollerStep(b), Adds(b) PROVE StaleNeverRun'
    <2>1. PICK a \in Act, m \in Nat : /\ a.press = <<b, Batch(b)[1]>> /\ m = Len(acts) /\ DOMAIN acts = 1..m
                                      /\ DOMAIN acts' = 1..(m + 1) /\ acts'[m + 1] = a
        BY <1>4, RecordsOne DEF Adds
    <2>2. acts' # acts
        <3>1. m + 1 \in DOMAIN acts' /\ m + 1 \notin DOMAIN acts
            BY <2>1
        <3> QED BY <3>1
    <2>3. late' = late /\ (AtWorker(b) \/ (poller[b].at = "update" /\ ~poller[b].draining))
        BY <1>4, <2>2 DEF PollerStep, StartsStep, AsksStep, AnsweredStep, DroppedStep, HandledStep, SentStep,
                    ReturnedStep, StoppedStep, DiedStep, Adds
    <2>4. Batch(b)[1] \in Nat
        BY <2>3, HandIsPress DEF Types, WellFormed, AtWorker, Batch
    <2>5. <<b, Batch(b)[1]>> \notin late
        BY <2>3, <2>4, NotInTheWay DEF LateInv
    <2>6. \A n \in DOMAIN acts' : n \in DOMAIN acts \/ n = m + 1
        BY <2>1
    <2> QED BY <1>2, <2>1, <2>3, <2>5, <2>6 DEF StaleNeverRun
<1> QED BY <1>1, <1>3, <1>4, StepAdds

(* A press that waited through an outage is never acted on, as long as a    *)
(* poller that drops such presses is let finish.                            *)
THEOREM StalePressesDropped ==
    ASSUME TelegramOK, "interrupt" \notin Faults
    PROVE  Spec => []StaleNeverRun
<1>1. Init => Pressed /\ AtMostOnce /\ LateInv /\ StaleNeverRun
    BY DEF Init, Pressed, AtMostOnce, LateInv, StaleNeverRun
<1>2. Types /\ InHand /\ Pressed /\ AtMostOnce /\ [Next]_vars => Pressed' /\ AtMostOnce'
    BY PressedStep
<1>3. Types /\ InHand /\ Pressed /\ AliveInv /\ LateInv /\ StaleNeverRun /\ [Next]_vars
      => LateInv' /\ StaleNeverRun'
    BY LateStep
<1> QED BY <1>1, <1>2, <1>3, InHandInvariant, AliveInvariant, PTL DEF Spec

----------------------------------------------------------------------------
(* A job is not requeued twice within Guard                                *)

Requeued(a, job) == a.what = "requeue" /\ a.job = job

(* What was done lies in the past, and the guard on disk is not older than  *)
(* the last requeue of a worker's job.                                      *)
Guarded(a) ==
    /\ 0 < a.at /\ a.at <= clock
    /\ \A job \in WorkerJobs : Requeued(a, job) => guard.db[job] >= a.at

(* A worker is asked by one bot at a time, and for nothing that was done within Guard. *)
Pending(b) ==
    LET p == presses[b][Batch(b)[1]]
    IN  /\ p.job \in WorkerJobs /\ poller[b].since <= clock
        /\ p.what = "requeue" => \A n \in DOMAIN acts : Requeued(acts[n], p.job)
                                                       => poller[b].since - acts[n].at > Guard

GuardInv ==
    /\ \A n \in DOMAIN acts : Guarded(acts[n])
    /\ \A b \in Bots : AtWorker(b) => Pending(b)
    /\ \A b, c \in Bots : AtWorker(b) /\ AtWorker(c) => b = c

LEMMA GuardTypes ==
    ASSUME TelegramOK, Types
    PROVE  /\ clock \in Nat /\ clock > 0 /\ Guard \in Nat
           /\ guard.db \in [Jobs -> Nat] /\ WorkerJobs \subseteq Jobs
           /\ \A b \in Bots : poller[b].since \in Nat
           /\ \A n \in DOMAIN acts : acts[n].at \in Nat
<1>1. AliveSave \in Nat /\ AliveSave > 0 /\ Guard \in Nat /\ clock \in Nat /\ clock >= AliveSave
    BY DEF TelegramOK, Types
<1>2. \A b \in Bots : poller[b].since \in Nat
    BY DEF Types, Poller
<1>3. \A n \in DOMAIN acts : acts[n].at \in Nat
    BY ActFields
<1>4. guard.db \in [Jobs -> Nat] /\ WorkerJobs \subseteq Jobs
    BY DEF Types, Jobs
<1> QED BY <1>1, <1>2, <1>3, <1>4

(* A bot that goes on waiting for a worker still waits for what nobody did. *)
LEMMA PendingKept ==
    ASSUME TelegramOK, Types, GuardInv, UNCHANGED <<acts, presses, clock>>,
           NEW c \in Bots, AtWorker(c), poller'[c] = poller[c]
    PROVE  Pending(c)'
    BY DEF GuardInv, Pending, Batch

(* A job of the worker is not on its way twice: what the disk remembers is    *)
(* asked first.                                                             *)
LEMMA SentIsFree ==
    ASSUME TelegramOK, Types, GuardInv, NEW b \in Bots, SentStep(b)
    PROVE  Pending(b)'
<1> DEFINE p == presses[b][Batch(b)[1]]
<1>1. p.job \in WorkerJobs /\ (p.what = "requeue" => ~RequeuedThere(p.job))
    BY DEF SentStep
<1>2. presses' = presses /\ Batch(b)' = Batch(b) /\ poller'[b].since = clock /\ acts' = acts /\ clock' = clock
    BY DEF SentStep, MovesTo, Batch, Same
<1>3. p.job \in Jobs /\ guard.db[p.job] \in Nat
    BY <1>1, GuardTypes
<1>4. ASSUME p.what = "requeue", NEW n \in DOMAIN acts, Requeued(acts[n], p.job)
      PROVE  clock - acts[n].at > Guard
    <2>1. PICK k \in Nat, t \in Nat, g \in Nat, G \in Nat :
            k = clock /\ t = acts[n].at /\ g = guard.db[p.job] /\ G = Guard
        BY <1>3, GuardTypes
    <2>2. 0 < t /\ g >= t
        BY <1>1, <1>4, <2>1 DEF GuardInv, Guarded
    <2>3. g = 0 \/ ~(k - g <= G)
        BY <1>1, <1>4, <2>1 DEF RequeuedThere
    <2>4. k - t > G
        BY <2>2, <2>3
    <2> QED BY <2>1, <2>4
<1>5. clock <= clock
    BY GuardTypes
<1>6. /\ p.job \in WorkerJobs /\ clock <= clock
      /\ p.what = "requeue" => \A n \in DOMAIN acts : Requeued(acts[n], p.job) => clock - acts[n].at > Guard
    BY <1>1, <1>4, <1>5
<1> QED BY <1>2, <1>6 DEF Pending

(* What a step adds was requeued by nobody within Guard. *)
Free(a) == a.what = "requeue" => \A n \in DOMAIN acts : Requeued(acts[n], a.job) => clock - acts[n].at > Guard

LEMMA AddsFree ==
    ASSUME TelegramOK, Types, GuardInv, "unanswered" \notin Faults, NEW b \in Bots, PollerStep(b), acts' # acts
    PROVE  /\ \E a \in Act, m \in Nat :
                /\ DOMAIN acts = 1..m /\ DOMAIN acts' = 1..(m + 1) /\ acts'[m + 1] = a
                /\ \A n \in DOMAIN acts : acts'[n] = acts[n] /\ n \in DOMAIN acts'
                /\ a.at = clock /\ Free(a)
                /\ \/ a.job \in LocalJobs /\ HandledStep(b)
                   \/ /\ ReturnedStep(b) /\ a.job \in WorkerJobs
                      /\ guard'.db = IF a.what = "requeue" THEN [guard.db EXCEPT ![a.job] = clock] ELSE guard.db
<1>1. CASE HandledStep(b)
    <2> DEFINE p == presses[b][Batch(b)[1]]
    <2>1. Records(b) /\ p.job \in LocalJobs /\ (p.what = "requeue" => ~RequeuedHere(p.job))
        BY <1>1 DEF HandledStep
    <2>2. PICK a \in Act, m \in Nat :
                /\ a.at = clock /\ a.what = p.what /\ a.job = p.job
                /\ m = Len(acts) /\ DOMAIN acts = 1..m /\ DOMAIN acts' = 1..(m + 1) /\ acts'[m + 1] = a
                /\ \A n \in DOMAIN acts : acts'[n] = acts[n] /\ n \in DOMAIN acts'
        BY <2>1, RecordsOne
    <2>3. Free(a)
        <3> SUFFICES ASSUME a.what = "requeue", NEW n \in DOMAIN acts, Requeued(acts[n], a.job)
                     PROVE  clock - acts[n].at > Guard
            BY DEF Free
        <3>1. ~(clock - acts[n].at <= Guard)
            BY <2>1, <2>2 DEF RequeuedHere, Requeued
        <3> QED BY <3>1, GuardTypes
    <2> QED BY <1>1, <2>1, <2>2, <2>3
<1>2. CASE ReturnedStep(b)
    <2> DEFINE p == presses[b][Batch(b)[1]]
    <2>1. /\ Records(b)
          /\ guard'.db = IF p.what = "requeue" THEN [guard.db EXCEPT ![p.job] = clock] ELSE guard.db
        BY <1>2 DEF ReturnedStep
    <2>2. PICK a \in Act, m \in Nat :
                /\ a.at = clock /\ a.what = p.what /\ a.job = p.job
                /\ m = Len(acts) /\ DOMAIN acts = 1..m /\ DOMAIN acts' = 1..(m + 1) /\ acts'[m + 1] = a
                /\ \A n \in DOMAIN acts : acts'[n] = acts[n] /\ n \in DOMAIN acts'
        BY <2>1, RecordsOne
    <2>3. Pending(b)
        BY <1>2 DEF ReturnedStep, GuardInv
    <2>4. Free(a)
        <3> SUFFICES ASSUME a.what = "requeue", NEW n \in DOMAIN acts, Requeued(acts[n], a.job)
                     PROVE  clock - acts[n].at > Guard
            BY DEF Free
        <3>1. PICK k \in Nat, t \in Nat, s \in Nat, G \in Nat :
                k = clock /\ t = acts[n].at /\ s = poller[b].since /\ G = Guard
            BY GuardTypes
        <3>2. s - t > G /\ s <= k
            BY <2>2, <2>3, <3>1 DEF Pending
        <3>3. k - t > G
            BY <3>2
        <3> QED BY <3>1, <3>3
    <2>5. a.job \in WorkerJobs
        BY <2>2, <2>3 DEF Pending
    <2> QED BY <1>2, <2>1, <2>2, <2>4, <2>5
<1> QED BY <1>1, <1>2 DEF PollerStep, StartsStep, AsksStep, AnsweredStep, DroppedStep, SentStep,
                          StoppedStep, DiedStep

LEMMA GuardQuietStep ==
    ASSUME TelegramOK, Types, GuardInv, "race" \notin Faults, "unanswered" \notin Faults,
           NEW b \in Bots, PollerStep(b), acts' = acts
    PROVE  GuardInv'
<1>0. Same
    BY DEF PollerStep, StartsStep, AsksStep, AnsweredStep, DroppedStep, HandledStep, SentStep,
           ReturnedStep, StoppedStep, DiedStep
<1>1. guard'.db = guard.db
    <2>1. CASE ReturnedStep(b)
        <3>1. ~Records(b)
            <4>1. ASSUME Records(b) PROVE FALSE
                <5>1. PICK m \in Nat : DOMAIN acts = 1..m /\ DOMAIN acts' = 1..(m + 1)
                    BY <4>1, RecordsOne
                <5>2. m + 1 \in DOMAIN acts' /\ m + 1 \notin DOMAIN acts
                    BY <5>1
                <5> QED BY <5>2
            <4> QED BY <4>1
        <3> QED BY <2>1, <3>1 DEF ReturnedStep
    <2>2. CASE ~ReturnedStep(b)
        BY <2>2 DEF PollerStep, StartsStep, AsksStep, AnsweredStep, DroppedStep, HandledStep, SentStep,
                    StoppedStep, DiedStep
    <2> QED BY <2>1, <2>2
<1>2. \A n \in DOMAIN acts' : Guarded(acts[n])'
    BY <1>0, <1>1 DEF GuardInv, Guarded, Same
<1>3. \A c \in Bots : AtWorker(c)' => (AtWorker(c) /\ poller'[c] = poller[c]) \/ (c = b /\ SentStep(b))
    <2> SUFFICES ASSUME NEW c \in Bots, AtWorker(c)', ~(c = b /\ SentStep(b))
                 PROVE  AtWorker(c) /\ poller'[c] = poller[c]
        OBVIOUS
    <2>1. ~DiedStep(b)
        BY DEF DiedStep, AtWorker
    <2>2. c # b
        <3>1. ASSUME c = b PROVE FALSE
            <4>1. ~(DroppedStep(b) \/ HandledStep(b) \/ ReturnedStep(b))
                BY <3>1 DEF DroppedStep, HandledStep, ReturnedStep, Advances, MovesTo, AtWorker
            <4>2. ~(StartsStep(b) \/ AsksStep(b) \/ AnsweredStep(b) \/ StoppedStep(b))
                BY <3>1 DEF StartsStep, AsksStep, AnsweredStep, StoppedStep, MovesTo, AtWorker
            <4> QED BY <2>1, <3>1, <4>1, <4>2 DEF PollerStep
        <3> QED BY <3>1
    <2>3. poller'[c] = poller[c]
        BY <2>1, <2>2, OthersKept
    <2> QED BY <2>3 DEF AtWorker
<1>4. SentStep(b) => ~\E c \in Bots : AtWorker(c)
    BY DEF SentStep, AtWorker
<1>5. \A c \in Bots : AtWorker(c)' => Pending(c)'
    <2> SUFFICES ASSUME NEW c \in Bots, AtWorker(c)' PROVE Pending(c)'
        OBVIOUS
    <2>1. CASE AtWorker(c) /\ poller'[c] = poller[c]
        BY <1>0, <2>1, PendingKept DEF Same
    <2>2. CASE c = b /\ SentStep(b)
        BY <2>2, SentIsFree
    <2> QED BY <1>3, <2>1, <2>2
<1>6. \A c, d \in Bots : AtWorker(c)' /\ AtWorker(d)' => c = d
    BY <1>3, <1>4 DEF GuardInv
<1> QED BY <1>2, <1>5, <1>6 DEF GuardInv

LEMMA GuardAddStep ==
    ASSUME TelegramOK, Types, GuardInv, "race" \notin Faults, "unanswered" \notin Faults,
           NEW b \in Bots, PollerStep(b), acts' # acts
    PROVE  GuardInv'
<1>0. Same
    BY DEF PollerStep, StartsStep, AsksStep, AnsweredStep, DroppedStep, HandledStep, SentStep,
           ReturnedStep, StoppedStep, DiedStep
<1>1. PICK a \in Act, m \in Nat :
        /\ DOMAIN acts = 1..m /\ DOMAIN acts' = 1..(m + 1) /\ acts'[m + 1] = a
        /\ \A n \in DOMAIN acts : acts'[n] = acts[n] /\ n \in DOMAIN acts'
        /\ a.at = clock
        /\ \/ a.job \in LocalJobs /\ HandledStep(b)
           \/ /\ ReturnedStep(b) /\ a.job \in WorkerJobs
              /\ guard'.db = IF a.what = "requeue" THEN [guard.db EXCEPT ![a.job] = clock] ELSE guard.db
    BY AddsFree
<1>2. \A n \in DOMAIN acts' : n \in DOMAIN acts \/ n = m + 1
    BY <1>1
<1>3. clock' = clock /\ clock \in Nat /\ clock > 0 /\ LocalJobs \cap WorkerJobs = {} /\ presses' = presses
    BY <1>0, GuardTypes DEF Same, TelegramOK
<1>4. \A job \in WorkerJobs : /\ guard'.db[job] = guard.db[job] \/ guard'.db[job] = clock
                              /\ Requeued(a, job) => guard'.db[job] = clock
    <2> SUFFICES ASSUME NEW job \in WorkerJobs
                 PROVE  /\ guard'.db[job] = guard.db[job] \/ guard'.db[job] = clock
                        /\ Requeued(a, job) => guard'.db[job] = clock
        OBVIOUS
    <2>1. CASE HandledStep(b) /\ a.job \in LocalJobs
        BY <1>3, <2>1 DEF HandledStep, Requeued
    <2>2. CASE guard'.db = IF a.what = "requeue" THEN [guard.db EXCEPT ![a.job] = clock] ELSE guard.db
        BY <2>2, GuardTypes DEF Requeued
    <2> QED BY <1>1, <2>1, <2>2
<1>5. ASSUME NEW n \in DOMAIN acts' PROVE Guarded(acts[n])'
    <2>1. CASE n \in DOMAIN acts
        <3>1. acts'[n] = acts[n] /\ Guarded(acts[n])
            BY <1>1, <2>1 DEF GuardInv
        <3>2. ASSUME NEW job \in WorkerJobs, Requeued(acts[n], job) PROVE guard'.db[job] >= acts[n].at
            BY <1>3, <1>4, <2>1, <3>1, <3>2, GuardTypes DEF Guarded
        <3> QED BY <1>3, <3>1, <3>2 DEF Guarded
    <2>2. CASE n = m + 1
        <3>1. ASSUME NEW job \in WorkerJobs, Requeued(a, job) PROVE guard'.db[job] >= a.at
            BY <1>1, <1>3, <1>4, <3>1
        <3> QED BY <1>1, <1>3, <2>2, <3>1 DEF Guarded
    <2> QED BY <1>2, <2>1, <2>2
<1>6. ~AtWorker(b)' /\ \A c \in Bots : c # b => poller'[c] = poller[c]
    BY <1>1 DEF HandledStep, ReturnedStep, Advances, MovesTo, AtWorker
<1>7. \A c \in Bots : AtWorker(c)' => AtWorker(c) /\ poller'[c] = poller[c] /\ c # b
    BY <1>6 DEF AtWorker
<1>8. ASSUME NEW c \in Bots, AtWorker(c)' PROVE Pending(c)'
    <2>1. AtWorker(c) /\ poller'[c] = poller[c] /\ c # b /\ Pending(c)
        BY <1>7, <1>8 DEF GuardInv
    <2>2. a.job \in LocalJobs
        BY <1>1, <2>1 DEF ReturnedStep, GuardInv
    <2> DEFINE p == presses[c][Batch(c)[1]]
    <2>3. p.job \in WorkerJobs /\ p.job \notin LocalJobs
        BY <1>3, <2>1 DEF Pending
    <2>4. ASSUME p.what = "requeue", NEW n \in DOMAIN acts', Requeued(acts'[n], p.job)
          PROVE  n \in DOMAIN acts /\ acts'[n] = acts[n] /\ poller[c].since - acts[n].at > Guard
        <3>1. n # m + 1
            BY <1>1, <2>2, <2>3, <2>4 DEF Requeued
        <3>2. n \in DOMAIN acts /\ acts'[n] = acts[n]
            BY <1>1, <1>2, <3>1
        <3> QED BY <2>1, <2>4, <3>2 DEF Pending
    <2>5. Batch(c)' = Batch(c)
        BY <2>1 DEF Batch
    <2>6. p.job \in WorkerJobs /\ poller'[c].since <= clock
        BY <2>1 DEF Pending
    <2>7. p.what = "requeue" => \A n \in DOMAIN acts' : Requeued(acts'[n], p.job)
                                                       => poller'[c].since - acts'[n].at > Guard
        BY <2>1, <2>4
    <2> QED BY <1>3, <2>5, <2>6, <2>7 DEF Pending
<1>9. \A c, d \in Bots : AtWorker(c)' /\ AtWorker(d)' => c = d
    BY <1>7 DEF GuardInv
<1> QED BY <1>5, <1>8, <1>9 DEF GuardInv

LEMMA GuardStep ==
    ASSUME TelegramOK, Types, GuardInv, "race" \notin Faults, "unanswered" \notin Faults, [Next]_vars
    PROVE  GuardInv'
<1>1. CASE OutsideStep
    <2>1. UNCHANGED <<poller, acts, guard>> /\ clock' \in Nat /\ clock' >= clock
        BY <1>1 DEF OutsideStep
    <2>2. ASSUME NEW n \in DOMAIN acts PROVE Guarded(acts[n])'
        <3>1. Guarded(acts[n]) /\ acts[n].at <= clock'
            BY <2>1, GuardTypes DEF GuardInv, Guarded
        <3> QED BY <2>1, <3>1 DEF Guarded
    <2>3. ASSUME NEW b \in Bots, AtWorker(b) PROVE Pending(b)'
        <3>1. Batch(b)' = Batch(b) /\ Batch(b) # << >>
            BY <2>1, <2>3 DEF AtWorker, Types, WellFormed, Batch
        <3>2. presses'[b][Batch(b)[1]] = presses[b][Batch(b)[1]]
            BY <1>1, <3>1, HandIsPress DEF OutsideStep
        <3>3. Pending(b) /\ poller[b].since <= clock'
            BY <2>1, <2>3, GuardTypes DEF GuardInv, Pending
        <3> QED BY <2>1, <3>1, <3>2, <3>3 DEF Pending
    <2> QED BY <2>1, <2>2, <2>3 DEF GuardInv, AtWorker
<1> QED BY <1>1, Steps, GuardQuietStep, GuardAddStep

LEMMA DoubleStep ==
    ASSUME TelegramOK, Types, GuardInv, NoDoubleRequeue, "unanswered" \notin Faults, [Next]_vars
    PROVE  NoDoubleRequeue'
<1>1. CASE acts' = acts
    BY <1>1 DEF NoDoubleRequeue
<1>2. ASSUME NEW b \in Bots, PollerStep(b), acts' # acts PROVE NoDoubleRequeue'
    <2>1. PICK a \in Act, k \in Nat :
            /\ DOMAIN acts = 1..k /\ DOMAIN acts' = 1..(k + 1) /\ acts'[k + 1] = a
            /\ \A n \in DOMAIN acts : acts'[n] = acts[n] /\ n \in DOMAIN acts'
            /\ a.at = clock /\ Free(a)
        BY <1>2, AddsFree
    <2> SUFFICES ASSUME NEW m \in DOMAIN acts', NEW n \in DOMAIN acts', m < n,
                        acts'[m].what = "requeue", acts'[n].what = "requeue", acts'[m].job = acts'[n].job
                 PROVE  acts'[n].at - acts'[m].at > Guard
        BY DEF NoDoubleRequeue
    <2>2. m \in DOMAIN acts /\ acts'[m] = acts[m]
        BY <2>1
    <2>3. CASE n \in DOMAIN acts
        BY <2>1, <2>2, <2>3 DEF NoDoubleRequeue
    <2>4. CASE n = k + 1
        BY <2>1, <2>2, <2>4 DEF Free, Requeued
    <2> QED BY <2>1, <2>3, <2>4
<1> QED BY <1>1, <1>2, StepAdds

(* Two requeues of a job lie further apart than Guard, here and on a worker, *)
(* whatever restarts between them, as long as a worker's answers arrive and  *)
(* no two bots ask it at once.                                               *)
THEOREM RequeuesGuarded ==
    ASSUME TelegramOK, "race" \notin Faults, "unanswered" \notin Faults
    PROVE  Spec => []NoDoubleRequeue
<1>1. Init => GuardInv /\ NoDoubleRequeue
    BY DEF Init, GuardInv, NoDoubleRequeue, AtWorker, Off
<1>2. Types /\ GuardInv /\ NoDoubleRequeue /\ [Next]_vars => GuardInv' /\ NoDoubleRequeue'
    BY GuardStep, DoubleStep
<1> QED BY <1>1, <1>2, TypesInvariant, PTL DEF Spec

----------------------------------------------------------------------------
(* The type invariant                                                      *)

Names == Seq(Bots \X Nat)

(* What the bounds of the model and of the daemon's memory allow. *)
Bounded ==
    /\ clock <= MaxTime /\ pairing \in BOOLEAN /\ known <= epoch
    /\ seen \in Names /\ Len(seen) <= SeenMax

(* No id is known that no press has. *)
Reached == \A b \in Bots : {confirmed[b], offset.db[b], offset.mem[b]} \subseteq 0..Len(presses[b])

LEMMA Forgets ==
    ASSUME TelegramOK, NEW s \in Names, Len(s) <= SeenMax, NEW key \in Bots \X Nat, seen = s, Remember(key)
    PROVE  seen' \in Names /\ Len(seen') <= SeenMax
<1> DEFINE longer == Append(s, key)
<1>1. longer \in Names /\ Len(longer) = Len(s) + 1 /\ Len(s) \in Nat
    BY DEF Names
<1>2. seen' = IF Len(longer) > SeenMax THEN SubSeq(longer, (SeenMax \div 2) + 1, Len(longer)) ELSE longer
    BY DEF Remember
<1>3. PICK m \in Nat \ {0, 1}, h \in Nat \ {0} : m = SeenMax /\ h = SeenMax \div 2 /\ h <= m
    <2>1. SeenMax \in Nat \ {0, 1}
        BY DEF TelegramOK
    <2>2. SeenMax \div 2 \in Nat \ {0} /\ SeenMax \div 2 <= SeenMax
        BY <2>1
    <2> QED BY <2>1, <2>2
<1>4. PICK l \in Nat : l = Len(longer)
    BY <1>1
<1> HIDE DEF longer
<1>5. CASE l > m
    <2>1. seen' = SubSeq(longer, h + 1, l)
        <3>1. Len(longer) > SeenMax
            BY <1>3, <1>4, <1>5
        <3> QED BY <1>2, <1>3, <1>4, <3>1
    <2>0. l = m + 1
        <3>1. PICK n \in Nat : n = Len(s)
            BY <1>1
        <3>2. n <= m /\ l = n + 1
            BY <1>1, <1>3, <1>4, <3>1
        <3> QED BY <1>5, <3>2
    <2>2. SubSeq(longer, h + 1, l) \in Names /\ Len(SubSeq(longer, h + 1, l)) = l - h
        <3>1. longer \in Seq(Bots \X Nat)
            BY <1>1 DEF Names
        <3>2. h + 1 \in 1..(l + 1) /\ l \in 0..l
            BY <1>3, <2>0
        <3>3. PICK t : t = SubSeq(longer, h + 1, l)
            OBVIOUS
        <3>4. t = [k \in 1..(l - h) |-> longer[k + (h + 1) - 1]]
            BY <1>3, <3>3
        <3>5. \A k \in 1..(l - h) : longer[k + (h + 1) - 1] \in Bots \X Nat
            <4> SUFFICES ASSUME NEW k \in 1..(l - h) PROVE longer[k + (h + 1) - 1] \in Bots \X Nat
                OBVIOUS
            <4>1. k + (h + 1) - 1 \in 1..Len(longer)
                BY <1>3, <1>4, <2>0
            <4> QED BY <3>1, <4>1, ElementOf
        <3>6. t \in Seq(Bots \X Nat) /\ Len(t) = l - h
            BY <1>3, <2>0, <3>4, <3>5
        <3> QED BY <3>3, <3>6 DEF Names
    <2> QED BY <1>3, <2>0, <2>1, <2>2
<1>6. CASE ~(l > m)
    BY <1>1, <1>2, <1>3, <1>4, <1>6
<1> QED BY <1>5, <1>6

LEMMA BoundedStep ==
    ASSUME TelegramOK, Types, Bounded, [Next]_vars
    PROVE  Bounded'
<1>0. /\ clock \in Nat /\ known \in Nat /\ epoch \in Nat /\ known <= epoch /\ clock <= MaxTime /\ MaxTime \in Nat
      /\ pairing \in BOOLEAN /\ seen \in Names /\ Len(seen) <= SeenMax /\ << >> \in Names /\ 0 <= SeenMax
    BY DEF Types, Bounded, TelegramOK, Names
<1>1. CASE Tick
    BY <1>0, <1>1 DEF Tick, Bounded, memory, worker
<1>2. CASE PairingStarts \/ PairingEnds
    BY <1>0, <1>2 DEF PairingStarts, PairingEnds, Bounded, memory, worker
<1>3. CASE ResetDatabase
    BY <1>0, <1>3 DEF ResetDatabase, Bounded, memory
<1>4. CASE Watched
    BY <1>0, <1>4 DEF Watched, Bounded, memory
<1>5. CASE UNCHANGED vars
    BY <1>0, <1>5 DEF vars, Bounded, memory, worker
<1>6. ASSUME NEW b \in Bots, NEW what \in Whats, NEW job \in Jobs, NEW tag \in 1..MaxEpoch,
             Press(b, what, job, tag)
      PROVE  Bounded'
    BY <1>0, <1>6 DEF Press, Bounded, memory, worker
<1>7. ASSUME NEW b \in Bots, PairingTakes(b) \/ Starts(b) \/ Fails(b) PROVE Bounded'
    BY <1>0, <1>7 DEF PairingTakes, Starts, Fails, Bounded, memory, worker
<1>8. ASSUME NEW b \in Bots, StepsAside(b) \/ Asks(b) \/ Answered(b) PROVE Bounded'
    BY <1>0, <1>8 DEF StepsAside, Asks, Answered, Bounded, memory, worker
<1>9. ASSUME NEW b \in Bots, Update(b) PROVE Bounded'
    <2>1. UNCHANGED <<clock, pairing, known, epoch>>
        BY <1>9 DEF Update, worker
    <2>2. Batch(b) # << >> /\ Head(poller[b].batch) \in Nat
        BY <1>9, HandIsPress DEF Update, Types, WellFormed, Batch
    <2>3. seen' = seen \/ Remember(<<b, Head(poller[b].batch)>>)
        BY <1>9 DEF Update, Handle
    <2>4. <<b, Head(poller[b].batch)>> \in Bots \X Nat
        BY <2>2
    <2>5. seen' \in Names /\ Len(seen') <= SeenMax
        BY <1>0, <2>3, <2>4, Forgets
    <2> QED BY <1>0, <2>1, <2>5 DEF Bounded
<1>10. ASSUME NEW b \in Bots, WorkerAnswers(b) PROVE Bounded'
    BY <1>0, <1>10 DEF WorkerAnswers, Bounded, worker
<1>11. ASSUME NEW b \in Bots, NEW ran \in BOOLEAN, WorkerFails(b, ran) \/ Cancelled(b, ran) PROVE Bounded'
    BY <1>0, <1>11 DEF WorkerFails, Cancelled, Bounded, worker, memory
<1>12. ASSUME NEW b \in Bots, NEW ran \in BOOLEAN, DaemonDies(b, ran) PROVE Bounded'
    <2>1. seen' = << >> /\ Len(seen') = 0
        BY <1>12 DEF DaemonDies
    <2> QED BY <1>0, <1>12, <2>1 DEF DaemonDies, Bounded, worker
<1> QED BY <1>1, <1>2, <1>3, <1>4, <1>5, <1>6, <1>7, <1>8, <1>9, <1>10, <1>11, <1>12 DEF Next, Poll

LEMMA ReachedStep ==
    ASSUME TelegramOK, Types, InHand, Reached, [Next]_vars
    PROVE  Reached'
<1>0. \A c \in Bots : /\ Len(presses[c]) \in Nat /\ confirmed[c] \in 0..Len(presses[c])
                      /\ offset.db[c] \in 0..Len(presses[c]) /\ offset.mem[c] \in 0..Len(presses[c])
    BY Lengths DEF Reached
<1>1. CASE OutsideStep
    <2> SUFFICES ASSUME NEW c \in Bots
                 PROVE  {confirmed'[c], offset'.db[c], offset'.mem[c]} \subseteq 0..Len(presses'[c])
        BY DEF Reached
    <2>1. presses'[c] \in Seq(Button)
        BY <1>1 DEF OutsideStep, Buttons
    <2>2. PICK n \in Nat, m \in Nat : n = Len(presses[c]) /\ m = Len(presses'[c])
        BY <1>0, <2>1, SMTT(30)
    <2>3. m >= n
        BY <1>1, <2>2 DEF OutsideStep
    <2>4. confirmed'[c] \in {confirmed[c], n} /\ offset' = offset
        BY <1>1, <2>2 DEF OutsideStep
    <2>5. 0..n \subseteq 0..m /\ n \in 0..n
        BY <2>2, <2>3
    <2> QED BY <1>0, <2>2, <2>4, <2>5
<1>2. ASSUME NEW b \in Bots, PollerStep(b) PROVE Reached'
    <2> SUFFICES ASSUME NEW c \in Bots
                 PROVE  {confirmed'[c], offset'.db[c], offset'.mem[c]} \subseteq 0..Len(presses[c])
        BY <1>2 DEF Reached, PollerStep, StartsStep, AsksStep, AnsweredStep, DroppedStep, HandledStep, SentStep,
                    ReturnedStep, StoppedStep, DiedStep, Same
    <2>1. confirmed'[c] \in {confirmed[c], From(c)}
        BY <1>2 DEF PollerStep, StartsStep, AsksStep, AnsweredStep, DroppedStep, HandledStep, SentStep,
                    ReturnedStep, StoppedStep, DiedStep
    <2>2. From(c) \in {confirmed[c], offset.mem[c]}
        BY DEF From
    <2>3. Batch(b) # << >> => Batch(b)[1] \in 1..Len(presses[b])
        BY HandIsPress
    <2>4. poller[b].at = "update" => Batch(b) # << >>
        BY DEF Types, WellFormed, Batch
    <2>5. poller[b].at = "update" => Batch(b)[1] \in 0..Len(presses[b])
        BY <1>0, <2>3, <2>4
    <2>6. offset \in [db : Times, mem : Times]
        BY DEF Types
    <2>7. Takes(b) /\ poller[b].at = "update" => offset'.db[c] \in 0..Len(presses[c]) /\ offset'.mem[c] \in 0..Len(presses[c])
        BY <1>0, <2>5, <2>6 DEF Takes, Times
    <2>8. CASE StartsStep(b)
        BY <1>0, <2>1, <2>2, <2>6, <2>8, SMTT(30) DEF StartsStep, Times
    <2>9. CASE DiedStep(b)
        <3>1. offset'.mem[c] = 0 /\ 0 \in 0..Len(presses[c])
            BY <1>0, <2>9 DEF DiedStep, Zero
        <3>2. offset'.db[c] \in 0..Len(presses[c])
            BY <1>0, <2>5, <2>6, <2>9 DEF DiedStep, Times
        <3> QED BY <1>0, <2>1, <2>2, <3>1, <3>2
    <2>10. CASE DroppedStep(b) \/ HandledStep(b) \/ SentStep(b)
        BY <1>0, <2>1, <2>2, <2>7, <2>10 DEF DroppedStep, HandledStep, SentStep
    <2>11. CASE AsksStep(b) \/ AnsweredStep(b) \/ ReturnedStep(b) \/ StoppedStep(b)
        BY <1>0, <2>1, <2>2, <2>11 DEF AsksStep, AnsweredStep, ReturnedStep, StoppedStep
    <2> QED BY <1>2, <2>8, <2>9, <2>10, <2>11 DEF PollerStep
<1> QED BY <1>1, <1>2, Steps

LEMMA TypesGiveTypeOK ==
    ASSUME TelegramOK, Types, AliveInv, Bounded, Reached
    PROVE  TypeOK
<1>1. clock \in AliveSave..MaxTime
    BY DEF Types, Bounded, TelegramOK
<1>2. ASSUME NEW b \in Bots PROVE {alive.db[b], alive.mem[b], alive.saved[b], polled[b]} \subseteq 0..clock
    <2>1. PICK d \in Nat, m \in Nat, s \in Nat, p \in Nat, c \in Nat :
            /\ d = alive.db[b] /\ m = alive.mem[b] /\ s = alive.saved[b] /\ p = polled[b] /\ c = clock /\ p <= c
        BY DEF Types, Times
    <2>2. d <= p /\ m \in {0, p} /\ s \in {0, d}
        BY <2>1 DEF AliveInv, Lived
    <2> QED BY <2>1, <2>2
<1>3. ASSUME NEW b \in Bots
      PROVE  /\ poller[b].at \in {"off", "loop", "asked", "update", "worker"}
             /\ poller[b].at \in {"update", "worker"} <=> poller[b].batch # << >>
             /\ ToSet(poller[b].batch) \subseteq 1..Len(presses[b])
    BY DEF Types, Poller, States, WellFormed, ToSet
<1> QED BY <1>1, <1>2, <1>3 DEF TypeOK, Bounded, Reached

(* The type invariant of the listener. *)
THEOREM TypeCorrect ==
    ASSUME TelegramOK
    PROVE  Spec => []TypeOK
<1>1. Init => Bounded /\ Reached
    <2> SUFFICES ASSUME Init PROVE Bounded /\ Reached
        OBVIOUS
    <2>1. seen \in Names /\ Len(seen) = 0
        BY DEF Init, Names
    <2>2. Bounded
        <3>1. AliveSave <= MaxTime /\ SeenMax \in Nat /\ 0 <= SeenMax
            BY DEF TelegramOK
        <3>2. clock = AliveSave /\ pairing = FALSE /\ known = 1 /\ epoch = 1
            BY DEF Init
        <3>3. clock <= MaxTime /\ Len(seen) <= SeenMax
            BY <2>1, <3>1, <3>2
        <3>4. pairing \in BOOLEAN
            BY <3>2
        <3>5. known <= epoch
            BY <3>2
        <3> QED BY <2>1, <3>3, <3>4, <3>5 DEF Bounded
    <2>3. \A b \in Bots : presses[b] = << >> /\ confirmed[b] = 0 /\ offset.db[b] = 0 /\ offset.mem[b] = 0
        BY DEF Init, Zero
    <2>4. Reached
        BY <2>3 DEF Reached
    <2> QED BY <2>2, <2>4
<1>2. Types /\ Bounded /\ [Next]_vars => Bounded'
    BY BoundedStep
<1>3. Types /\ InHand /\ Reached /\ [Next]_vars => Reached'
    BY ReachedStep
<1>4. Types /\ AliveInv /\ Bounded /\ Reached => TypeOK
    BY TypesGiveTypeOK
<1> QED BY <1>1, <1>2, <1>3, <1>4, InHandInvariant, AliveInvariant, PTL DEF Spec

=============================================================================
