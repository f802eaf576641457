------------------------ MODULE RemoteWatcherProofs ------------------------
(***************************************************************************)
(* What the host watcher promises: history is not replayed, results of     *)
(* this host's own runs are stored, no event is passed in silence, and all *)
(* numbers keep within their bounds.                                       *)
(*                                                                         *)
(* Steps maps each action to the shape of what it does to the poll, the    *)
(* row and the marks; the invariants are shown of the shapes.              *)
(***************************************************************************)
EXTENDS RemoteWatcher, Integers, FiniteSetTheorems, WellFoundedInduction, TLAPS

Waits == {"idle", "probe", "alert", "polled", "read", "answered", "summary", "event", "send", "close"}
Read_ == [seq : Seqs, epoch : Nat, ev : Event]
Batches == SUBSET Read_
Head_ == [epoch : Nat, high : Nat]
Poll_ == [at : Waits, catchUp : BOOLEAN, after : Nat, pages : Nat, head : Head_, fallback : Nat,
          batch : Batches, burst : BOOLEAN]
Row == [epoch : Nat, cursor : Nat, incompatible : BOOLEAN, alerted : BOOLEAN]
Logs == Seq(Event)
Fates == [Seqs -> {"open", "told", "dropped", "history"}]

(* The types of the records TypeOK looks into. *)
Types ==
    /\ epoch \in Nat \ {0} /\ log \in Logs /\ Len(log) <= MaxSeq /\ pruned \in 0..Len(log)
    /\ host \in Row /\ poll \in Poll_ /\ fate \in Fates
    /\ jobs \subseteq Runs /\ summarised \in Nat /\ fails \in [Seqs -> Nat]
    /\ run \in [Runs -> [home : Nat, tries : Nat, pulled : BOOLEAN]]

Busy == poll.at \in {"summary", "event", "send", "close"}
Reading == poll.at \in {"read", "answered"}
Named == host.epoch = epoch
Owed == {e.seq : e \in poll.batch}

----------------------------------------------------------------------------
(* Numbers, sets and records                                               *)

LEMMA Least ==
    ASSUME NEW T \in SUBSET Nat, T # {}
    PROVE  \E x \in T : \A y \in T : x <= y
<1> DEFINE R == {ss \in Nat \X Nat : ss[1] < ss[2]}
<1>1. IsWellFoundedOn(R, Nat)
    BY NatLessThanWellFounded DEF OpToRel
<1> HIDE DEF R
<1>2. PICK x \in T : \A y \in T : ~(<<y, x>> \in R)
    BY <1>1, WFMin
<1>3. ASSUME NEW y \in T PROVE x <= y
    <2>1. <<y, x>> \in Nat \X Nat /\ <<y, x>>[1] = y /\ <<y, x>>[2] = x
        OBVIOUS
    <2>2. ~(y < x)
        BY <1>2, <2>1 DEF R
    <2> QED BY <2>2
<1> QED BY <1>3

LEMMA Greatest ==
    ASSUME NEW n \in Nat, NEW T \in SUBSET (0..n), T # {}
    PROVE  Max(T) \in T /\ \A y \in T : y <= Max(T)
<1> DEFINE U == {n - y : y \in T}
<1>1. U \in SUBSET Nat /\ U # {}
    <2>1. ASSUME NEW y \in T PROVE n - y \in Nat
        <3>1. y \in 0..n
            OBVIOUS
        <3> QED BY <3>1
    <2> QED BY <2>1
<1>2. PICK x \in U : \A y \in U : x <= y
    BY <1>1, Least
<1>3. PICK m \in T : x = n - m
    BY <1>2
<1>4. ASSUME NEW y \in T PROVE m >= y
    <2>1. n - m <= n - y
        BY <1>2, <1>3
    <2>2. m \in 0..n /\ y \in 0..n
        OBVIOUS
    <2> QED BY <2>1, <2>2
<1>5. \E z \in T : \A y \in T : z >= y
    BY <1>4
<1>6. Max(T) \in T /\ \A y \in T : Max(T) >= y
    BY <1>5 DEF Max
<1> QED BY <1>6

(* The event of a batch that is dealt with next. *)
LEMMA FirstIs ==
    ASSUME MaxSeq \in Nat, NEW b \in Batches, b # {}
    PROVE  First(b) \in b /\ First(b) \in Read_ /\ \A f \in b : First(b).seq <= f.seq
<1> DEFINE T == {e.seq : e \in b}
<1>1. T \in SUBSET Nat /\ T # {}
    BY DEF Batches, Read_, Seqs
<1>2. PICK x \in T : \A y \in T : x <= y
    BY <1>1, Least
<1>3. \E e \in b : \A f \in b : e.seq <= f.seq
    BY <1>2
<1>4. First(b) \in b /\ \A f \in b : First(b).seq <= f.seq
    BY <1>3 DEF First
<1> QED BY <1>4 DEF Batches

LEMMA LastIs ==
    ASSUME MaxSeq \in Nat, NEW b \in Batches, b # {}
    PROVE  /\ LastSeq(b) \in Seqs /\ \A f \in b : f.seq <= LastSeq(b)
           /\ \E f \in b : f.seq = LastSeq(b)
<1> DEFINE T == {e.seq : e \in b}
<1>1. T \in SUBSET (0..MaxSeq) /\ T # {} /\ T \subseteq Seqs
    BY DEF Batches, Read_, Seqs
<1>2. Max(T) \in T /\ \A y \in T : y <= Max(T)
    BY <1>1, Greatest
<1>3. LastSeq(b) = Max(T)
    BY DEF LastSeq
<1> QED BY <1>1, <1>2, <1>3

(* A batch that holds one event for a number is finite. *)
LEMMA BatchIsFinite ==
    ASSUME MaxSeq \in Nat, NEW b \in Batches, \A e, f \in b : e.seq = f.seq => e = f
    PROVE  IsFiniteSet(b)
<1> DEFINE g == [e \in b |-> e.seq]
<1>1. g \in Injection(b, Seqs)
    BY DEF Batches, Read_, Injection, IsInjective
<1>2. IsFiniteSet(Seqs)
    BY FS_Interval DEF Seqs
<1> QED BY <1>1, <1>2, FS_Injection

LEMMA LogIs ==
    ASSUME NEW l \in Logs
    PROVE  DOMAIN l = 1..Len(l) /\ Len(l) \in Nat /\ \A s \in 1..Len(l) : l[s] \in Event
    BY DEF Logs

LEMMA LongerLog ==
    ASSUME NEW l \in Logs, NEW x \in Event
    PROVE  /\ Append(l, x) \in Logs /\ Len(Append(l, x)) = Len(l) + 1 /\ Len(l) \in Nat
           /\ DOMAIN l = 1..Len(l) /\ DOMAIN Append(l, x) = 1..(Len(l) + 1)
           /\ \A s \in 1..Len(l) : Append(l, x)[s] = l[s]
    BY DEF Logs

LEMMA NoLog == << >> \in Logs /\ Len(<< >>) = 0 /\ DOMAIN << >> = {}
    BY DEF Logs

LEMMA Fields ==
    ASSUME NEW p \in Poll_
    PROVE  /\ p.at \in Waits /\ p.catchUp \in BOOLEAN /\ p.after \in Nat /\ p.pages \in Nat
           /\ p.head \in Head_ /\ p.head.epoch \in Nat /\ p.head.high \in Nat
           /\ p.fallback \in Nat /\ p.batch \in Batches /\ p.burst \in BOOLEAN
    BY DEF Poll_, Head_

LEMMA RowFields ==
    ASSUME NEW r \in Row
    PROVE  r.epoch \in Nat /\ r.cursor \in Nat
    BY DEF Row

LEMMA RestIs ==
    /\ AtRest \in Poll_ /\ AtRest.batch = {} /\ AtRest.fallback = 0 /\ AtRest.catchUp = FALSE
    /\ AtRest.pages = 0 /\ AtRest.at = "idle" /\ AtRest.burst = FALSE
    BY DEF AtRest, Poll_, Waits, Batches, NoHeader, Head_

LEMMA AtRestAt ==
    ASSUME NEW w \in Waits
    PROVE  LET p == [AtRest EXCEPT !.at = w]
           IN  p \in Poll_ /\ p.at = w /\ p.batch = {} /\ p.fallback = 0 /\ p.catchUp = FALSE /\ p.pages = 0
    BY DEF AtRest, Poll_, Waits, Batches, NoHeader, Head_

----------------------------------------------------------------------------
(* What a step does to the poll, the row and the worker's database         *)

DbSame == UNCHANGED <<epoch, log, pruned>>
RowSame == host'.epoch = host.epoch /\ host'.cursor = host.cursor
Resting == {"idle", "probe", "alert", "polled"}

(* The poll is not reading and has no events in hand. *)
Rests ==
    /\ poll'.at \in Resting /\ poll'.batch = {} /\ poll'.fallback = 0 /\ poll'.catchUp = FALSE
    /\ poll'.pages = 0

(* A read is begun. *)
Begins(after, catchUp, fallback) ==
    /\ poll'.at = "read" /\ poll'.after = after /\ poll'.catchUp = catchUp /\ poll'.fallback = fallback
    /\ poll'.batch = {} /\ poll'.pages = 0

(* What is left of these events is dealt with next. *)
GoesOn(b) ==
    /\ poll'.batch = b /\ poll'.fallback = poll.fallback
    /\ b # {} => poll'.at = "event" /\ poll'.catchUp = poll.catchUp /\ poll'.burst = poll.burst
    /\ b = {} /\ poll.catchUp => poll'.at = "close" /\ poll'.catchUp = TRUE /\ poll'.burst = FALSE
    /\ b = {} /\ ~poll.catchUp => poll'.at = "polled" /\ poll'.catchUp = FALSE /\ poll'.fallback = 0
                                  /\ poll'.pages = 0
    /\ poll'.catchUp => poll'.head = poll.head

(* The events read are taken in hand. *)
TakesUp(b) ==
    /\ poll'.batch = b /\ poll'.fallback = 0
    /\ b # {} => poll'.at \in {"summary", "event"} /\ poll'.catchUp = poll.catchUp
    /\ b = {} /\ poll.catchUp => poll'.at = "close" /\ poll'.catchUp = TRUE
    /\ b = {} /\ ~poll.catchUp => poll'.at = "polled" /\ poll'.catchUp = FALSE /\ poll'.pages = 0
    /\ poll'.catchUp => poll'.head = poll.head
    /\ poll'.at = "summary" => Cardinality(Announceable(b)) > Burst /\ Finals(b) # {}
    /\ poll'.at = "event" /\ poll'.burst =>
         /\ Cardinality(Announceable(b)) > Burst
         /\ Finals(b) = {} \/ summarised = LastSeq(Announceable(b))

LEMMA GoOnIs ==
    ASSUME Types, NEW b \in Batches, poll' = GoOn(poll, b), poll.fallback = 0
    PROVE  poll' \in Poll_ /\ GoesOn(b)
<1>1. poll \in Poll_
    BY DEF Types
<1>2. CASE b # {}
    <2>1. poll' = [poll EXCEPT !.at = "event", !.batch = b]
        BY <1>2 DEF GoOn
    <2>2. poll' \in Poll_ /\ poll'.at = "event" /\ poll'.batch = b /\ poll'.catchUp = poll.catchUp
          /\ poll'.burst = poll.burst /\ poll'.fallback = poll.fallback /\ poll'.head = poll.head
        BY <1>1, <2>1 DEF Poll_, Waits
    <2> QED BY <1>2, <2>2 DEF GoesOn
<1>3. CASE b = {} /\ poll.catchUp
    <2>1. poll' = [poll EXCEPT !.at = "close", !.batch = b, !.burst = FALSE]
        BY <1>3 DEF GoOn
    <2>2. poll' \in Poll_ /\ poll'.at = "close" /\ poll'.batch = b /\ poll'.catchUp = poll.catchUp
          /\ poll'.burst = FALSE /\ poll'.fallback = poll.fallback /\ poll'.head = poll.head
        BY <1>1, <2>1 DEF Poll_, Waits
    <2> QED BY <1>3, <2>2 DEF GoesOn
<1>4. CASE b = {} /\ ~poll.catchUp
    <2>1. poll' = [AtRest EXCEPT !.at = "polled"]
        BY <1>4 DEF GoOn
    <2>2. poll' \in Poll_ /\ poll'.at = "polled" /\ poll'.batch = {} /\ poll'.catchUp = FALSE
          /\ poll'.fallback = 0 /\ poll'.pages = 0
        <3>1. "polled" \in Waits
            BY DEF Waits
        <3> QED BY <2>1, <3>1, AtRestAt, ZenonT(30)
    <2> QED BY <1>4, <2>2 DEF GoesOn
<1> QED BY <1>2, <1>3, <1>4

LEMMA ProcessIs ==
    ASSUME Types, NEW b \in Batches, Process(b)
    PROVE  poll' \in Poll_ /\ TakesUp(b)
<1>1. poll \in Poll_ /\ poll.catchUp \in BOOLEAN
    BY Fields DEF Types
<1> DEFINE a == Announceable(b)
           burst == Cardinality(a) > Burst
           p == [poll EXCEPT !.burst = burst, !.fallback = 0, !.head = IF poll.catchUp THEN @ ELSE NoHeader]
<1>2. NoHeader \in Head_ /\ poll.head \in Head_
    BY <1>1, Fields DEF NoHeader, Head_
<1>3. burst \in BOOLEAN
    OBVIOUS
<1>4. p \in Poll_ /\ p.fallback = 0 /\ p.catchUp = poll.catchUp /\ p.burst = burst
      /\ (poll.catchUp => p.head = poll.head)
    <2> HIDE DEF burst
    <2> QED BY <1>1, <1>2, <1>3 DEF Poll_
<1>5. poll' = IF burst /\ Finals(b) # {} /\ summarised # LastSeq(a)
              THEN [p EXCEPT !.at = "summary", !.batch = b] ELSE GoOn(p, b)
    BY DEF Process
<1>6. Finals(b) # {} => b # {}
    BY DEF Finals
<1> HIDE DEF p
<1>7. CASE burst /\ Finals(b) # {} /\ summarised # LastSeq(a)
    <2>1. poll' = [p EXCEPT !.at = "summary", !.batch = b]
        BY <1>5, <1>7
    <2>2. poll' \in Poll_ /\ poll'.at = "summary" /\ poll'.batch = b /\ poll'.catchUp = p.catchUp
          /\ poll'.burst = p.burst /\ poll'.fallback = p.fallback /\ poll'.head = p.head
        BY <1>4, <2>1 DEF Poll_, Waits
    <2> HIDE DEF a
    <2>3. Cardinality(Announceable(b)) > Burst
        BY <1>7 DEF a
    <2> QED BY <1>4, <1>6, <1>7, <2>2, <2>3 DEF TakesUp
<1>8. CASE ~(burst /\ Finals(b) # {} /\ summarised # LastSeq(a))
    <2>1. poll' = GoOn(p, b)
        BY <1>5, <1>8
    <2>2. burst => Cardinality(Announceable(b)) > Burst /\ (Finals(b) = {} \/ summarised = LastSeq(Announceable(b)))
        BY <1>8
    <2> HIDE DEF burst
    <2>3. CASE b # {}
        <3>1. poll' = [p EXCEPT !.at = "event", !.batch = b]
            BY <2>1, <2>3 DEF GoOn
        <3>2. poll' \in Poll_ /\ poll'.at = "event" /\ poll'.batch = b /\ poll'.catchUp = p.catchUp
              /\ poll'.burst = p.burst /\ poll'.fallback = p.fallback /\ poll'.head = p.head
            BY <1>4, <3>1 DEF Poll_, Waits
        <3> QED BY <1>4, <2>2, <2>3, <3>2 DEF TakesUp
    <2>4. CASE b = {} /\ p.catchUp
        <3>1. poll' = [p EXCEPT !.at = "close", !.batch = b, !.burst = FALSE]
            BY <2>1, <2>4 DEF GoOn
        <3>2. poll' \in Poll_ /\ poll'.at = "close" /\ poll'.batch = b /\ poll'.catchUp = p.catchUp
              /\ poll'.burst = FALSE /\ poll'.fallback = p.fallback /\ poll'.head = p.head
            BY <1>4, <3>1 DEF Poll_, Waits
        <3> QED BY <1>4, <2>4, <3>2 DEF TakesUp
    <2>5. CASE b = {} /\ ~p.catchUp
        <3>1. poll' = [AtRest EXCEPT !.at = "polled"]
            BY <2>1, <2>5 DEF GoOn
        <3>2. poll' \in Poll_ /\ poll'.at = "polled" /\ poll'.batch = {} /\ poll'.catchUp = FALSE
              /\ poll'.fallback = 0 /\ poll'.pages = 0
            <4>1. "polled" \in Waits
                BY DEF Waits
            <4> QED BY <3>1, <4>1, AtRestAt
        <3> QED BY <1>4, <2>5, <3>2 DEF TakesUp
    <2> QED BY <2>3, <2>4, <2>5
<1> QED BY <1>7, <1>8

LEMMA GotoIs ==
    ASSUME NEW p \in Poll_, NEW w \in Waits
    PROVE  LET q == [p EXCEPT !.at = w]
           IN  /\ q \in Poll_ /\ q.at = w /\ q.batch = p.batch /\ q.catchUp = p.catchUp
               /\ q.head = p.head /\ q.fallback = p.fallback /\ q.pages = p.pages /\ q.burst = p.burst
               /\ q.after = p.after
    BY DEF Poll_

LEMMA ReadIs ==
    ASSUME NEW n \in Nat, NEW c \in BOOLEAN, NEW f \in Nat, Read(n, c, f)
    PROVE  poll' \in Poll_ /\ Begins(n, c, f)
    BY DEF Read, Begins, AtRest, Poll_, Waits, Batches, NoHeader, Head_

LEMMA RowWith ==
    ASSUME NEW r \in Row, NEW n \in Nat, NEW x \in BOOLEAN
    PROVE  /\ LET q == [r EXCEPT !.cursor = n]
              IN q \in Row /\ q.epoch = r.epoch /\ q.cursor = n
           /\ LET q == [r EXCEPT !.epoch = n, !.cursor = 0]
              IN q \in Row /\ q.epoch = n /\ q.cursor = 0
           /\ LET q == [r EXCEPT !.alerted = x]
              IN q \in Row /\ q.epoch = r.epoch /\ q.cursor = r.cursor
           /\ LET q == [r EXCEPT !.incompatible = x]
              IN q \in Row /\ q.epoch = r.epoch /\ q.cursor = r.cursor
    BY DEF Row

(* What a poll looks like at each of its awaits. *)
Shape ==
    /\ Types
    /\ ~(Reading \/ Busy) => poll.batch = {} /\ poll.fallback = 0 /\ poll.catchUp = FALSE /\ poll.pages = 0
    /\ Busy => poll.fallback = 0
    /\ poll.at \in {"summary", "event", "send"} => poll.batch # {}
    /\ poll.at = "summary" => Finals(poll.batch) # {}
    /\ poll.at = "close" => poll.batch = {} /\ poll.catchUp = TRUE
    /\ poll.at = "read" /\ poll.pages = 0 =>
         poll.batch = {} /\ poll.after = IF poll.catchUp THEN 0 ELSE host.cursor
    /\ poll.fallback > 0 => poll.catchUp = TRUE
    /\ Reading /\ poll.catchUp /\ poll.fallback = 0 => host.epoch = 0

StoreSame == UNCHANGED <<jobs, summarised>>

(* The poll, the row and the database are as they were. *)
Stands == DbSame /\ RowSame /\ StoreSame /\ poll' = poll /\ fate' = fate /\ fails' = fails

(* The coroutine returns, or it and the pulls are cancelled. *)
RestStep ==
    /\ DbSame /\ RowSame /\ jobs' = jobs /\ summarised' \in {summarised, 0} /\ Rests
    /\ \E S : /\ S # {} => Busy /\ S \subseteq SeqsOf(poll.batch)
              /\ fate' = Mark(S, "told")
    /\ Busy /\ poll.catchUp /\ host.epoch # 0 => "stop" \in Faults

BeginStep ==
    /\ DbSame /\ RowSame /\ StoreSame /\ fate' = fate /\ poll.at \in Resting
    /\ Begins(IF host.epoch = 0 THEN 0 ELSE host.cursor, host.epoch = 0, 0)

(* A page arrives: the first brings the header. *)
PageStep ==
    /\ DbSame /\ RowSame /\ StoreSame /\ fate' = fate /\ poll.at = "read"
    /\ poll'.at \in {"read", "answered"} /\ poll'.catchUp = poll.catchUp /\ poll'.fallback = poll.fallback
    /\ poll'.head = (IF poll.pages = 0 THEN Feed ELSE poll.head)
    /\ poll'.batch = poll.batch \cup EventsAfter(poll.after)
    /\ poll'.at = "read" => /\ poll'.pages > 0 /\ poll'.after = From(poll.after) + Page
                            /\ poll'.pages = poll.pages + 1
                            /\ From(poll.after) + Page \in DOMAIN log
    /\ poll'.at = "answered" => From(poll.after) + Page \notin DOMAIN log \/ poll.pages + 1 = MaxPages

Wanted == {e \in poll.batch : Mine(e)}

(* A catch-up begins, its row naming the database `known`. *)
CatchUpStep(known) ==
    /\ DbSame /\ StoreSame /\ poll.at = "answered" /\ poll.catchUp /\ TakesUp(Wanted)
    /\ fate' = IF poll.head.epoch = epoch /\ known = epoch
               THEN Mark(1..poll.head.high \ SeqsOf(Wanted), "history") ELSE fate

ContactStep ==
    /\ poll.fallback = 0 /\ host'.epoch = poll.head.epoch /\ host'.cursor = 0
    /\ CatchUpStep(poll.head.epoch)

AgainStep == poll.fallback > 0 /\ RowSame /\ CatchUpStep(host.epoch)

NewsStep ==
    /\ DbSame /\ RowSame /\ StoreSame /\ fate' = fate
    /\ poll.at = "answered" /\ ~poll.catchUp /\ ~WasReset /\ TakesUp(poll.batch)

OverStep ==
    /\ DbSame /\ StoreSame /\ fate' = fate
    /\ poll.at = "answered" /\ ~poll.catchUp /\ WasReset
    /\ host'.epoch = poll.head.epoch /\ host'.cursor = 0
    /\ Begins(0, TRUE, poll.head.high + 1)

OverFailsStep ==
    /\ DbSame /\ StoreSame /\ poll.at = "read" /\ poll.fallback > 0 /\ Rests
    /\ host'.epoch = host.epoch /\ host'.cursor = poll.fallback - 1
    /\ fate' = Mark(IF Named THEN 1..(poll.fallback - 1) ELSE {}, "history")
    /\ Named => 1..(poll.fallback - 1) \subseteq unread'

SummaryStep ==
    /\ DbSame /\ RowSame /\ jobs' = jobs /\ poll.at = "summary" /\ GoesOn(poll.batch)
    /\ summarised' = LastSeq(Announceable(poll.batch))
    /\ fate' = Mark(SeqsOf(Finals(poll.batch)), "told")

(* A message could not be sent, and is tried again at another poll. *)
LeaveStep ==
    /\ DbSame /\ RowSame /\ StoreSame /\ fate' = fate
    /\ poll.at \in {"summary", "send"} /\ GoesOn({})
    /\ poll.catchUp => "unsent" \in Faults

Stored(e) == IF Ends(e.ev) /\ e.ev.kind # "cancelled" THEN jobs \cup {e.ev.run} ELSE jobs

(* A message is about to be sent. *)
SendStep ==
    /\ DbSame /\ RowSame /\ summarised' = summarised /\ fate' = fate
    /\ jobs' = Stored(First(poll.batch))
    /\ poll.at = "event" /\ poll'.at = "send" /\ poll'.batch = poll.batch /\ poll'.fallback = poll.fallback
    /\ poll'.catchUp = poll.catchUp /\ poll'.head = poll.head /\ poll'.burst = poll.burst

(* How the event the cursor moves over was dealt with. *)
PassedOver(e) ==
    /\ poll.at = "event" /\ fate' = fate /\ jobs' = Stored(e)
    /\ e.ev.kind = "told" \/ (poll.burst /\ IsFinal(e.ev) /\ e.ev.kind # "failed")
Sent(e) == poll.at = "send" /\ fate' = Mark(SeqsOf({e}), "told") /\ jobs' = jobs
GivenUp(e) ==
    /\ poll.at = "send" /\ jobs' = jobs
    /\ fate' = Mark({s \in SeqsOf({e}) : fate[s] = "open"}, "dropped")

SaveStep ==
    /\ DbSame /\ summarised' = summarised
    /\ poll.at \in {"event", "send"}
    /\ host'.epoch = host.epoch /\ host'.cursor = First(poll.batch).seq
    /\ GoesOn(poll.batch \ {First(poll.batch)})
    /\ \/ PassedOver(First(poll.batch)) \/ Sent(First(poll.batch)) \/ GivenUp(First(poll.batch))

CloseStep ==
    /\ DbSame /\ StoreSame /\ fate' = fate /\ poll.at = "close" /\ Rests
    /\ host'.epoch = host.epoch /\ host'.cursor = poll.head.high

PollStep ==
    \/ Stands \/ RestStep \/ BeginStep \/ PageStep \/ ContactStep \/ AgainStep \/ NewsStep \/ OverStep
    \/ OverFailsStep \/ SummaryStep \/ LeaveStep \/ SendStep \/ SaveStep \/ CloseStep

(* The types of what a step of the poll or of the pulls may change. *)
NewTypes ==
    /\ host' \in Row /\ poll' \in Poll_ /\ fate' \in Fates
    /\ jobs' \subseteq Runs /\ summarised' \in Nat /\ fails' \in [Seqs -> Nat]

LEMMA MarkIs ==
    ASSUME fate \in Fates, NEW S, NEW w \in {"told", "dropped", "history"}
    PROVE  /\ Mark(S, w) \in Fates
           /\ \A s \in Seqs : Mark(S, w)[s] = IF s \in S THEN w ELSE fate[s]
    BY DEF Mark, Fates

LEMMA NoMark ==
    ASSUME fate \in Fates, NEW w
    PROVE  Mark({}, w) = fate
    BY DEF Mark, Fates

LEMMA MarkPart ==
    ASSUME fate \in Fates, NEW S, NEW w \in {"told", "dropped", "history"}, fate' = Mark(S, w)
    PROVE  fate' \in Fates /\ \A s \in Seqs : fate'[s] = IF s \in S THEN w ELSE fate[s]
    BY MarkIs

(* What a batch is made of. *)
LEMMA BatchIs ==
    ASSUME NEW b \in Batches
    PROVE  /\ Wanted \subseteq poll.batch /\ Announceable(b) \in Batches /\ Finals(b) \subseteq Announceable(b)
           /\ \A e \in b : e \in Read_ /\ e.seq \in Seqs /\ e.epoch \in Nat /\ e.ev \in Event
           /\ \A c : c \subseteq b => c \in Batches
    BY DEF Batches, Read_, Wanted, Announceable, Finals, IsFinal

LEMMA PageIs ==
    ASSUME WatcherOK, Types, NEW n \in Nat
    PROVE  /\ From(n) \in Nat /\ From(n) >= n /\ From(n) >= pruned
           /\ From(n) = n \/ From(n) = pruned
           /\ EventsAfter(n) \in Batches
           /\ \A e \in EventsAfter(n) : /\ e.epoch = epoch /\ e.seq \in DOMAIN log /\ e.ev = log[e.seq]
                                        /\ From(n) < e.seq /\ e.seq <= From(n) + Page
           /\ \A s \in DOMAIN log : From(n) < s /\ s <= From(n) + Page =>
                \E e \in EventsAfter(n) : e.seq = s
           /\ Feed \in Head_ /\ Feed.epoch = epoch /\ Feed.high <= Len(log) /\ Feed.high \in Nat
           /\ Feed.high = Len(log) \/ (Feed.high = 0 /\ pruned >= Len(log))
<1>1. DOMAIN log = 1..Len(log) /\ Len(log) \in Nat /\ \A s \in 1..Len(log) : log[s] \in Event
    BY LogIs DEF Types
<1>2. pruned \in Nat /\ epoch \in Nat /\ pruned <= Len(log) /\ Len(log) <= MaxSeq
    BY <1>1 DEF Types
<1>3. From(n) \in Nat /\ From(n) >= n /\ From(n) >= pruned /\ (From(n) = n \/ From(n) = pruned)
    BY <1>2 DEF From
<1> DEFINE T == {t \in DOMAIN log : From(n) < t /\ t <= From(n) + Page}
<1>4. EventsAfter(n) = {[seq |-> s, epoch |-> epoch, ev |-> log[s]] : s \in T}
    BY DEF EventsAfter
<1>5. \A s \in T : s \in Seqs /\ log[s] \in Event /\ s \in DOMAIN log /\ From(n) < s /\ s <= From(n) + Page
    BY <1>1, <1>2 DEF Seqs, WatcherOK
<1>6. \A s \in DOMAIN log : From(n) < s /\ s <= From(n) + Page => s \in T
    OBVIOUS
<1> HIDE DEF T
<1>7. EventsAfter(n) \in Batches
    BY <1>2, <1>4, <1>5 DEF Batches, Read_
<1>8. \A e \in EventsAfter(n) : \E s \in T : e.seq = s /\ e.epoch = epoch /\ e.ev = log[s]
    BY <1>4
<1>9. ASSUME NEW s \in T PROVE \E e \in EventsAfter(n) : e.seq = s
    <2> DEFINE e == [seq |-> s, epoch |-> epoch, ev |-> log[s]]
    <2>1. e \in EventsAfter(n) /\ e.seq = s
        BY <1>4
    <2> QED BY <2>1
<1>10. Feed \in Head_ /\ Feed.epoch = epoch /\ Feed.high <= Len(log) /\ Feed.high \in Nat
       /\ (Feed.high = Len(log) \/ (Feed.high = 0 /\ pruned >= Len(log)))
    BY <1>1, <1>2 DEF Feed, Head_
<1> QED BY <1>3, <1>5, <1>6, <1>7, <1>8, <1>9, <1>10

----------------------------------------------------------------------------
(* Each step of the watcher is one of these                                *)

LEMMA ShapeFacts ==
    ASSUME Shape
    PROVE  /\ Types /\ poll \in Poll_ /\ host \in Row /\ fate \in Fates /\ host.epoch \in Nat /\ host.cursor \in Nat
           /\ poll.head.epoch \in Nat /\ poll.head.high \in Nat /\ poll.fallback \in Nat /\ poll.pages \in Nat
           /\ poll.after \in Nat /\ poll.batch \in Batches /\ poll.catchUp \in BOOLEAN
           /\ jobs \subseteq Runs /\ summarised \in Nat /\ fails \in [Seqs -> Nat]
           /\ fate = Mark({}, "told") /\ Mark({}, "told") \in Fates
<1>1. Types /\ poll \in Poll_ /\ host \in Row /\ fate \in Fates
    BY DEF Shape, Types
<1>2. fate = Mark({}, "told") /\ Mark({}, "told") \in Fates
    BY <1>1, NoMark
<1> QED BY <1>1, <1>2, Fields, RowFields DEF Types

LEMMA RestWith ==
    ASSUME Shape, NEW w \in Resting, poll' = [AtRest EXCEPT !.at = w]
    PROVE  poll' \in Poll_ /\ Rests
<1>1. w \in Waits
    BY DEF Resting, Waits
<1> QED BY <1>1, AtRestAt DEF Rests

LEMMA ReturnIs ==
    ASSUME Shape, NEW b \in BOOLEAN, Return(b)
    PROVE  poll' \in Poll_ /\ Rests
<1>1. CASE b
    BY <1>1, RestWith DEF Return, Resting
<1>2. CASE ~b
    BY <1>2, RestWith DEF Return, Resting
<1> QED BY <1>1, <1>2

LEMMA AlertedRow ==
    ASSUME Shape, NEW x \in BOOLEAN
    PROVE  /\ host' = [host EXCEPT !.alerted = x] => host' \in Row /\ RowSame
           /\ host' = [host EXCEPT !.incompatible = x] => host' \in Row /\ RowSame
<1>1. host \in Row
    BY ShapeFacts
<1>2. ASSUME host' = [host EXCEPT !.alerted = x] PROVE host' \in Row /\ RowSame
    BY <1>1, <1>2 DEF Row, RowSame
<1>3. ASSUME host' = [host EXCEPT !.incompatible = x] PROVE host' \in Row /\ RowSame
    BY <1>1, <1>3 DEF Row, RowSame
<1> QED BY <1>2, <1>3

LEMMA RestActions ==
    ASSUME Shape, NEW b \in BOOLEAN, Unreachable(b) \/ AlertReturns(b) \/ Mismatch \/ StartPulls
    PROVE  RestStep /\ NewTypes
<1>1. poll' \in Poll_ /\ Rests
    <2>1. CASE Unreachable(b)
        BY <2>1, ReturnIs, RestWith DEF Unreachable, Resting
    <2>2. CASE AlertReturns(b)
        BY <2>2, ReturnIs DEF AlertReturns
    <2>3. CASE Mismatch
        BY <2>3, ReturnIs DEF Mismatch
    <2>4. CASE StartPulls
        BY <2>4, RestIs DEF StartPulls, Rests, Resting
    <2> QED BY <2>1, <2>2, <2>3, <2>4
<1>2. host' \in Row /\ RowSame
    BY AlertedRow, ShapeFacts DEF Unreachable, AlertReturns, Mismatch, StartPulls, RowSame
<1>3. DbSame /\ jobs' = jobs /\ summarised' = summarised /\ fate' = fate /\ fails' = fails /\ ~Busy
    BY DEF Unreachable, AlertReturns, Mismatch, StartPulls, worker, observers, DbSame, Busy
<1>4. fate' = Mark({}, "told")
    BY <1>3, ShapeFacts
<1> QED BY <1>1, <1>2, <1>3, <1>4, ShapeFacts DEF RestStep, NewTypes

LEMMA FirstReadIs ==
    ASSUME Shape, FirstRead
    PROVE  poll' \in Poll_ /\ Begins(IF host.epoch = 0 THEN 0 ELSE host.cursor, host.epoch = 0, 0)
<1> DEFINE n == IF host.epoch = 0 THEN 0 ELSE host.cursor
           c == host.epoch = 0
<1>1. n \in Nat /\ c \in BOOLEAN /\ 0 \in Nat
    BY ShapeFacts
<1>2. Read(n, c, 0)
    BY DEF FirstRead
<1> HIDE DEF n, c
<1>3. poll' \in Poll_ /\ Begins(n, c, 0)
    BY <1>1, <1>2, ReadIs
<1> QED BY <1>3 DEF n, c

LEMMA BeginActions ==
    ASSUME Shape, NEW b \in BOOLEAN, StartPoll \/ ProbeAnswers(b)
    PROVE  (RestStep \/ BeginStep) /\ NewTypes
<1>1. host' \in Row /\ RowSame
    BY AlertedRow, ShapeFacts DEF StartPoll, ProbeAnswers, RowSame
<1>2. DbSame /\ StoreSame /\ fate' = fate /\ fails' = fails /\ ~Busy /\ ~Reading /\ poll.at \in Resting
    BY DEF StartPoll, ProbeAnswers, worker, observers, DbSame, StoreSame, Busy, Reading, Resting
<1>3. fate' = Mark({}, "told")
    BY <1>2, ShapeFacts
<1>4. CASE FirstRead
    BY <1>1, <1>2, <1>4, FirstReadIs, ShapeFacts DEF BeginStep, NewTypes, StoreSame
<1>5. CASE Return(FALSE)
    BY <1>1, <1>2, <1>3, <1>5, ReturnIs, ShapeFacts DEF RestStep, NewTypes, StoreSame
<1>6. CASE Goto("probe")
    <2>1. poll' = [poll EXCEPT !.at = "probe"] /\ poll \in Poll_ /\ "probe" \in Waits
        BY <1>6, ShapeFacts DEF Goto, Waits
    <2>2. poll' \in Poll_ /\ poll'.at = "probe" /\ poll'.batch = poll.batch /\ poll'.catchUp = poll.catchUp
          /\ poll'.fallback = poll.fallback /\ poll'.pages = poll.pages
        BY <2>1, GotoIs
    <2>3. poll.batch = {} /\ poll.fallback = 0 /\ poll.catchUp = FALSE /\ poll.pages = 0
        BY <1>2 DEF Shape
    <2>4. Rests
        BY <2>2, <2>3 DEF Rests, Resting
    <2> QED BY <1>1, <1>2, <1>3, <2>2, <2>4, ShapeFacts DEF RestStep, NewTypes, StoreSame
<1> QED BY <1>4, <1>5, <1>6 DEF StartPoll, ProbeAnswers

LEMMA PageAction ==
    ASSUME WatcherOK, Shape, PageArrives
    PROVE  PageStep /\ NewTypes
<1> DEFINE page == EventsAfter(poll.after)
           got == [poll EXCEPT !.head = IF poll.pages = 0 THEN Feed ELSE @,
                               !.batch = @ \cup page, !.pages = @ + 1]
           last == From(poll.after) + Page
<1>1. poll' = IF last \notin DOMAIN log \/ got.pages = MaxPages
              THEN [got EXCEPT !.at = "answered", !.after = 0, !.pages = 0]
              ELSE [got EXCEPT !.after = last]
    BY DEF PageArrives
<1>2. page \in Batches /\ From(poll.after) \in Nat /\ Feed \in Head_
    BY ShapeFacts, PageIs
<1>3. last \in Nat
    BY <1>2 DEF WatcherOK
<1>4. poll \in Poll_ /\ poll.at = "read" /\ poll.pages \in Nat /\ poll.head \in Head_
    BY ShapeFacts, Fields DEF PageArrives
<1>5. poll.batch \cup page \in Batches
    BY <1>2, ShapeFacts DEF Batches
<1> DEFINE h == IF poll.pages = 0 THEN Feed ELSE poll.head
           b == poll.batch \cup page
           n == poll.pages + 1
<1>10. h \in Head_ /\ b \in Batches /\ n \in Nat
    BY <1>2, <1>4, <1>5
<1>11. got = [poll EXCEPT !.head = h, !.batch = b, !.pages = n]
    OBVIOUS
<1> HIDE DEF page, h, b, n, got
<1>12. got \in Poll_ /\ got.head = h /\ got.batch = b /\ got.pages = n /\ got.catchUp = poll.catchUp
       /\ got.fallback = poll.fallback /\ got.at = "read"
    BY <1>4, <1>10, <1>11 DEF Poll_
<1>6. /\ got \in Poll_ /\ got.head = (IF poll.pages = 0 THEN Feed ELSE poll.head)
      /\ got.batch = poll.batch \cup page /\ got.pages = poll.pages + 1 /\ got.catchUp = poll.catchUp
      /\ got.fallback = poll.fallback /\ got.at = "read"
    BY <1>12 DEF h, b, n
<1> HIDE DEF last
<1>7. poll' \in Poll_
    BY <1>1, <1>3, <1>6 DEF Poll_, Waits
<1>8. CASE last \notin DOMAIN log \/ got.pages = MaxPages
    <2>1. poll' = [got EXCEPT !.at = "answered", !.after = 0, !.pages = 0]
        BY <1>1, <1>8
    <2>2. poll'.at = "answered" /\ poll'.head = got.head /\ poll'.batch = got.batch
          /\ poll'.catchUp = got.catchUp /\ poll'.fallback = got.fallback
        BY <1>6, <2>1 DEF Poll_
    <2> QED BY <1>4, <1>6, <1>7, <1>8, <2>2, ShapeFacts
            DEF PageStep, PageArrives, NewTypes, worker, observers, DbSame, RowSame, StoreSame, page, last
<1>9. CASE ~(last \notin DOMAIN log \/ got.pages = MaxPages)
    <2>1. poll' = [got EXCEPT !.after = last]
        BY <1>1, <1>9
    <2>2. poll'.at = "read" /\ poll'.head = got.head /\ poll'.batch = got.batch /\ poll'.after = last
          /\ poll'.catchUp = got.catchUp /\ poll'.fallback = got.fallback /\ poll'.pages = got.pages
        BY <1>6, <2>1 DEF Poll_
    <2> QED BY <1>4, <1>6, <1>7, <1>9, <2>2, ShapeFacts
            DEF PageStep, PageArrives, NewTypes, worker, observers, DbSame, RowSame, StoreSame, page, last
<1> QED BY <1>8, <1>9

LEMMA OkIs ==
    ASSUME Shape
    PROVE  /\ Ok(host) => host' \in Row /\ RowSame
           /\ \A n \in Nat : Ok([host EXCEPT !.epoch = n, !.cursor = 0]) =>
                host' \in Row /\ host'.epoch = n /\ host'.cursor = 0
<1>1. host \in Row
    BY ShapeFacts
<1>2. ASSUME Ok(host) PROVE host' \in Row /\ RowSame
    BY <1>1, <1>2, AlertedRow DEF Ok
<1>3. ASSUME NEW n \in Nat, Ok([host EXCEPT !.epoch = n, !.cursor = 0])
      PROVE  host' \in Row /\ host'.epoch = n /\ host'.cursor = 0
    <2> DEFINE r == [host EXCEPT !.epoch = n, !.cursor = 0]
    <2>1. r \in Row /\ r.epoch = n /\ r.cursor = 0
        BY <1>1 DEF Row
    <2>2. host' = [r EXCEPT !.alerted = FALSE]
        BY <1>3 DEF Ok
    <2> HIDE DEF r
    <2> QED BY <2>1, <2>2 DEF Row
<1> QED BY <1>2, <1>3

LEMMA CatchUpIs ==
    ASSUME Shape, CatchUp
    PROVE  /\ TakesUp(Wanted) /\ poll' \in Poll_ /\ fate' \in Fates
           /\ fate' = IF poll.head.epoch = epoch /\ (poll.fallback = 0 \/ host.epoch = epoch)
                      THEN Mark(1..poll.head.high \ SeqsOf(Wanted), "history") ELSE fate
<1>1. Wanted \in Batches /\ Process(Wanted)
    BY ShapeFacts, BatchIs DEF CatchUp, Wanted
<1>2. fate' = IF poll.head.epoch = epoch /\ (poll.fallback = 0 \/ host.epoch = epoch)
              THEN Mark(1..poll.head.high \ SeqsOf(Wanted), "history") ELSE fate
    BY DEF CatchUp, Wanted
<1>3. fate' \in Fates
    BY <1>2, ShapeFacts, MarkIs
<1> QED BY <1>1, <1>2, <1>3, ProcessIs, ShapeFacts

LEMMA ContactAction ==
    ASSUME Shape, FirstContact
    PROVE  ContactStep /\ NewTypes
<1>1. host' \in Row /\ host'.epoch = poll.head.epoch /\ host'.cursor = 0
    BY OkIs, ShapeFacts DEF FirstContact
<1>2. poll.fallback = 0 /\ poll.at = "answered" /\ poll.catchUp
    BY DEF FirstContact
<1>3. /\ TakesUp(Wanted) /\ poll' \in Poll_ /\ fate' \in Fates
      /\ fate' = IF poll.head.epoch = epoch
                 THEN Mark(1..poll.head.high \ SeqsOf(Wanted), "history") ELSE fate
    BY <1>2, CatchUpIs DEF FirstContact
<1>4. DbSame /\ StoreSame /\ fails' = fails
    BY DEF FirstContact, worker, DbSame, StoreSame
<1> QED BY <1>1, <1>2, <1>3, <1>4, ShapeFacts DEF ContactStep, CatchUpStep, NewTypes, StoreSame

LEMMA AgainAction ==
    ASSUME Shape, StartOverAnswered
    PROVE  AgainStep /\ NewTypes
<1>1. host' = host /\ poll.fallback > 0 /\ poll.at = "answered" /\ poll.catchUp
    BY DEF StartOverAnswered, Shape
<1>2. /\ TakesUp(Wanted) /\ poll' \in Poll_ /\ fate' \in Fates
      /\ fate' = IF poll.head.epoch = epoch /\ host.epoch = epoch
                 THEN Mark(1..poll.head.high \ SeqsOf(Wanted), "history") ELSE fate
    <2>1. poll.fallback # 0
        BY <1>1, ShapeFacts
    <2> QED BY <2>1, CatchUpIs DEF StartOverAnswered
<1>3. DbSame /\ StoreSame /\ fails' = fails /\ RowSame
    BY <1>1 DEF StartOverAnswered, worker, DbSame, StoreSame, RowSame
<1> QED BY <1>1, <1>2, <1>3, ShapeFacts DEF AgainStep, CatchUpStep, NewTypes, StoreSame

LEMMA NewsAction ==
    ASSUME Shape, News
    PROVE  NewsStep /\ NewTypes
<1>1. host' \in Row /\ RowSame
    BY OkIs DEF News
<1>2. poll' \in Poll_ /\ TakesUp(poll.batch)
    BY ProcessIs, ShapeFacts DEF News
<1>3. DbSame /\ StoreSame /\ fails' = fails /\ fate' = fate
    BY DEF News, worker, observers, DbSame, StoreSame
<1> QED BY <1>1, <1>2, <1>3, ShapeFacts DEF NewsStep, News, NewTypes, StoreSame

LEMMA OverActions ==
    ASSUME Shape, StartOver \/ StartOverFails
    PROVE  (OverStep \/ OverFailsStep) /\ NewTypes
<1>1. CASE StartOver
    <2>1. host' \in Row /\ host'.epoch = poll.head.epoch /\ host'.cursor = 0
        BY <1>1, OkIs, ShapeFacts DEF StartOver
    <2>2. 0 \in Nat /\ TRUE \in BOOLEAN /\ poll.head.high + 1 \in Nat
        BY ShapeFacts
    <2>3. poll' \in Poll_ /\ Begins(0, TRUE, poll.head.high + 1)
        BY <1>1, <2>2, ReadIs DEF StartOver
    <2>4. DbSame /\ StoreSame /\ fails' = fails /\ fate' = fate
        BY <1>1 DEF StartOver, worker, observers, DbSame, StoreSame
    <2> QED BY <1>1, <2>1, <2>3, <2>4, ShapeFacts DEF OverStep, StartOver, NewTypes, StoreSame
<1>2. CASE StartOverFails
    <2>1. poll.fallback - 1 \in Nat /\ poll.at = "read" /\ poll.fallback > 0
        BY <1>2, ShapeFacts DEF StartOverFails
    <2>2. host' = [host EXCEPT !.cursor = poll.fallback - 1] /\ host \in Row
        BY <1>2, ShapeFacts DEF StartOverFails
    <2>3. host' \in Row /\ host'.epoch = host.epoch /\ host'.cursor = poll.fallback - 1
        BY <2>1, <2>2 DEF Row
    <2>4. poll' \in Poll_ /\ Rests
        BY <1>2, ReturnIs DEF StartOverFails
    <2>5. fate' = Mark(IF Named THEN 1..(poll.fallback - 1) ELSE {}, "history")
        BY <1>2 DEF StartOverFails, Named
    <2>8. Named => 1..(poll.fallback - 1) \subseteq unread'
        BY <1>2 DEF StartOverFails, Named
    <2>6. fate' \in Fates
        BY <2>5, ShapeFacts, MarkIs
    <2>7. DbSame /\ StoreSame /\ fails' = fails
        BY <1>2 DEF StartOverFails, worker, DbSame, StoreSame
    <2> QED BY <2>1, <2>3, <2>4, <2>5, <2>6, <2>7, <2>8, ShapeFacts DEF OverFailsStep, NewTypes, StoreSame
<1> QED BY <1>1, <1>2

LEMMA SummaryAction ==
    ASSUME WatcherOK, Shape, NEW ok \in BOOLEAN, SummaryReturns(ok)
    PROVE  (SummaryStep \/ LeaveStep) /\ NewTypes
<1>1. poll.at = "summary" /\ poll.batch # {} /\ poll.fallback = 0 /\ host' = host /\ jobs' = jobs
      /\ DbSame /\ fails' = fails /\ RowSame
    BY DEF SummaryReturns, Shape, Busy, worker, DbSame, RowSame
<1>2. CASE ok
    <2>1. poll' = GoOn(poll, poll.batch) /\ fate' = Mark(SeqsOf(Finals(poll.batch)), "told")
          /\ summarised' = LastSeq(Announceable(poll.batch))
        BY <1>2 DEF SummaryReturns
    <2>2. poll' \in Poll_ /\ GoesOn(poll.batch)
        BY <1>1, <2>1, GoOnIs, ShapeFacts
    <2>3. fate' \in Fates
        BY <2>1, ShapeFacts, MarkIs
    <2>4. Announceable(poll.batch) # {}
        BY <1>1, ShapeFacts, BatchIs DEF Shape
    <2>5. summarised' \in Nat
        BY <2>1, <2>4, LastIs, ShapeFacts, BatchIs, SMTT(30) DEF WatcherOK, Seqs
    <2> QED BY <1>1, <2>1, <2>2, <2>3, <2>5, ShapeFacts DEF SummaryStep, NewTypes
<1>3. CASE ~ok
    <2>1. poll' = GoOn(poll, {}) /\ fate' = fate /\ summarised' = summarised
          /\ (poll.catchUp => "unsent" \in Faults)
        BY <1>3 DEF SummaryReturns, MayFail
    <2>2. {} \in Batches
        BY DEF Batches
    <2>3. poll' \in Poll_ /\ GoesOn({})
        BY <1>1, <2>1, <2>2, GoOnIs, ShapeFacts
    <2> QED BY <1>1, <2>1, <2>3, ShapeFacts DEF LeaveStep, NewTypes, StoreSame
<1> QED BY <1>2, <1>3

LEMMA SaveIs ==
    ASSUME WatcherOK, Shape, SaveCursor, poll.at \in {"event", "send"}
    PROVE  /\ First(poll.batch) \in Read_ /\ First(poll.batch) \in poll.batch
           /\ host' \in Row /\ host'.epoch = host.epoch /\ host'.cursor = First(poll.batch).seq
           /\ poll' \in Poll_ /\ GoesOn(poll.batch \ {First(poll.batch)}) /\ fails' \in [Seqs -> Nat]
<1> DEFINE e == First(poll.batch)
<1>1. poll.batch # {} /\ poll.fallback = 0
    BY DEF Shape, Busy
<1>2. e \in poll.batch /\ e \in Read_
    BY <1>1, FirstIs, ShapeFacts DEF WatcherOK
<1> HIDE DEF e
<1>3. e.seq \in Nat /\ e.seq \in Seqs
    BY <1>2 DEF Read_, Seqs
<1>4. host' = [host EXCEPT !.cursor = e.seq] /\ fails' = [fails EXCEPT ![e.seq] = 0]
      /\ poll' = GoOn(poll, poll.batch \ {e})
    BY DEF SaveCursor, e
<1>5. poll.batch \ {e} \in Batches
    BY ShapeFacts DEF Batches
<1>6. poll' \in Poll_ /\ GoesOn(poll.batch \ {e})
    BY <1>1, <1>4, <1>5, GoOnIs, ShapeFacts
<1>7. host' \in Row /\ host'.epoch = host.epoch /\ host'.cursor = e.seq
    <2>1. host \in Row
        BY ShapeFacts
    <2> QED BY <1>3, <1>4, <2>1 DEF Row
<1>8. fails' \in [Seqs -> Nat]
    BY <1>4, ShapeFacts
<1> QED BY <1>2, <1>6, <1>7, <1>8 DEF e

LEMMA StoredIs ==
    ASSUME Shape, NEW e \in Read_
    PROVE  Stored(e) \subseteq Runs /\ jobs \subseteq Stored(e)
    BY ShapeFacts DEF Stored, Ends, Read_, Event

LEMMA EventAction ==
    ASSUME WatcherOK, Shape, NextEvent
    PROVE  (SendStep \/ SaveStep) /\ NewTypes
<1> DEFINE e == First(poll.batch)
<1>1. poll.at = "event" /\ poll.batch # {} /\ poll.fallback = 0
    BY DEF NextEvent, Shape, Busy
<1>2. e \in poll.batch /\ e \in Read_
    BY <1>1, FirstIs, ShapeFacts DEF WatcherOK
<1>3. jobs' = Stored(e) /\ jobs' \subseteq Runs
    BY <1>2, StoredIs DEF NextEvent, Stored
<1>4. DbSame /\ summarised' = summarised /\ fate' = fate
    BY DEF NextEvent, worker, observers, DbSame
<1>5. CASE e.ev.kind = "told" \/ (poll.burst /\ IsFinal(e.ev) /\ e.ev.kind # "failed")
    <2>1. SaveCursor /\ PassedOver(e)
        BY <1>1, <1>3, <1>4, <1>5 DEF NextEvent, PassedOver
    <2> QED BY <1>1, <1>3, <1>4, <2>1, SaveIs, ShapeFacts DEF SaveStep, NewTypes
<1>6. CASE ~(e.ev.kind = "told" \/ (poll.burst /\ IsFinal(e.ev) /\ e.ev.kind # "failed"))
    <2>1. poll' = [poll EXCEPT !.at = "send"] /\ fails' = fails /\ host' = host
        BY <1>6 DEF NextEvent, Goto
    <2>2. "send" \in Waits /\ poll \in Poll_
        BY ShapeFacts DEF Waits
    <2>3. /\ poll' \in Poll_ /\ poll'.at = "send" /\ poll'.batch = poll.batch /\ poll'.catchUp = poll.catchUp
          /\ poll'.head = poll.head /\ poll'.fallback = poll.fallback /\ poll'.burst = poll.burst
        BY <2>1, <2>2, GotoIs
    <2> QED BY <1>1, <1>3, <1>4, <2>1, <2>3, ShapeFacts DEF SendStep, NewTypes, RowSame
<1> QED BY <1>5, <1>6

LEMMA SendAction ==
    ASSUME WatcherOK, Shape, NEW ok \in BOOLEAN, SendReturns(ok)
    PROVE  (SaveStep \/ LeaveStep) /\ NewTypes
<1> DEFINE e == First(poll.batch)
<1>1. poll.at = "send" /\ poll.batch # {} /\ poll.fallback = 0 /\ jobs' = jobs /\ summarised' = summarised
      /\ DbSame
    BY DEF SendReturns, Shape, Busy, worker, DbSame
<1>2. e \in poll.batch /\ e \in Read_ /\ e.seq \in Seqs
    <2>1. e \in poll.batch /\ e \in Read_
        BY <1>1, FirstIs, ShapeFacts DEF WatcherOK
    <2> HIDE DEF e
    <2> QED BY <2>1 DEF Read_
<1>3. CASE ok
    <2>1. fate' = Mark(SeqsOf({e}), "told") /\ SaveCursor
        BY <1>3 DEF SendReturns
    <2>2. fate' \in Fates
        BY <2>1, ShapeFacts, MarkIs
    <2> QED BY <1>1, <2>1, <2>2, SaveIs, ShapeFacts DEF SaveStep, Sent, NewTypes
<1>4. CASE ~ok /\ GiveUp(e.seq)
    <2>0. SaveCursor
        BY <1>4 DEF SendReturns
    <2>1. ~(fails[e.seq] + 1 < SendAttempts)
        <3>1. fails[e.seq] \in Nat /\ SendAttempts \in Nat
            BY <1>2, ShapeFacts DEF WatcherOK
        <3>2. fails[e.seq] + 1 >= SendAttempts
            BY <1>4 DEF GiveUp
        <3> HIDE DEF e
        <3> QED BY <3>1, <3>2
    <2>2. fate' = Mark({s \in SeqsOf({e}) : fate[s] = "open"}, "dropped")
        BY <1>4, <2>1 DEF SendReturns
    <2>3. fate' \in Fates
        BY <2>2, ShapeFacts, MarkIs
    <2> QED BY <1>1, <2>0, <2>2, <2>3, SaveIs, ShapeFacts DEF SaveStep, GivenUp, NewTypes
<1>5. CASE ~ok /\ ~GiveUp(e.seq)
    <2>1. poll' = GoOn(poll, {}) /\ host' = host /\ fails' = [fails EXCEPT ![e.seq] = @ + 1]
          /\ (poll.catchUp => "unsent" \in Faults)
        BY <1>5 DEF SendReturns, MayFail
    <2>2. fails[e.seq] \in Nat /\ SendAttempts \in Nat
        BY <1>2, ShapeFacts DEF WatcherOK
    <2>3. fails[e.seq] + 1 < SendAttempts
        <3>1. ~(fails[e.seq] + 1 >= SendAttempts)
            BY <1>5 DEF GiveUp
        <3> HIDE DEF e
        <3> QED BY <2>2, <3>1
    <2>4. fate' = fate
        BY <1>5, <2>3 DEF SendReturns
    <2>5. {} \in Batches
        BY DEF Batches
    <2>6. poll' \in Poll_ /\ GoesOn({})
        BY <1>1, <2>1, <2>5, GoOnIs, ShapeFacts
    <2>7. fails' \in [Seqs -> Nat]
        <3>1. fails \in [Seqs -> Nat]
            BY ShapeFacts
        <3> HIDE DEF e
        <3> QED BY <1>2, <2>1, <2>2, <3>1
    <2> QED BY <1>1, <2>1, <2>4, <2>6, <2>7, ShapeFacts DEF LeaveStep, NewTypes, StoreSame, RowSame
<1> QED BY <1>3, <1>4, <1>5

LEMMA CloseAction ==
    ASSUME Shape, CatchUpCloses
    PROVE  CloseStep /\ NewTypes
<1>1. host \in Row /\ poll.head.high \in Nat
    BY ShapeFacts
<1>2. host' = [host EXCEPT !.cursor = poll.head.high]
    BY DEF CatchUpCloses
<1>3. host' \in Row /\ host'.epoch = host.epoch /\ host'.cursor = poll.head.high
    BY <1>1, <1>2 DEF Row
<1>4. poll' \in Poll_ /\ Rests
    BY ReturnIs DEF CatchUpCloses
<1>5. DbSame /\ StoreSame /\ fails' = fails /\ fate' = fate /\ poll.at = "close"
    BY DEF CatchUpCloses, worker, observers, DbSame, StoreSame
<1> QED BY <1>3, <1>4, <1>5, ShapeFacts DEF CloseStep, NewTypes, StoreSame

LEMMA PullActions ==
    ASSUME Shape, NEW r \in Runs, RunQueued(r) \/ PullFails(r) \/ PullArrives(r) \/ PullRecorded(r)
    PROVE  Stands /\ NewTypes
    BY ShapeFacts DEF RunQueued, PullFails, PullArrives, PullRecorded, worker, memory, observers, Stands,
           DbSame, RowSame, StoreSame, NewTypes

LEMMA StopAction ==
    ASSUME WatcherOK, Shape, NEW keeps \in BOOLEAN, NEW arrives \in BOOLEAN, Stop(keeps, arrives)
    PROVE  RestStep /\ NewTypes
<1>1. poll' \in Poll_ /\ Rests
    BY RestIs DEF Stop, Rests, Resting
<1>2. DbSame /\ host' = host /\ RowSame /\ jobs' = jobs
    BY DEF Stop, worker, DbSame, RowSame
<1>3. summarised' \in {summarised, 0} /\ fails' \in [Seqs -> Nat]
    <2>1. CASE keeps
        BY <2>1, ShapeFacts DEF Stop
    <2>2. CASE ~keeps
        BY <2>2 DEF Stop
    <2> QED BY <2>1, <2>2
<1>4. Busy /\ poll.catchUp /\ host.epoch # 0 => "stop" \in Faults
    BY DEF Stop, CatchingUp
<1>5. \E S : /\ S # {} => Busy /\ S \subseteq SeqsOf(poll.batch)
             /\ fate' = Mark(S, "told")
    <2>1. CASE arrives /\ poll.at = "send"
        <3>1. fate' = Mark(SeqsOf({First(poll.batch)}), "told")
            BY <2>1 DEF Stop, OnItsWay
        <3>2. First(poll.batch) \in poll.batch
            BY <2>1, FirstIs, ShapeFacts DEF WatcherOK, Shape
        <3>3. SeqsOf({First(poll.batch)}) \subseteq SeqsOf(poll.batch) /\ Busy
            BY <2>1, <3>2 DEF SeqsOf, Busy
        <3> QED BY <3>1, <3>3
    <2>2. CASE arrives /\ poll.at = "summary"
        <3>1. fate' = Mark(SeqsOf(Finals(poll.batch)), "told")
            BY <2>2 DEF Stop, OnItsWay
        <3>2. SeqsOf(Finals(poll.batch)) \subseteq SeqsOf(poll.batch) /\ Busy
            BY <2>2 DEF SeqsOf, Busy, Finals
        <3> QED BY <3>1, <3>2
    <2>3. CASE ~(arrives /\ poll.at = "send") /\ ~(arrives /\ poll.at = "summary")
        <3>1. fate' = Mark({}, "told")
            BY <2>3 DEF Stop, OnItsWay
        <3> QED BY <3>1
    <2> QED BY <2>1, <2>2, <2>3
<1>6. fate' \in Fates
    <2>1. PICK S : fate' = Mark(S, "told")
        BY <1>5
    <2> QED BY <2>1, ShapeFacts, MarkIs
<1> QED BY <1>1, <1>2, <1>3, <1>4, <1>5, <1>6, ShapeFacts DEF RestStep, NewTypes

(* What the worker does. *)
WorkerStep ==
    \/ \E ev \in Event : AddEvent(ev)
    \/ \E n \in Seqs : PruneEvents(n)
    \/ ResetDatabase

LEMMA Steps ==
    ASSUME WatcherOK, Shape, [Next]_vars
    PROVE  WorkerStep \/ (PollStep /\ NewTypes)
<1>1. CASE UNCHANGED vars
    BY <1>1, ShapeFacts DEF vars, worker, memory, observers, PollStep, Stands, DbSame, RowSame, StoreSame, NewTypes
<1>2. CASE Worker
    BY <1>2 DEF Worker, WorkerStep
<1>3. CASE Poll
    <2>1. CASE \E b \in BOOLEAN : ProbeAnswers(b) \/ Unreachable(b) \/ AlertReturns(b)
        <3>1. PICK b \in BOOLEAN : ProbeAnswers(b) \/ Unreachable(b) \/ AlertReturns(b)
            BY <2>1
        <3> QED BY <3>1, BeginActions, RestActions DEF PollStep
    <2>2. CASE \E ok \in BOOLEAN : SummaryReturns(ok) \/ SendReturns(ok)
        <3>1. PICK ok \in BOOLEAN : SummaryReturns(ok) \/ SendReturns(ok)
            BY <2>2
        <3> QED BY <3>1, SummaryAction, SendAction DEF PollStep
    <2>3. CASE StartPoll \/ PageArrives \/ Mismatch
        <3>1. TRUE \in BOOLEAN
            OBVIOUS
        <3> QED BY <2>3, <3>1, BeginActions, PageAction, RestActions DEF PollStep
    <2>4. CASE FirstContact \/ News \/ StartOver \/ StartOverFails \/ StartOverAnswered
        BY <2>4, ContactAction, NewsAction, OverActions, AgainAction DEF PollStep
    <2>5. CASE NextEvent \/ CatchUpCloses
        BY <2>5, EventAction, CloseAction DEF PollStep
    <2> QED BY <1>3, <2>1, <2>2, <2>3, <2>4, <2>5 DEF Poll
<1>4. CASE Pull
    <2>1. CASE StartPulls
        <3>1. TRUE \in BOOLEAN
            OBVIOUS
        <3> QED BY <2>1, <3>1, RestActions DEF PollStep
    <2>2. CASE \E r \in Runs : RunQueued(r) \/ PullFails(r) \/ PullArrives(r) \/ PullRecorded(r)
        BY <2>2, PullActions DEF PollStep
    <2> QED BY <1>4, <2>1, <2>2 DEF Pull
<1>5. CASE \E keeps, arrives \in BOOLEAN : Stop(keeps, arrives)
    BY <1>5, StopAction DEF PollStep
<1> QED BY <1>1, <1>2, <1>3, <1>4, <1>5 DEF Next

(* The rows of the runs keep their types, a recorded home and a pull's record. *)
RunsStep ==
    /\ run' \in [Runs -> [home : Nat, tries : Nat, pulled : BOOLEAN]]
    /\ \A r \in Runs : run[r].home # 0 => run'[r].home = run[r].home

LEMMA RunWith ==
    ASSUME NEW R \in [Runs -> [home : Nat, tries : Nat, pulled : BOOLEAN]], NEW r \in Runs, NEW n \in Nat
    PROVE  /\ LET R2 == [R EXCEPT ![r].home = n]
              IN  /\ R2 \in [Runs -> [home : Nat, tries : Nat, pulled : BOOLEAN]] /\ R2[r].home = n
                  /\ \A q \in Runs : q # r => R2[q] = R[q]
                  /\ \A q \in Runs : R2[q].pulled = R[q].pulled
           /\ LET R2 == [R EXCEPT ![r].tries = @ + 1]
              IN  /\ R2 \in [Runs -> [home : Nat, tries : Nat, pulled : BOOLEAN]]
                  /\ \A q \in Runs : R2[q].home = R[q].home /\ R2[q].pulled = R[q].pulled
           /\ LET R2 == [R EXCEPT ![r].pulled = TRUE]
              IN  /\ R2 \in [Runs -> [home : Nat, tries : Nat, pulled : BOOLEAN]] /\ R2[r].pulled
                  /\ \A q \in Runs : R2[q].home = R[q].home /\ (q # r => R2[q].pulled = R[q].pulled)
<1> DEFINE Rec == [home : Nat, tries : Nat, pulled : BOOLEAN]
<1>1. PICK x \in Rec : x = R[r]
    OBVIOUS
<1>2. DOMAIN R = Runs /\ \A q \in Runs : R[q] \in Rec
    OBVIOUS
<1>3. LET R2 == [R EXCEPT ![r].home = n]
      IN  /\ R2 \in [Runs -> Rec] /\ R2[r].home = n
          /\ \A q \in Runs : q # r => R2[q] = R[q]
          /\ \A q \in Runs : R2[q].pulled = R[q].pulled
    BY <1>1, <1>2
<1>4. LET R2 == [R EXCEPT ![r].tries = @ + 1]
      IN  /\ R2 \in [Runs -> Rec]
          /\ \A q \in Runs : R2[q].home = R[q].home /\ R2[q].pulled = R[q].pulled
    BY <1>1, <1>2
<1>5. LET R2 == [R EXCEPT ![r].pulled = TRUE]
      IN  /\ R2 \in [Runs -> Rec] /\ R2[r].pulled
          /\ \A q \in Runs : R2[q].home = R[q].home /\ (q # r => R2[q].pulled = R[q].pulled)
    BY <1>1, <1>2
<1> QED BY <1>3, <1>4, <1>5

LEMMA RunsSteps ==
    ASSUME Shape, [Next]_vars
    PROVE  RunsStep
<1> DEFINE Table == [Runs -> [home : Nat, tries : Nat, pulled : BOOLEAN]]
<1>1. run \in Table /\ epoch \in Nat
    BY DEF Shape, Types
<1>2. CASE run' = run
    BY <1>1, <1>2 DEF RunsStep
<1>3. ASSUME NEW r \in Runs, RunQueued(r) PROVE RunsStep
    <2>1. run[r].home = 0 /\ run' = [run EXCEPT ![r].home = epoch]
        BY <1>3 DEF RunQueued
    <2>2. run' \in Table /\ \A q \in Runs : q # r => run'[q] = run[q]
        BY <1>1, <2>1, RunWith
    <2> QED BY <2>1, <2>2 DEF RunsStep
<1>4. ASSUME NEW r \in Runs, PullFails(r) PROVE RunsStep
    <2>1. run' = [run EXCEPT ![r].tries = @ + 1] /\ 0 \in Nat
        BY <1>4 DEF PullFails
    <2> QED BY <1>1, <2>1, RunWith DEF RunsStep
<1>5. ASSUME NEW r \in Runs, PullRecorded(r) PROVE RunsStep
    <2>1. run' = [run EXCEPT ![r].pulled = TRUE] /\ 0 \in Nat
        BY <1>5 DEF PullRecorded
    <2>2. run' \in Table /\ \A q \in Runs : run'[q].home = run[q].home
        <3>1. PICK x \in [home : Nat, tries : Nat, pulled : BOOLEAN] : x = run[r]
            BY <1>1
        <3> QED BY <1>1, <2>1, <3>1
    <2> QED BY <2>2 DEF RunsStep
<1>6. [Next]_vars => run' = run \/ \E r \in Runs : RunQueued(r) \/ PullFails(r) \/ PullRecorded(r)
    BY DEF Next, Worker, Poll, Pull, vars, AddEvent, PruneEvents, ResetDatabase, StartPoll, PageArrives,
           Mismatch, FirstContact, News, StartOver, StartOverFails, StartOverAnswered, NextEvent,
           CatchUpCloses, ProbeAnswers, Unreachable, AlertReturns, SummaryReturns, SendReturns,
           StartPulls, PullArrives, Stop
<1> QED BY <1>2, <1>3, <1>4, <1>5, <1>6

LEMMA WorkerTypes ==
    ASSUME WatcherOK, Shape, WorkerStep
    PROVE  /\ epoch' \in Nat \ {0} /\ log' \in Logs /\ Len(log') <= MaxSeq /\ pruned' \in 0..Len(log')
           /\ fate' \in Fates /\ UNCHANGED <<host, jobs, run, poll, fails, summarised>>
<1>1. epoch \in Nat \ {0} /\ log \in Logs /\ Len(log) <= MaxSeq /\ pruned \in 0..Len(log) /\ fate \in Fates
    BY ShapeFacts DEF Types
<1>2. ASSUME NEW ev \in Event, AddEvent(ev)
      PROVE  epoch' = epoch /\ log' \in Logs /\ Len(log') <= MaxSeq /\ pruned' = pruned /\ fate' = fate
             /\ Len(log') = Len(log) + 1
    <2>1. log' = Append(log, ev) /\ Len(log) < MaxSeq /\ epoch' = epoch /\ pruned' = pruned /\ fate' = fate
        BY <1>2 DEF AddEvent, observers
    <2>2. log' \in Logs /\ Len(log') = Len(log) + 1 /\ Len(log) \in Nat
        BY <1>1, <2>1, LongerLog
    <2> QED BY <2>1, <2>2 DEF WatcherOK
<1>3. ASSUME NEW n \in Seqs, PruneEvents(n)
      PROVE  epoch' = epoch /\ log' = log /\ pruned' \in 0..Len(log) /\ fate' = fate
    <2>1. Len(log) \in Nat /\ pruned \in Nat
        BY <1>1, LogIs
    <2> QED BY <1>3, <2>1 DEF PruneEvents, observers
<1>4. ASSUME ResetDatabase
      PROVE  epoch' = epoch + 1 /\ log' = << >> /\ pruned' = 0 /\ fate' \in Fates
    BY <1>4 DEF ResetDatabase, Fates
<1>5. UNCHANGED <<host, jobs, run, poll, fails, summarised>>
    BY DEF WorkerStep, AddEvent, PruneEvents, ResetDatabase, memory
<1>6. CASE \E ev \in Event : AddEvent(ev)
    <2>1. PICK ev \in Event : AddEvent(ev)
        BY <1>6
    <2>2. Len(log) \in Nat
        BY <1>1, LogIs
    <2> QED BY <1>1, <1>2, <1>5, <2>1, <2>2
<1>7. CASE \E n \in Seqs : PruneEvents(n)
    BY <1>1, <1>3, <1>5, <1>7
<1>8. CASE ResetDatabase
    BY <1>1, <1>4, <1>5, <1>8, NoLog DEF WatcherOK
<1> QED BY <1>6, <1>7, <1>8 DEF WorkerStep

LEMMA TypesKept ==
    ASSUME WatcherOK, Shape, [Next]_vars
    PROVE  Types'
<1>1. CASE WorkerStep
    <2>1. Types
        BY ShapeFacts
    <2> QED BY <1>1, <2>1, WorkerTypes DEF Types
<1>2. CASE PollStep /\ NewTypes
    <2>1. epoch' = epoch /\ log' = log /\ pruned' = pruned
        BY <1>2 DEF PollStep, Stands, RestStep, BeginStep, PageStep, ContactStep, AgainStep, CatchUpStep,
                    NewsStep, OverStep, OverFailsStep, SummaryStep, LeaveStep, SendStep, SaveStep, CloseStep, DbSame
    <2>2. RunsStep
        BY RunsSteps
    <2> QED BY <1>2, <2>1, <2>2, ShapeFacts DEF Types, NewTypes, RunsStep
<1> QED BY <1>1, <1>2, Steps

LEMMA ShapeKept ==
    ASSUME WatcherOK, Shape, [Next]_vars
    PROVE  Shape'
<1>1. Types'
    BY TypesKept
<1>2. CASE WorkerStep
    <2>1. host' = host /\ poll' = poll
        BY <1>2, WorkerTypes
    <2> QED BY <1>1, <2>1 DEF Shape, Reading, Busy, Finals
<1>3. CASE PollStep /\ NewTypes
    <2>0. poll'.fallback \in Nat /\ poll.fallback \in Nat /\ poll.catchUp \in BOOLEAN /\ poll'.catchUp \in BOOLEAN
        BY <1>3, ShapeFacts, Fields DEF NewTypes
    <2>1. CASE Stands
        BY <1>1, <2>1 DEF Shape, Stands, Reading, Busy, Finals, RowSame
    <2>2. CASE Rests
        BY <1>1, <2>2 DEF Shape, Rests, Resting, Reading, Busy
    <2>3. CASE BeginStep
        <3>1. /\ poll'.at = "read" /\ poll'.catchUp = (host.epoch = 0) /\ poll'.fallback = 0
              /\ poll'.batch = {} /\ poll'.pages = 0 /\ host'.epoch = host.epoch /\ host'.cursor = host.cursor
              /\ poll'.after = IF host.epoch = 0 THEN 0 ELSE host.cursor
            BY <2>3 DEF BeginStep, Begins, RowSame
        <3>2. CASE host.epoch = 0
            BY <1>1, <3>1, <3>2 DEF Shape, Reading, Busy
        <3>3. CASE host.epoch # 0
            <4>1. poll'.catchUp = FALSE /\ poll'.after = host'.cursor
                BY <3>1, <3>3
            <4> QED BY <1>1, <3>1, <4>1 DEF Shape, Reading, Busy
        <3> QED BY <3>2, <3>3
    <2>4. CASE PageStep
        BY <1>1, <2>0, <2>4 DEF Shape, PageStep, Reading, Busy, RowSame
    <2>5. ASSUME NEW b \in Batches, TakesUp(b)
          PROVE  Shape'
        <3>1. CASE b = {} /\ ~poll.catchUp
            <4>1. poll'.at = "polled" /\ poll'.batch = {} /\ poll'.fallback = 0 /\ poll'.catchUp = FALSE
                  /\ poll'.pages = 0
                BY <2>5, <3>1 DEF TakesUp
            <4> QED BY <1>1, <4>1 DEF Shape, Reading, Busy
        <3>2. CASE b = {} /\ poll.catchUp
            <4>1. poll'.at = "close" /\ poll'.batch = {} /\ poll'.fallback = 0 /\ poll'.catchUp = TRUE
                BY <2>5, <3>2 DEF TakesUp
            <4> QED BY <1>1, <4>1 DEF Shape, Reading, Busy
        <3>3. CASE b # {}
            <4>1. /\ poll'.at \in {"summary", "event"} /\ poll'.batch = b /\ poll'.fallback = 0
                  /\ poll'.at = "summary" => Finals(poll'.batch) # {}
                BY <2>5, <3>3 DEF TakesUp
            <4>2. poll'.at = "summary" => Finals(poll.batch)' # {}
                BY <4>1 DEF Finals
            <4> QED BY <1>1, <3>3, <4>1, <4>2 DEF Shape, Reading, Busy
        <3> QED BY <3>1, <3>2, <3>3
    <2>6. CASE ContactStep \/ AgainStep
        <3>1. TakesUp(Wanted) /\ Wanted \in Batches
            BY <2>6, ShapeFacts, BatchIs DEF ContactStep, AgainStep, CatchUpStep
        <3> QED BY <2>5, <3>1
    <2>7. CASE NewsStep
        BY <2>5, <2>7, ShapeFacts DEF NewsStep
    <2>8. CASE OverStep
        <3>1. /\ poll'.at = "read" /\ poll'.catchUp = TRUE /\ poll'.fallback = poll.head.high + 1
              /\ poll'.batch = {} /\ poll'.pages = 0 /\ poll'.after = 0
            BY <2>8 DEF OverStep, Begins
        <3>2. poll'.fallback # 0
            BY <3>1, ShapeFacts
        <3> QED BY <1>1, <3>1, <3>2 DEF Shape, Reading, Busy
    <2>9. ASSUME NEW b \in Batches, GoesOn(b), Busy
          PROVE  Shape'
        <3>0. poll.fallback = 0
            BY <2>9 DEF Shape
        <3>1. CASE b = {} /\ ~poll.catchUp
            <4>1. poll'.at = "polled" /\ poll'.batch = {} /\ poll'.fallback = 0 /\ poll'.catchUp = FALSE
                  /\ poll'.pages = 0
                BY <2>9, <3>1 DEF GoesOn
            <4> QED BY <1>1, <4>1 DEF Shape, Reading, Busy
        <3>2. CASE b = {} /\ poll.catchUp
            <4>1. poll'.at = "close" /\ poll'.batch = {} /\ poll'.fallback = 0 /\ poll'.catchUp = TRUE
                BY <2>9, <3>0, <3>2 DEF GoesOn
            <4> QED BY <1>1, <4>1 DEF Shape, Reading, Busy
        <3>3. CASE b # {}
            <4>1. poll'.at = "event" /\ poll'.batch = b /\ poll'.fallback = 0
                BY <2>9, <3>0, <3>3 DEF GoesOn
            <4> QED BY <1>1, <3>3, <4>1 DEF Shape, Reading, Busy
        <3> QED BY <3>1, <3>2, <3>3
    <2>10. CASE SummaryStep \/ LeaveStep \/ SaveStep
        <3>1. Busy
            BY <2>10 DEF SummaryStep, LeaveStep, SaveStep, Busy
        <3>2. \E b \in Batches : GoesOn(b)
            BY <2>10, ShapeFacts DEF SummaryStep, LeaveStep, SaveStep, Batches
        <3> QED BY <2>9, <3>1, <3>2
    <2>11. CASE SendStep
        BY <1>1, <2>11 DEF Shape, SendStep, Reading, Busy
    <2> QED BY <1>3, <2>1, <2>2, <2>3, <2>4, <2>6, <2>7, <2>8, <2>10, <2>11
            DEF PollStep, RestStep, OverFailsStep, CloseStep
<1> QED BY <1>2, <1>3, Steps

LEMMA ShapeAtFirst ==
    ASSUME WatcherOK, Init
    PROVE  Shape
<1>1. /\ epoch = 1 /\ log = << >> /\ pruned = 0
      /\ host = [epoch |-> 0, cursor |-> 0, incompatible |-> FALSE, alerted |-> FALSE]
      /\ jobs = {} /\ poll = AtRest /\ summarised = 0 /\ fate = [s \in Seqs |-> "open"]
      /\ fails = [s \in Seqs |-> 0] /\ run = [r \in Runs |-> [home |-> 0, tries |-> 0, pulled |-> FALSE]]
    BY DEF Init
<1>2. host \in Row /\ fate \in Fates /\ fails \in [Seqs -> Nat]
    BY <1>1 DEF Row, Fates
<1>3. run \in [Runs -> [home : Nat, tries : Nat, pulled : BOOLEAN]]
    BY <1>1
<1>4. Types
    BY <1>1, <1>2, <1>3, RestIs, NoLog DEF Types, WatcherOK
<1> QED BY <1>1, <1>4, RestIs DEF Shape, Reading, Busy

LEMMA ShapeInvariant ==
    ASSUME WatcherOK
    PROVE  Spec => []Shape
<1>1. Init => Shape
    BY ShapeAtFirst
<1>2. Shape /\ [Next]_vars => Shape'
    BY ShapeKept
<1> QED BY <1>1, <1>2, PTL DEF Spec

----------------------------------------------------------------------------
(* Databases, events and the cursor                                        *)

(* The poll has the header of a read: some pages, or all, have arrived. *)
Headed == Midway \/ poll.at = "answered"

(* The row names a database the worker has or has had, no newer one than   *)
(* what the watcher has read; a database never comes back.                 *)
Databases ==
    /\ host.epoch <= epoch
    /\ Headed => /\ host.epoch <= poll.head.epoch /\ poll.head.epoch <= epoch
                 /\ \A e \in poll.batch : poll.head.epoch <= e.epoch
    /\ Busy => \A e \in poll.batch : host.epoch <= e.epoch
    /\ Busy /\ poll.catchUp => host.epoch <= poll.head.epoch /\ poll.head.epoch <= epoch

(* A batch holds at most one event for a number; those of the present      *)
(* database are in its feed.                                               *)
Events ==
    /\ \A e \in poll.batch : e.epoch <= epoch /\ (e.epoch = epoch => e.seq \in DOMAIN log /\ e.ev = log[e.seq])
    /\ \A e, f \in poll.batch : e.seq = f.seq => e = f
    /\ poll.at = "read" => \A e \in poll.batch : e.seq <= poll.after

(* What is read or in hand of the database the row names is beyond the     *)
(* cursor, and the cursor and the ends that were read are in its feed.     *)
Cursors ==
    /\ Named => host.cursor <= Len(log)
    /\ Named /\ Reading /\ ~poll.catchUp =>
         (\A e \in poll.batch : host.cursor < e.seq) /\ (poll.at = "read" => host.cursor <= poll.after)
    /\ Named /\ Reading /\ poll.catchUp => host.cursor = 0
    /\ Named /\ Busy => \A e \in poll.batch : host.cursor < e.seq
    /\ (Headed \/ (Busy /\ poll.catchUp)) /\ poll.head.epoch = epoch => poll.head.high <= Len(log)
    /\ poll.fallback > 0 /\ Named => poll.fallback - 1 <= Len(log)
    /\ Headed /\ ~poll.catchUp /\ Named /\ poll.head.epoch = epoch =>
         poll.head.high >= host.cursor \/ host.cursor <= pruned

Sound == Shape /\ Databases /\ Events /\ Cursors

LEMMA LogFacts ==
    ASSUME Shape
    PROVE  /\ DOMAIN log = 1..Len(log) /\ Len(log) \in Nat /\ pruned \in Nat /\ pruned <= Len(log)
           /\ epoch \in Nat \ {0} /\ Len(log) <= MaxSeq /\ log \in Logs
           /\ \A s \in DOMAIN log : log[s] \in Event
           /\ \A e \in poll.batch : e \in Read_ /\ e.seq \in Seqs /\ e.epoch \in Nat /\ e.ev \in Event
           /\ Seqs = 1..MaxSeq
<1>1. Types /\ poll.batch \in Batches
    BY ShapeFacts
<1>2. log \in Logs /\ epoch \in Nat \ {0} /\ pruned \in 0..Len(log) /\ Len(log) <= MaxSeq
    BY <1>1 DEF Types
<1>3. DOMAIN log = 1..Len(log) /\ Len(log) \in Nat /\ \A s \in 1..Len(log) : log[s] \in Event
    BY <1>2, LogIs
<1>4. pruned \in Nat /\ pruned <= Len(log)
    <2>1. PICK l \in Nat : l = Len(log)
        BY <1>3
    <2> QED BY <1>2, <2>1
<1>5. \A e \in poll.batch : e \in Read_ /\ e.seq \in Seqs /\ e.epoch \in Nat /\ e.ev \in Event
    BY <1>1, BatchIs
<1> QED BY <1>1, <1>2, <1>3, <1>4, <1>5 DEF Seqs

LEMMA WorkerEffect ==
    ASSUME WatcherOK, Shape, WorkerStep
    PROVE  /\ UNCHANGED <<host, jobs, run, poll, fails, summarised>>
           /\ \/ /\ epoch' = epoch /\ pruned' = pruned /\ fate' = fate
                 /\ Len(log') = Len(log) + 1 /\ DOMAIN log' = 1..(Len(log) + 1)
                 /\ \A s \in DOMAIN log : log'[s] = log[s]
                 /\ Midway /\ poll.catchUp => "torn" \in Faults
              \/ /\ epoch' = epoch /\ log' = log /\ pruned < pruned' /\ fate' = fate
              \/ /\ epoch' = epoch + 1 /\ log' = << >> /\ pruned' = 0
                 /\ \A s \in Seqs : fate'[s] = "open"
                 /\ "burst" \in Faults \/ (summarised = 0 /\ Cardinality(poll.batch) <= Burst /\ ~Rereading)
                 /\ Midway => "torn" \in Faults
<1>1. UNCHANGED <<host, jobs, run, poll, fails, summarised>>
    BY WorkerTypes
<1>2. CASE \E ev \in Event : AddEvent(ev)
    <2>1. PICK ev \in Event : AddEvent(ev)
        BY <1>2
    <2>2. /\ log' = Append(log, ev) /\ epoch' = epoch /\ pruned' = pruned /\ fate' = fate
          /\ Midway /\ poll.catchUp => "torn" \in Faults
        BY <2>1 DEF AddEvent, observers
    <2>3. Len(log') = Len(log) + 1 /\ DOMAIN log' = 1..(Len(log) + 1) /\ \A s \in 1..Len(log) : log'[s] = log[s]
        BY <2>2, LogFacts, LongerLog
    <2> QED BY <1>1, <2>2, <2>3, LogFacts
<1>3. CASE \E n \in Seqs : PruneEvents(n)
    <2>1. PICK n \in Seqs : PruneEvents(n)
        BY <1>3
    <2>2. n \in (pruned + 1)..Len(log) /\ pruned' = n /\ epoch' = epoch /\ log' = log /\ fate' = fate
        BY <2>1 DEF PruneEvents, observers
    <2>3. pruned < pruned'
        BY <2>2, LogFacts
    <2> QED BY <1>1, <2>2, <2>3
<1>4. CASE ResetDatabase
    <2>1. /\ epoch' = epoch + 1 /\ log' = << >> /\ pruned' = 0
          /\ \A s \in Seqs : fate'[s] = "open"
          /\ "burst" \in Faults \/ (summarised = 0 /\ Cardinality(poll.batch) <= Burst /\ ~Rereading)
          /\ Midway => "torn" \in Faults
        BY <1>4 DEF ResetDatabase
    <2> QED BY <1>1, <2>1
<1> QED BY <1>2, <1>3, <1>4 DEF WorkerStep

LEMMA SoundUnderWorker ==
    ASSUME WatcherOK, Sound, WorkerStep
    PROVE  (Databases /\ Events /\ Cursors)'
<1>0. Shape /\ host' = host /\ poll' = poll
    BY WorkerEffect DEF Sound
<1>1. /\ (Headed <=> Headed') /\ (Busy <=> Busy') /\ (Reading <=> Reading')
      /\ host.epoch \in Nat /\ epoch \in Nat /\ poll.head.epoch \in Nat /\ host.cursor \in Nat
      /\ poll.head.high \in Nat /\ poll.fallback \in Nat
    BY <1>0, ShapeFacts, LogFacts DEF Headed, Midway, Busy, Reading
<1>2. CASE epoch' = epoch /\ pruned' = pruned /\ Len(log') = Len(log) + 1
           /\ DOMAIN log' = 1..(Len(log) + 1) /\ \A s \in DOMAIN log : log'[s] = log[s]
    <2>1. DOMAIN log \subseteq DOMAIN log' /\ Len(log) <= Len(log') /\ Len(log') \in Nat /\ Len(log) \in Nat
        BY <1>0, <1>2, LogFacts
    <2>2. Databases'
        BY <1>0, <1>1, <1>2 DEF Sound, Databases
    <2>3. Events'
        BY <1>0, <1>1, <1>2, <2>1 DEF Sound, Events
    <2>4. Cursors'
        <3>1. PICK l \in Nat, m \in Nat : l = Len(log) /\ m = Len(log') /\ l <= m
            BY <2>1
        <3>2. \A n \in Nat : n <= l => n <= m
            BY <3>1
        <3>3. Named => host.cursor <= m
            BY <1>1, <3>1, <3>2 DEF Sound, Cursors
        <3>4. (Headed \/ (Busy /\ poll.catchUp)) /\ poll.head.epoch = epoch => poll.head.high <= m
            BY <1>1, <3>1, <3>2 DEF Sound, Cursors
        <3>5. poll.fallback > 0 /\ Named => poll.fallback - 1 <= m
            <4>1. poll.fallback > 0 => poll.fallback - 1 \in Nat
                BY <1>1
            <4> QED BY <3>1, <3>2, <4>1 DEF Sound, Cursors
        <3>6. (Named <=> Named') /\ m = Len(log)'
            BY <1>0, <1>2, <3>1 DEF Named
        <3> QED BY <1>0, <1>1, <1>2, <3>3, <3>4, <3>5, <3>6 DEF Sound, Cursors
    <2> QED BY <2>2, <2>3, <2>4
<1>3. CASE epoch' = epoch /\ log' = log /\ pruned < pruned'
    <2>1. pruned \in Nat /\ pruned' \in Nat
        BY <1>0, WorkerTypes, LogFacts, <1>3
    <2>2. Databases'
        BY <1>0, <1>1, <1>3 DEF Sound, Databases
    <2>3. Events'
        BY <1>0, <1>1, <1>3 DEF Sound, Events
    <2>4. Cursors'
        BY <1>0, <1>1, <1>3, <2>1, SMTT(30) DEF Sound, Cursors, Named
    <2> QED BY <2>2, <2>3, <2>4
<1>4. CASE epoch' = epoch + 1
    <2>1. host.epoch # epoch' /\ (Headed \/ (Busy /\ poll.catchUp) => poll.head.epoch # epoch')
        BY <1>1, <1>4 DEF Sound, Databases
    <2>2. \A e \in poll.batch : e.epoch \in Nat /\ e.epoch <= epoch
        BY <1>0, LogFacts DEF Sound, Events
    <2>3. Databases'
        BY <1>0, <1>1, <1>4 DEF Sound, Databases
    <2>4. Events'
        BY <1>0, <1>1, <1>4, <2>2 DEF Sound, Events
    <2>5. Cursors'
        BY <1>0, <1>1, <1>4, <2>1 DEF Sound, Cursors, Named
    <2> QED BY <2>3, <2>4, <2>5
<1> QED BY <1>0, <1>2, <1>3, <1>4, WorkerEffect

LEMMA SoundAtRest ==
    ASSUME WatcherOK, Sound, DbSame, Rests, NewTypes, host'.epoch = host.epoch,
           Named => host'.cursor <= Len(log)
    PROVE  (Databases /\ Events /\ Cursors)'
<1>1. ~Headed' /\ ~Busy' /\ ~Reading' /\ poll'.batch = {} /\ poll'.fallback = 0 /\ poll'.at # "read"
    BY DEF Rests, Resting, Headed, Midway, Busy, Reading
<1>2. Databases'
    BY <1>1 DEF Databases, DbSame, Sound
<1>3. Events'
    BY <1>1 DEF Events
<1>4. Cursors'
    BY <1>1 DEF Cursors, DbSame, Named
<1> QED BY <1>2, <1>3, <1>4

LEMMA SoundAtRead ==
    ASSUME WatcherOK, Sound, DbSame, NEW n \in Nat, NEW c \in BOOLEAN, NEW f \in Nat, Begins(n, c, f),
           host'.epoch <= epoch, host'.epoch = epoch => host'.cursor <= Len(log),
           host'.epoch = epoch /\ ~c => n = host'.cursor,
           host'.epoch = epoch /\ c => host'.cursor = 0,
           host'.epoch = epoch /\ f > 0 => f - 1 <= Len(log), NewTypes
    PROVE  (Databases /\ Events /\ Cursors)'
<1>1. /\ ~Headed' /\ ~Busy' /\ Reading' /\ poll'.batch = {} /\ poll'.fallback = f /\ poll'.at = "read"
      /\ poll'.after = n /\ poll'.catchUp = c
    BY DEF Begins, Headed, Midway, Busy, Reading
<1>2. Databases'
    BY <1>1 DEF Databases, DbSame
<1>3. Events'
    BY <1>1 DEF Events
<1>4. host'.cursor \in Nat
    BY RowFields DEF NewTypes
<1>5. Cursors'
    BY <1>1, <1>4 DEF Cursors, DbSame, Named
<1> QED BY <1>2, <1>3, <1>5

LEMMA SoundAtPage ==
    ASSUME WatcherOK, Sound, PageStep, NewTypes
    PROVE  (Databases /\ Events /\ Cursors)'
<1> DEFINE page == EventsAfter(poll.after)
           top == From(poll.after)
<1>0. Shape
    BY DEF Sound
<1>1. /\ poll.at = "read" /\ poll'.catchUp = poll.catchUp /\ poll'.fallback = poll.fallback
      /\ poll'.head = (IF poll.pages = 0 THEN Feed ELSE poll.head) /\ poll'.batch = poll.batch \cup page
      /\ epoch' = epoch /\ log' = log /\ pruned' = pruned
      /\ host'.epoch = host.epoch /\ host'.cursor = host.cursor
      /\ poll'.at \in {"read", "answered"} /\ (poll'.at = "read" => poll'.after = top + Page /\ poll'.pages > 0)
    BY DEF PageStep, DbSame, RowSame
<1>2. /\ top \in Nat /\ top >= poll.after /\ top >= pruned
      /\ \A e \in page : /\ e.epoch = epoch /\ e.seq \in DOMAIN log /\ e.ev = log[e.seq]
                         /\ top < e.seq /\ e.seq <= top + Page
      /\ Feed.epoch = epoch /\ Feed.high <= Len(log) /\ Feed.high \in Nat
      /\ Feed.high = Len(log) \/ (Feed.high = 0 /\ pruned >= Len(log))
    BY <1>0, ShapeFacts, PageIs
<1>3. Reading /\ ~Busy /\ Reading' /\ ~Busy' /\ Headed' /\ (poll.pages # 0 => Midway) /\ (Midway => Headed)
    BY <1>0, <1>1, ShapeFacts DEF Reading, Busy, Headed, Midway
<1>4. /\ host.epoch \in Nat /\ epoch \in Nat /\ poll.head.epoch \in Nat /\ host.cursor \in Nat
      /\ poll.head.high \in Nat /\ poll.fallback \in Nat /\ poll.after \in Nat /\ Page \in Nat
      /\ Len(log) \in Nat /\ DOMAIN log = 1..Len(log) /\ pruned \in Nat
    BY <1>0, ShapeFacts, LogFacts DEF WatcherOK
<1>5. ASSUME NEW e \in page PROVE e.seq \in Nat /\ poll.after < e.seq
    <2>0. e.seq \in DOMAIN log
        BY <1>2
    <2>3. e.seq \in Nat
        BY <1>4, <2>0
    <2>1. PICK q \in Nat, t \in Nat, a \in Nat : q = e.seq /\ t = top /\ a = poll.after
        BY <1>2, <1>4, <2>3
    <2>2. t < q /\ t >= a
        BY <1>2, <2>1
    <2> QED BY <2>1, <2>2
<1>6. \A e \in poll.batch : e.seq \in Nat /\ e.epoch \in Nat /\ e.seq <= poll.after /\ e.epoch <= epoch
    BY <1>0, <1>1, LogFacts DEF Sound, Events, Seqs
<1> HIDE DEF page, top
<1>7. Databases'
    <2>1. CASE poll.pages = 0
        <3>1. poll.batch = {}
            BY <1>0, <1>1, <2>1 DEF Shape
        <3>2. poll'.head.epoch = epoch /\ \A e \in poll'.batch : e.epoch = epoch
            BY <1>1, <1>2, <2>1, <3>1
        <3> QED BY <1>1, <1>3, <1>4, <3>2, SMTT(30) DEF Sound, Databases
    <2>2. CASE poll.pages # 0
        <3>1. poll'.head = poll.head /\ Headed
            BY <1>1, <1>3, <2>2
        <3>2. \A e \in poll'.batch : poll.head.epoch <= e.epoch
            BY <1>1, <1>2, <1>4, <3>1 DEF Sound, Databases
        <3> QED BY <1>1, <1>3, <3>1, <3>2 DEF Sound, Databases
    <2> QED BY <2>1, <2>2
<1>8. Events'
    <2>1. \A e \in poll'.batch : e.epoch <= epoch /\ (e.epoch = epoch => e.seq \in DOMAIN log /\ e.ev = log[e.seq])
        <3>1. \A e \in poll.batch : e.epoch <= epoch /\ (e.epoch = epoch => e.seq \in DOMAIN log /\ e.ev = log[e.seq])
            BY DEF Sound, Events
        <3>0. epoch <= epoch
            BY <1>4
        <3>2. \A e \in page : e.epoch <= epoch /\ (e.epoch = epoch => e.seq \in DOMAIN log /\ e.ev = log[e.seq])
            <4> SUFFICES ASSUME NEW e \in page
                         PROVE  e.epoch <= epoch /\ (e.epoch = epoch => e.seq \in DOMAIN log /\ e.ev = log[e.seq])
                OBVIOUS
            <4>1. e.epoch = epoch /\ e.seq \in DOMAIN log /\ e.ev = log[e.seq]
                BY <1>2
            <4> QED BY <3>0, <4>1
        <3> QED BY <1>1, <3>1, <3>2
    <2>2. \A e, f \in poll'.batch : e.seq = f.seq => e = f
        <3>1. ASSUME NEW e \in page, NEW f \in page, e.seq = f.seq PROVE e = f
            <4>1. PICK s, t \in DOMAIN log : /\ e = [seq |-> s, epoch |-> epoch, ev |-> log[s]]
                                            /\ f = [seq |-> t, epoch |-> epoch, ev |-> log[t]]
                BY DEF page, EventsAfter
            <4> QED BY <3>1, <4>1
        <3>2. \A e \in page, f \in poll.batch : e.seq # f.seq
            BY <1>4, <1>5, <1>6, SMTT(30)
        <3> QED BY <1>1, <3>1, <3>2 DEF Sound, Events
    <2>3. poll'.at = "read" => \A e \in poll'.batch : e.seq <= poll'.after
        <3>1. top + Page \in Nat /\ poll.after <= top + Page
            BY <1>2, <1>4
        <3>2. \A e \in poll.batch : e.seq <= top + Page
            BY <1>4, <1>6, <3>1, SMTT(30)
        <3> QED BY <1>1, <1>2, <3>2
    <2> QED BY <1>1, <2>1, <2>2, <2>3 DEF Events
<1>9. Cursors'
    <2>1. Named' <=> Named
        BY <1>1 DEF Named
    <2>2. ASSUME Named, ~poll.catchUp
          PROVE  (\A e \in poll'.batch : host.cursor < e.seq) /\ (poll'.at = "read" => host.cursor <= poll'.after)
        <3>1. host.cursor <= poll.after /\ \A e \in poll.batch : host.cursor < e.seq
            BY <1>1, <1>3, <2>2 DEF Sound, Cursors
        <3>2. \A e \in page : host.cursor < e.seq
            BY <1>4, <1>5, <3>1, SMTT(30)
        <3>3. host.cursor <= top + Page
            BY <1>2, <1>4, <3>1, SMTT(30)
        <3> QED BY <1>1, <3>1, <3>2, <3>3
    <2>3. Named /\ poll.catchUp => host.cursor = 0
        BY <1>3 DEF Sound, Cursors
    <2>4. poll'.head.epoch = epoch => poll'.head.high <= Len(log)
        BY <1>1, <1>2, <1>3 DEF Sound, Cursors
    <2>5. ~poll.catchUp /\ Named /\ poll'.head.epoch = epoch =>
            poll'.head.high >= host.cursor \/ host.cursor <= pruned
        <3>1. Named => host.cursor <= Len(log)
            BY DEF Sound, Cursors
        <3>2. CASE poll.pages = 0
            <4>1. poll'.head = Feed
                BY <1>1, <3>2
            <4>2. PICK h \in Nat, l \in Nat, u \in Nat : h = Feed.high /\ l = Len(log) /\ u = pruned
                BY <1>2, <1>4
            <4>3. h = l \/ (h = 0 /\ u >= l)
                BY <1>2, <4>2
            <4>4. Named => h >= host.cursor \/ host.cursor <= u
                BY <1>4, <3>1, <4>2, <4>3
            <4> QED BY <4>1, <4>2, <4>4
        <3>3. CASE poll.pages # 0
            BY <1>1, <1>3, <3>3 DEF Sound, Cursors
        <3> QED BY <3>2, <3>3
    <2>6. /\ Named => host.cursor <= Len(log)
          /\ poll.fallback > 0 /\ Named => poll.fallback - 1 <= Len(log)
        BY DEF Sound, Cursors
    <2> QED BY <1>1, <1>3, <2>1, <2>2, <2>3, <2>4, <2>5, <2>6 DEF Cursors
<1> QED BY <1>7, <1>8, <1>9

(* A catch-up goes on with a header of a database not older than the row's. *)
HeaderFits ==
    poll'.catchUp => /\ host'.epoch <= poll'.head.epoch /\ poll'.head.epoch <= epoch
                     /\ poll'.head.epoch = epoch => poll'.head.high <= Len(log)

LEMMA SoundInHand ==
    ASSUME WatcherOK, Sound, DbSame, NewTypes,
           poll'.batch \subseteq poll.batch, ~Reading', poll'.fallback = 0,
           host'.epoch <= epoch, \A e \in poll'.batch : host'.epoch <= e.epoch,
           HeaderFits,
           host'.epoch = epoch => host'.cursor <= Len(log) /\ \A e \in poll'.batch : host'.cursor < e.seq
    PROVE  (Databases /\ Events /\ Cursors)'
<1>1. epoch' = epoch /\ log' = log /\ pruned' = pruned /\ ~Headed' /\ poll'.at # "read"
    BY DEF DbSame, Headed, Midway, Reading
<1>2. Databases'
    BY <1>1 DEF Databases, HeaderFits
<1>3. Events'
    BY <1>1 DEF Sound, Events
<1>4. Cursors'
    BY <1>1 DEF Cursors, Named, HeaderFits
<1> QED BY <1>2, <1>3, <1>4

(* What the watcher may rely on when it has read, or has events in hand. *)
LEMMA SoundFacts ==
    ASSUME Sound
    PROVE  /\ Shape /\ host.epoch \in Nat /\ host.cursor \in Nat /\ epoch \in Nat \ {0} /\ host.epoch <= epoch
           /\ poll.head.epoch \in Nat /\ poll.head.high \in Nat /\ Len(log) \in Nat /\ DOMAIN log = 1..Len(log)
           /\ poll.batch \in Batches /\ Wanted \subseteq poll.batch /\ Wanted \in Batches
           /\ pruned \in Nat /\ pruned <= Len(log)
           /\ \A e \in poll.batch : /\ e \in Read_ /\ e.seq \in Seqs /\ e.seq \in Nat \ {0} /\ e.epoch \in Nat
                                    /\ e.ev \in Event /\ e.epoch <= epoch
                                    /\ e.epoch = epoch => e.seq \in DOMAIN log /\ e.ev = log[e.seq]
           /\ \A e, f \in poll.batch : e.seq = f.seq => e = f
           /\ Headed \/ (Busy /\ poll.catchUp) =>
                /\ host.epoch <= poll.head.epoch /\ poll.head.epoch <= epoch
                /\ poll.head.epoch = epoch => poll.head.high <= Len(log)
           /\ Headed => \A e \in poll.batch : poll.head.epoch <= e.epoch /\ host.epoch <= e.epoch
           /\ Busy => \A e \in poll.batch : host.epoch <= e.epoch
           /\ Named => host.cursor <= Len(log)
           /\ Named /\ Busy => \A e \in poll.batch : host.cursor < e.seq
           /\ Named /\ Reading => \A e \in poll.batch : host.cursor < e.seq
<1>1. Shape
    BY DEF Sound
<1>2. /\ host.epoch \in Nat /\ host.cursor \in Nat /\ epoch \in Nat \ {0}
      /\ poll.head.epoch \in Nat /\ poll.head.high \in Nat /\ Len(log) \in Nat /\ DOMAIN log = 1..Len(log)
      /\ poll.batch \in Batches /\ pruned \in Nat /\ pruned <= Len(log)
      /\ \A e \in poll.batch : e \in Read_ /\ e.seq \in Seqs /\ e.epoch \in Nat /\ e.ev \in Event
    BY <1>1, ShapeFacts, LogFacts
<1>3. Wanted \subseteq poll.batch /\ Wanted \in Batches
    BY <1>2, BatchIs
<1>4. \A e \in poll.batch : e.seq \in Nat \ {0}
    BY <1>2 DEF Seqs
<1>5. /\ \A e \in poll.batch : e.epoch <= epoch /\ (e.epoch = epoch => e.seq \in DOMAIN log /\ e.ev = log[e.seq])
      /\ \A e, f \in poll.batch : e.seq = f.seq => e = f
    BY DEF Sound, Events
<1>6. /\ host.epoch <= epoch
      /\ Headed \/ (Busy /\ poll.catchUp) => host.epoch <= poll.head.epoch /\ poll.head.epoch <= epoch
      /\ Headed => \A e \in poll.batch : poll.head.epoch <= e.epoch
      /\ Busy => \A e \in poll.batch : host.epoch <= e.epoch
    BY DEF Sound, Databases
<1>7. Headed => \A e \in poll.batch : poll.head.epoch <= e.epoch /\ host.epoch <= e.epoch
    BY <1>2, <1>6
<1>8. /\ Named => host.cursor <= Len(log)
      /\ Named /\ Busy => \A e \in poll.batch : host.cursor < e.seq
      /\ (Headed \/ (Busy /\ poll.catchUp)) /\ poll.head.epoch = epoch => poll.head.high <= Len(log)
    BY DEF Sound, Cursors
<1>9. Named /\ Reading => \A e \in poll.batch : host.cursor < e.seq
    <2>1. CASE poll.catchUp
        <3>1. Named /\ Reading => host.cursor = 0
            BY <2>1 DEF Sound, Cursors
        <3> QED BY <1>4, <3>1
    <2>2. CASE ~poll.catchUp
        BY <2>2 DEF Sound, Cursors
    <2> QED BY <2>1, <2>2
<1> QED BY <1>1, <1>2, <1>3, <1>4, <1>5, <1>6, <1>7, <1>8, <1>9

(* The batch is taken in hand, whole or in part. *)
LEMMA TookUp ==
    ASSUME Shape, NEW b \in Batches, TakesUp(b)
    PROVE  /\ ~Reading' /\ poll'.batch = b /\ poll'.fallback = 0
           /\ poll'.catchUp => poll.catchUp /\ poll'.head = poll.head
           /\ poll.catchUp => poll'.catchUp /\ Busy'
           /\ b # {} => Busy' /\ poll'.catchUp = poll.catchUp /\ poll'.at \in {"summary", "event"}
           /\ b = {} /\ ~poll.catchUp => ~Busy' /\ ~poll'.catchUp
<1>1. poll.catchUp \in BOOLEAN
    BY ShapeFacts
<1>2. CASE b # {}
    BY <1>1, <1>2 DEF TakesUp, Busy, Reading
<1>3. CASE b = {} /\ poll.catchUp
    BY <1>1, <1>3 DEF TakesUp, Busy, Reading
<1>4. CASE b = {} /\ ~poll.catchUp
    BY <1>1, <1>4 DEF TakesUp, Busy, Reading
<1> QED BY <1>2, <1>3, <1>4

LEMMA WentOn ==
    ASSUME Shape, Busy, NEW b \in Batches, GoesOn(b)
    PROVE  /\ ~Reading' /\ poll'.batch = b /\ poll'.fallback = 0
           /\ poll'.catchUp => poll.catchUp /\ poll'.head = poll.head
           /\ poll.catchUp => poll'.catchUp /\ Busy'
           /\ b # {} => Busy' /\ poll'.catchUp = poll.catchUp /\ poll'.at = "event" /\ poll'.burst = poll.burst
           /\ b = {} /\ ~poll.catchUp => ~Busy' /\ ~poll'.catchUp
           /\ b = {} => poll'.at \notin {"summary", "event", "send"}
<1>1. poll.catchUp \in BOOLEAN /\ poll.fallback = 0
    BY ShapeFacts DEF Shape
<1>2. CASE b # {}
    BY <1>1, <1>2 DEF GoesOn, Busy, Reading
<1>3. CASE b = {} /\ poll.catchUp
    BY <1>1, <1>3 DEF GoesOn, Busy, Reading
<1>4. CASE b = {} /\ ~poll.catchUp
    BY <1>1, <1>4 DEF GoesOn, Busy, Reading
<1> QED BY <1>2, <1>3, <1>4

LEMMA SoundWhenTaken ==
    ASSUME WatcherOK, Sound, ContactStep \/ AgainStep \/ NewsStep, NewTypes
    PROVE  (Databases /\ Events /\ Cursors)'
<1>0. Headed /\ Reading /\ DbSame
    BY DEF ContactStep, AgainStep, NewsStep, CatchUpStep, Headed, Reading
<1>1. CASE ContactStep
    <2>1. host'.epoch = poll.head.epoch /\ host'.cursor = 0 /\ TakesUp(Wanted)
        BY <1>1 DEF ContactStep, CatchUpStep
    <2>2. Wanted \in Batches /\ Wanted \subseteq poll.batch /\ Shape
        BY SoundFacts
    <2>3. /\ ~Reading' /\ poll'.batch \subseteq poll.batch /\ poll'.fallback = 0
          /\ poll'.catchUp => poll'.head = poll.head
        BY <2>1, <2>2, TookUp
    <2>4. \A e \in poll'.batch : host'.epoch <= e.epoch
        BY <1>0, <2>1, <2>3, SoundFacts
    <2>5. host'.epoch <= epoch /\ HeaderFits
        BY <1>0, <2>1, <2>3, SoundFacts, SMTT(30) DEF HeaderFits
    <2>6. host'.cursor <= Len(log) /\ \A e \in poll'.batch : host'.cursor < e.seq
        BY <2>1, <2>3, SoundFacts, SMTT(30)
    <2> QED BY <1>0, <2>3, <2>4, <2>5, <2>6, SoundInHand
<1>2. CASE AgainStep \/ NewsStep
    <2>1. PICK b \in Batches : b \subseteq poll.batch /\ TakesUp(b)
        BY <1>2, SoundFacts DEF AgainStep, NewsStep, CatchUpStep
    <2>2. RowSame
        BY <1>2 DEF AgainStep, NewsStep
    <2>3. /\ ~Reading' /\ poll'.batch \subseteq poll.batch /\ poll'.fallback = 0
          /\ poll'.catchUp => poll'.head = poll.head
        BY <2>1, TookUp, SoundFacts
    <2>4. \A e \in poll'.batch : host'.epoch <= e.epoch
        BY <1>0, <2>2, <2>3, SoundFacts DEF RowSame
    <2>5. host'.epoch <= epoch /\ HeaderFits
        BY <1>0, <2>2, <2>3, SoundFacts DEF RowSame, HeaderFits
    <2>6. host'.epoch = epoch => host'.cursor <= Len(log) /\ \A e \in poll'.batch : host'.cursor < e.seq
        BY <1>0, <2>2, <2>3, SoundFacts DEF RowSame, Named
    <2> QED BY <1>0, <2>3, <2>4, <2>5, <2>6, SoundInHand
<1> QED BY <1>1, <1>2

(* After a first event the others follow. *)
LEMMA FirstOfBatch ==
    ASSUME WatcherOK, Sound, poll.at \in {"event", "send"}
    PROVE  /\ First(poll.batch) \in poll.batch /\ First(poll.batch).seq \in Nat
           /\ \A f \in poll.batch : First(poll.batch).seq <= f.seq
           /\ \A f \in poll.batch \ {First(poll.batch)} : First(poll.batch).seq < f.seq
<1>1. poll.batch # {} /\ poll.batch \in Batches
    BY SoundFacts DEF Sound, Shape
<1>2. First(poll.batch) \in poll.batch /\ \A f \in poll.batch : First(poll.batch).seq <= f.seq
    BY <1>1, FirstIs DEF WatcherOK
<1>3. \A f \in poll.batch : f.seq \in Nat
    BY SoundFacts
<1>4. \A f \in poll.batch \ {First(poll.batch)} : First(poll.batch).seq # f.seq
    BY <1>2, SoundFacts
<1> QED BY <1>2, <1>3, <1>4

LEMMA SoundWhenBusy ==
    ASSUME WatcherOK, Sound, SummaryStep \/ LeaveStep \/ SendStep \/ SaveStep, NewTypes
    PROVE  (Databases /\ Events /\ Cursors)'
<1>0. Busy /\ DbSame /\ Shape
    BY DEF SummaryStep, LeaveStep, SendStep, SaveStep, Busy, Sound
<1>1. /\ ~Reading' /\ poll'.batch \subseteq poll.batch /\ poll'.fallback = 0
      /\ poll'.catchUp => poll.catchUp /\ poll'.head = poll.head
    <2>1. CASE SendStep
        BY <1>0, <2>1 DEF SendStep, Reading, Shape
    <2>2. CASE SummaryStep \/ LeaveStep \/ SaveStep
        <3>1. PICK b : GoesOn(b) /\ b \subseteq poll.batch
            BY <2>2 DEF SummaryStep, LeaveStep, SaveStep
        <3>2. b \in Batches
            BY <3>1, SoundFacts DEF Batches
        <3> QED BY <1>0, <3>1, <3>2, WentOn
    <2> QED BY <2>1, <2>2
<1>2. host'.epoch = host.epoch
    BY DEF SummaryStep, LeaveStep, SendStep, SaveStep, RowSame
<1>3. /\ \A e \in poll'.batch : host'.epoch <= e.epoch
      /\ host'.epoch <= epoch
      /\ HeaderFits
    BY <1>0, <1>1, <1>2, SoundFacts DEF HeaderFits
<1>4. host'.epoch = epoch => host'.cursor <= Len(log) /\ \A e \in poll'.batch : host'.cursor < e.seq
    <2>1. CASE SummaryStep \/ LeaveStep \/ SendStep
        BY <1>0, <1>1, <1>2, <2>1, SoundFacts DEF SummaryStep, LeaveStep, SendStep, RowSame, Named
    <2>2. CASE SaveStep
        <3> DEFINE e == First(poll.batch)
        <3>1. poll.at \in {"event", "send"} /\ host'.cursor = e.seq /\ GoesOn(poll.batch \ {e})
            BY <2>2 DEF SaveStep
        <3>2. poll.batch \ {e} \in Batches
            BY SoundFacts DEF Batches
        <3>3. poll'.batch = poll.batch \ {e}
            BY <1>0, <3>1, <3>2, WentOn
        <3>4. e \in poll.batch /\ \A f \in poll.batch \ {e} : e.seq < f.seq
            BY <3>1, FirstOfBatch
        <3>5. host.epoch = epoch => e.epoch = epoch
            <4>1. host.epoch <= e.epoch /\ e.epoch <= epoch /\ e.epoch \in Nat /\ epoch \in Nat
                BY <1>0, <3>4, SoundFacts
            <4> QED BY <4>1
        <3>6. host.epoch = epoch => e.seq \in 1..Len(log)
            BY <3>4, <3>5, SoundFacts
        <3> HIDE DEF e
        <3>7. Len(log) \in Nat
            BY SoundFacts
        <3> QED BY <1>2, <3>1, <3>3, <3>4, <3>6, <3>7
    <2> QED BY <2>1, <2>2
<1> QED BY <1>0, <1>1, <1>3, <1>4, SoundInHand

LEMMA SoundKept ==
    ASSUME WatcherOK, Sound, [Next]_vars
    PROVE  Sound'
<1>0. Shape'
    BY ShapeKept DEF Sound
<1>1. CASE WorkerStep
    BY <1>0, <1>1, SoundUnderWorker DEF Sound
<1>2. CASE PollStep /\ NewTypes
    <2>1. CASE Stands
        <3>1. Databases' /\ Events' /\ Cursors'
            BY <2>1 DEF Sound, Stands, DbSame, RowSame, Databases, Events, Cursors, Headed, Midway, Busy,
                        Reading, Named
        <3> QED BY <1>0, <3>1 DEF Sound
    <2>2. CASE RestStep
        <3>1. DbSame /\ Rests /\ host'.epoch = host.epoch /\ (Named => host'.cursor <= Len(log))
            BY <2>2, SoundFacts DEF RestStep, RowSame
        <3> QED BY <1>0, <1>2, <3>1, SoundAtRest DEF Sound
    <2>3. CASE BeginStep
        <3> DEFINE n == IF host.epoch = 0 THEN 0 ELSE host.cursor
                   c == host.epoch = 0
        <3>1. n \in Nat /\ c \in BOOLEAN /\ 0 \in Nat /\ Begins(n, c, 0) /\ DbSame
            BY <2>3, SoundFacts DEF BeginStep
        <3>2. /\ host'.epoch <= epoch /\ (host'.epoch = epoch => host'.cursor <= Len(log))
              /\ host'.epoch = epoch /\ ~c => n = host'.cursor
              /\ ~(host'.epoch = epoch /\ c) /\ ~(0 > 0)
            BY <2>3, SoundFacts DEF BeginStep, RowSame, Named
        <3> HIDE DEF n, c
        <3> QED BY <1>0, <1>2, <3>1, <3>2, SoundAtRead DEF Sound
    <2>4. CASE PageStep
        BY <1>0, <1>2, <2>4, SoundAtPage DEF Sound
    <2>5. CASE ContactStep \/ AgainStep \/ NewsStep
        BY <1>0, <1>2, <2>5, SoundWhenTaken DEF Sound
    <2>6. CASE OverStep
        <3> DEFINE f == poll.head.high + 1
        <3>0. 0 \in Nat /\ TRUE \in BOOLEAN /\ f \in Nat
            <4>1. PICK h \in Nat : h = poll.head.high
                BY SoundFacts
            <4> QED BY <4>1
        <3>1. Begins(0, TRUE, f) /\ DbSame /\ Headed
            BY <2>6 DEF OverStep, Headed
        <3>2. host'.epoch = poll.head.epoch /\ host'.cursor = 0
            BY <2>6 DEF OverStep
        <3>3. poll.head.epoch <= epoch /\ (poll.head.epoch = epoch => poll.head.high <= Len(log)) /\ 0 <= Len(log)
            BY <3>1, SoundFacts
        <3>4. f - 1 = poll.head.high
            BY SoundFacts, SMTT(30)
        <3> HIDE DEF f
        <3> QED BY <1>0, <1>2, <3>0, <3>1, <3>2, <3>3, <3>4, SoundAtRead DEF Sound
    <2>7. CASE OverFailsStep
        <3>1. DbSame /\ Rests /\ host'.epoch = host.epoch /\ (Named => host'.cursor <= Len(log))
            BY <2>7 DEF OverFailsStep, Sound, Cursors
        <3> QED BY <1>0, <1>2, <3>1, SoundAtRest DEF Sound
    <2>8. CASE SummaryStep \/ LeaveStep \/ SendStep \/ SaveStep
        BY <1>0, <1>2, <2>8, SoundWhenBusy DEF Sound
    <2>9. CASE CloseStep
        <3>1. DbSame /\ Rests /\ host'.epoch = host.epoch /\ host'.cursor = poll.head.high
            BY <2>9 DEF CloseStep
        <3>2. Busy /\ poll.catchUp
            BY <2>9 DEF CloseStep, Busy, Sound, Shape
        <3>3. Named => poll.head.high <= Len(log)
            <4>1. host.epoch <= poll.head.epoch /\ poll.head.epoch <= epoch
                  /\ host.epoch \in Nat /\ epoch \in Nat /\ poll.head.epoch \in Nat
                BY <3>2, SoundFacts
            <4>2. Named => poll.head.epoch = epoch
                BY <4>1 DEF Named
            <4> QED BY <3>2, <4>2, SoundFacts
        <3> QED BY <1>0, <1>2, <3>1, <3>3, SoundAtRest DEF Sound
    <2> QED BY <1>2, <2>1, <2>2, <2>3, <2>4, <2>5, <2>6, <2>7, <2>8, <2>9 DEF PollStep
<1>3. Shape
    BY DEF Sound
<1> QED BY <1>1, <1>2, <1>3, Steps

LEMMA SoundAtFirst ==
    ASSUME WatcherOK, Init
    PROVE  Sound
<1>1. Shape
    BY ShapeAtFirst
<1>2. poll = AtRest /\ epoch = 1 /\ host.epoch = 0
    BY DEF Init
<1>3. ~Headed /\ ~Busy /\ ~Reading /\ ~Named /\ poll.batch = {} /\ poll.fallback = 0 /\ poll.at # "read"
    BY <1>2, RestIs DEF Headed, Midway, Busy, Reading, Named
<1> QED BY <1>1, <1>2, <1>3 DEF Sound, Databases, Events, Cursors

LEMMA SoundInvariant ==
    ASSUME WatcherOK
    PROVE  Spec => []Sound
<1>1. Init => Sound
    BY SoundAtFirst
<1>2. Sound /\ [Next]_vars => Sound'
    BY SoundKept
<1> QED BY <1>1, <1>2, PTL DEF Spec

----------------------------------------------------------------------------
(* History                                                                 *)

InCatchUp == Busy /\ poll.catchUp

(* An event the watcher has passed, or will have when the catch-up closes. *)
Behind(s) ==
    s <= pruned \/ (InCatchUp /\ s <= poll.head.high) \/ (~InCatchUp /\ s <= host.cursor)

(* An event that is not going to be announced. *)
Apart(s) == \A e \in poll.batch : e.epoch = epoch => e.seq # s

Past(s) == Named /\ s \in DOMAIN log /\ Behind(s) /\ Apart(s)

(* What was history when the host met the database is behind it. *)
History == \A s \in Seqs : fate[s] = "history" => Past(s)

(* What is behind stays behind, unless a catch-up is broken off. *)
LEMMA PastKept ==
    ASSUME WatcherOK, Sound, "stop" \notin Faults, PollStep, NewTypes, NEW s \in Seqs, Past(s)
    PROVE  Past(s)'
<1>0. /\ Named /\ s \in DOMAIN log /\ Behind(s) /\ Apart(s) /\ host.epoch # 0 /\ s \in Nat \ {0}
      /\ host.epoch = epoch
    BY SoundFacts, LogFacts, SMTT(30) DEF Past, Named
<1>1. epoch' = epoch /\ log' = log /\ pruned' = pruned
    BY DEF PollStep, Stands, RestStep, BeginStep, PageStep, ContactStep, AgainStep, CatchUpStep,
           NewsStep, OverStep, OverFailsStep, SummaryStep, LeaveStep, SendStep, SaveStep, CloseStep, DbSame
<1>2. Shape /\ poll.catchUp \in BOOLEAN /\ host.cursor \in Nat /\ poll.head.high \in Nat /\ pruned \in Nat
    BY SoundFacts, ShapeFacts
<1>3. CASE Stands
    BY <1>1, <1>3 DEF Stands, RowSame, Past, Named, Behind, Apart, InCatchUp, Busy
<1>4. CASE RestStep \/ BeginStep
    <2>1. ~InCatchUp
        BY <1>0, <1>4 DEF RestStep, BeginStep, InCatchUp, Busy, Resting
    <2>2. ~InCatchUp' /\ poll'.batch = {} /\ RowSame
        BY <1>4 DEF RestStep, BeginStep, Rests, Begins, InCatchUp, Busy, Resting
    <2> QED BY <1>0, <1>1, <2>1, <2>2 DEF Past, Named, Behind, Apart, RowSame
<1>5. CASE PageStep
    <2>1. ~InCatchUp /\ ~InCatchUp' /\ RowSame /\ Reading /\ poll.at = "read"
          /\ poll'.batch = poll.batch \cup EventsAfter(poll.after)
        BY <1>5 DEF PageStep, InCatchUp, Busy, Reading
    <2>2. s <= pruned \/ s <= poll.after
        <3>1. host.cursor <= poll.after \/ host.cursor = 0
            BY <1>0, <2>1 DEF Sound, Cursors
        <3>2. poll.after \in Nat
            BY <1>2, ShapeFacts
        <3> QED BY <1>0, <1>2, <2>1, <3>1, <3>2 DEF Behind
    <2>3. ASSUME NEW e \in EventsAfter(poll.after) PROVE e.seq # s
        <3>1. /\ poll.after \in Nat /\ From(poll.after) \in Nat /\ From(poll.after) >= poll.after
              /\ From(poll.after) >= pruned /\ From(poll.after) < e.seq
            BY <1>2, ShapeFacts, PageIs
        <3> QED BY <1>0, <1>2, <2>2, <3>1
    <2> QED BY <1>0, <1>1, <2>1, <2>3 DEF Past, Named, Behind, Apart, RowSame
<1>6. CASE ContactStep
    <2>1. host.epoch = 0
        BY <1>6 DEF ContactStep, CatchUpStep, Sound, Shape, Reading
    <2> QED BY <1>0, <2>1
<1>7. CASE AgainStep
    <2>1. ~InCatchUp /\ Reading /\ poll.catchUp /\ TakesUp(Wanted) /\ RowSame
        BY <1>7 DEF AgainStep, CatchUpStep, InCatchUp, Busy, Reading
    <2>2. host.cursor = 0
        BY <1>0, <2>1 DEF Sound, Cursors
    <2>3. s <= pruned
        BY <1>0, <2>1, <2>2 DEF Behind
    <2>4. poll'.batch \subseteq poll.batch
        BY <1>2, <2>1, SoundFacts, TookUp
    <2> QED BY <1>0, <1>1, <2>1, <2>3, <2>4 DEF Past, Named, Behind, Apart, RowSame
<1>8. CASE NewsStep
    <2>1. ~InCatchUp /\ ~poll.catchUp /\ TakesUp(poll.batch) /\ RowSame
        BY <1>8 DEF NewsStep, InCatchUp, Busy, Reading
    <2>2. ~InCatchUp' /\ poll'.batch = poll.batch
        BY <1>2, <2>1, SoundFacts, TookUp DEF InCatchUp
    <2> QED BY <1>0, <1>1, <2>1, <2>2 DEF Past, Named, Behind, Apart, RowSame
<1>9. CASE OverStep
    <2>1. ~InCatchUp /\ Headed /\ ~poll.catchUp /\ WasReset /\ host'.epoch = poll.head.epoch
        BY <1>9 DEF OverStep, InCatchUp, Busy, Headed
    <2>2. ~InCatchUp' /\ poll'.batch = {}
        BY <1>9 DEF OverStep, Begins, InCatchUp, Busy
    <2>3. poll.head.epoch = epoch
        <3>1. host.epoch <= poll.head.epoch /\ poll.head.epoch <= epoch /\ poll.head.epoch \in Nat /\ epoch \in Nat
            BY <2>1, SoundFacts
        <3> QED BY <1>0, <3>1
    <2>4. poll.head.high < host.cursor
        BY <1>0, <2>1, <2>3 DEF WasReset
    <2>5. host.cursor <= pruned
        <3>1. poll.head.high >= host.cursor \/ host.cursor <= pruned
            BY <1>0, <2>1, <2>3 DEF Sound, Cursors
        <3> QED BY <1>2, <2>4, <3>1
    <2>6. s <= pruned
        BY <1>0, <1>2, <2>1, <2>5 DEF Behind
    <2> QED BY <1>0, <1>1, <2>1, <2>2, <2>3, <2>6 DEF Past, Named, Behind, Apart
<1>10. CASE OverFailsStep
    <2>1. ~InCatchUp /\ Reading /\ poll.catchUp /\ host'.epoch = host.epoch
        BY <1>10 DEF OverFailsStep, InCatchUp, Busy, Reading, Sound, Shape
    <2>2. ~InCatchUp' /\ poll'.batch = {}
        BY <1>10 DEF OverFailsStep, Rests, InCatchUp, Busy, Resting
    <2>3. host.cursor = 0
        BY <1>0, <2>1 DEF Sound, Cursors
    <2>4. s <= pruned
        BY <1>0, <2>1, <2>3 DEF Behind
    <2> QED BY <1>0, <1>1, <2>1, <2>2, <2>4 DEF Past, Named, Behind, Apart
<1>11. CASE SummaryStep \/ LeaveStep \/ SendStep
    <2>1. Busy /\ RowSame
        BY <1>11 DEF SummaryStep, LeaveStep, SendStep, Busy
    <2>2. /\ poll'.batch \subseteq poll.batch
          /\ poll'.catchUp => poll.catchUp /\ poll'.head = poll.head
          /\ poll.catchUp => poll'.catchUp /\ Busy'
        <3>1. CASE SendStep
            BY <3>1 DEF SendStep, Busy
        <3>2. CASE SummaryStep \/ LeaveStep
            <4>1. PICK b \in Batches : GoesOn(b) /\ b \subseteq poll.batch
                BY <3>2, SoundFacts, SMTT(30) DEF SummaryStep, LeaveStep, Batches
            <4> QED BY <1>2, <2>1, <4>1, WentOn
        <3> QED BY <1>11, <3>1, <3>2
    <2>3. CASE poll.catchUp
        <3>1. InCatchUp /\ InCatchUp' /\ poll'.head = poll.head
            BY <2>1, <2>2, <2>3 DEF InCatchUp
        <3> QED BY <1>0, <1>1, <2>1, <2>2, <3>1 DEF Past, Named, Behind, Apart, RowSame
    <2>4. CASE ~poll.catchUp
        <3>1. ~InCatchUp /\ ~InCatchUp'
            BY <2>2, <2>4 DEF InCatchUp
        <3> QED BY <1>0, <1>1, <2>1, <2>2, <3>1 DEF Past, Named, Behind, Apart, RowSame
    <2> QED BY <2>3, <2>4
<1>12. CASE SaveStep
    <2> DEFINE e == First(poll.batch)
    <2>1. /\ poll.at \in {"event", "send"} /\ Busy /\ host'.epoch = host.epoch /\ host'.cursor = e.seq
          /\ GoesOn(poll.batch \ {e})
        BY <1>12 DEF SaveStep, Busy
    <2>2. poll.batch \ {e} \in Batches
        BY SoundFacts DEF Batches
    <2>3. e \in poll.batch /\ e.seq \in Nat
        BY <2>1, FirstOfBatch
    <2>4. /\ poll'.batch \subseteq poll.batch
          /\ poll'.catchUp => poll.catchUp /\ poll'.head = poll.head
          /\ poll.catchUp => poll'.catchUp /\ Busy'
        BY <1>2, <2>1, <2>2, WentOn
    <2>5. host.cursor < e.seq
        BY <1>0, <2>1, <2>3, SoundFacts
    <2> HIDE DEF e
    <2>6. CASE poll.catchUp
        <3>1. InCatchUp /\ InCatchUp' /\ poll'.head = poll.head
            BY <2>1, <2>4, <2>6 DEF InCatchUp
        <3> QED BY <1>0, <1>1, <2>1, <2>4, <3>1 DEF Past, Named, Behind, Apart
    <2>7. CASE ~poll.catchUp
        <3>1. ~InCatchUp /\ ~InCatchUp'
            BY <2>4, <2>7 DEF InCatchUp
        <3>2. s <= pruned \/ s <= host'.cursor
            BY <1>0, <1>2, <2>1, <2>3, <2>5, <3>1 DEF Behind
        <3> QED BY <1>0, <1>1, <2>1, <2>4, <3>1, <3>2 DEF Past, Named, Behind, Apart
    <2> QED BY <2>6, <2>7
<1>13. CASE CloseStep
    <2>1. InCatchUp /\ host'.epoch = host.epoch /\ host'.cursor = poll.head.high
        BY <1>13 DEF CloseStep, InCatchUp, Busy, Sound, Shape
    <2>2. ~InCatchUp' /\ poll'.batch = {}
        BY <1>13 DEF CloseStep, Rests, InCatchUp, Busy, Resting
    <2> QED BY <1>0, <1>1, <2>1, <2>2 DEF Past, Named, Behind, Apart
<1> QED BY <1>3, <1>4, <1>5, <1>6, <1>7, <1>8, <1>9, <1>10, <1>11, <1>12, <1>13 DEF PollStep

(* What a step makes history of is behind after it. *)
LEMMA MadePast ==
    ASSUME WatcherOK, Sound, PollStep, NewTypes, NEW s \in Seqs, fate[s] # "history", fate'[s] = "history"
    PROVE  Past(s)'
<1>0. fate \in Fates /\ Shape /\ s \in Nat \ {0} /\ poll.fallback \in Nat /\ Len(log) \in Nat
    <2>1. Shape /\ Len(log) \in Nat
        BY SoundFacts
    <2>2. fate \in Fates /\ poll.fallback \in Nat
        BY <2>1, ShapeFacts
    <2>3. s \in Nat \ {0}
        BY DEF Seqs, WatcherOK
    <2> QED BY <2>1, <2>2, <2>3
<1>1. CASE ContactStep \/ AgainStep
    <2>1. /\ DbSame /\ poll.at = "answered" /\ poll.catchUp /\ TakesUp(Wanted)
          /\ poll.head.epoch = epoch /\ host'.epoch = epoch
          /\ fate' = Mark(1..poll.head.high \ SeqsOf(Wanted), "history")
        BY <1>1 DEF ContactStep, AgainStep, CatchUpStep, RowSame
    <2>2. s \in 1..poll.head.high /\ s \notin SeqsOf(Wanted)
        BY <1>0, <2>1, MarkIs
    <2>3. poll'.batch = Wanted /\ InCatchUp' /\ poll'.head = poll.head
        BY <2>1, SoundFacts, TookUp DEF InCatchUp
    <2>4. Apart(s)'
        BY <2>1, <2>2, <2>3 DEF Apart, SeqsOf, Ours, DbSame
    <2>5. poll.head.high <= Len(log) /\ poll.head.high \in Nat /\ DOMAIN log = 1..Len(log)
        BY <2>1, SoundFacts DEF Headed
    <2>6. s <= poll.head.high /\ s \in DOMAIN log
        BY <1>0, <2>2, <2>5
    <2> QED BY <2>1, <2>3, <2>4, <2>6 DEF Past, Named, Behind, DbSame
<1>2. CASE OverFailsStep
    <2>1. /\ DbSame /\ Rests /\ poll.fallback > 0 /\ host'.epoch = host.epoch /\ host'.cursor = poll.fallback - 1
          /\ fate' = Mark(IF Named THEN 1..(poll.fallback - 1) ELSE {}, "history")
        BY <1>2 DEF OverFailsStep
    <2>2. Named /\ s \in 1..(poll.fallback - 1)
        BY <1>0, <2>1, MarkIs, SMTT(30)
    <2>3. poll.fallback - 1 <= Len(log) /\ DOMAIN log = 1..Len(log)
        BY <2>1, <2>2, SoundFacts DEF Sound, Cursors
    <2>4. s <= poll.fallback - 1 /\ s \in DOMAIN log
        BY <1>0, <2>2, <2>3
    <2>5. ~InCatchUp' /\ poll'.batch = {}
        BY <2>1 DEF Rests, Resting, InCatchUp, Busy
    <2> QED BY <2>1, <2>2, <2>4, <2>5 DEF Past, Named, Behind, Apart, DbSame
<1>3. CASE ~ContactStep /\ ~AgainStep /\ ~OverFailsStep
    <2>1. CASE fate' = fate
        BY <2>1
    <2>2. ASSUME NEW S, NEW w \in {"told", "dropped"}, fate' = Mark(S, w) PROVE FALSE
        BY <1>0, <2>2, MarkIs
    <2>3. fate' = fate \/ \E S : fate' = Mark(S, "told") \/ fate' = Mark(S, "dropped")
        <3>1. CASE RestStep
            BY <3>1 DEF RestStep
        <3>2. CASE ~RestStep
            BY <1>3, <3>2 DEF PollStep, Stands, BeginStep, PageStep, NewsStep, OverStep,
                        SummaryStep, LeaveStep, SendStep, SaveStep, PassedOver, Sent, GivenUp, CloseStep
        <3> QED BY <3>1, <3>2
    <2> QED BY <2>1, <2>2, <2>3
<1> QED BY <1>1, <1>2, <1>3

(* Only an event in hand is told or given up. *)
LEMMA HistoryLeft ==
    ASSUME WatcherOK, Sound, PollStep, NewTypes, NEW s \in Seqs, fate[s] = "history", fate'[s] # "history"
    PROVE  Busy /\ s \in SeqsOf(poll.batch)
<1>0. fate \in Fates
    BY SoundFacts, ShapeFacts
<1>1. ASSUME NEW S, fate' = Mark(S, "history") PROVE FALSE
    BY <1>0, <1>1, MarkIs
<1>2. ASSUME NEW S, NEW w \in {"told", "dropped"}, fate' = Mark(S, w) PROVE s \in S
    BY <1>0, <1>2, MarkIs
<1>3. CASE Stands \/ BeginStep \/ PageStep \/ NewsStep \/ OverStep \/ LeaveStep \/ SendStep \/ CloseStep
    BY <1>3 DEF Stands, BeginStep, PageStep, NewsStep, OverStep, LeaveStep, SendStep, CloseStep
<1>4. CASE RestStep
    BY <1>2, <1>4 DEF RestStep
<1>5. CASE ContactStep \/ AgainStep \/ OverFailsStep
    BY <1>1, <1>5 DEF ContactStep, AgainStep, CatchUpStep, OverFailsStep
<1>6. CASE SummaryStep
    <2>1. SeqsOf(Finals(poll.batch)) \subseteq SeqsOf(poll.batch)
        BY DEF SeqsOf, Finals
    <2> QED BY <1>2, <1>6, <2>1 DEF SummaryStep, Busy
<1>7. CASE SaveStep
    <2> DEFINE e == First(poll.batch)
    <2>1. e \in poll.batch /\ Busy
        BY <1>7, FirstOfBatch DEF SaveStep, Busy
    <2> HIDE DEF e
    <2>2. SeqsOf({e}) \subseteq SeqsOf(poll.batch)
        BY <2>1 DEF SeqsOf
    <2>3. {t \in SeqsOf({e}) : fate[t] = "open"} \subseteq SeqsOf(poll.batch)
        BY <2>2
    <2>4. PassedOver(e) \/ Sent(e) \/ GivenUp(e)
        BY <1>7 DEF SaveStep, e
    <2> QED BY <1>2, <2>1, <2>2, <2>3, <2>4 DEF PassedOver, Sent, GivenUp
<1> QED BY <1>3, <1>4, <1>5, <1>6, <1>7 DEF PollStep

LEMMA HistoryKept ==
    ASSUME WatcherOK, Sound, History, "stop" \notin Faults, [Next]_vars
    PROVE  /\ History'
           /\ epoch' = epoch => \A s \in Seqs : fate[s] = "history" => fate'[s] = "history"
<1>0. Shape
    BY DEF Sound
<1>1. CASE WorkerStep
    <2>1. host' = host /\ poll' = poll /\ (InCatchUp <=> InCatchUp')
        BY <1>0, <1>1, WorkerEffect DEF InCatchUp, Busy
    <2>2. CASE epoch' = epoch + 1 /\ \A s \in Seqs : fate'[s] = "open"
        <3>1. epoch' # epoch
            BY <2>2, SoundFacts
        <3> QED BY <2>2, <3>1 DEF History
    <2>3. CASE epoch' = epoch /\ fate' = fate /\ pruned' = pruned /\ DOMAIN log \subseteq DOMAIN log'
        BY <2>1, <2>3 DEF History, Past, Named, Behind, Apart
    <2>4. CASE epoch' = epoch /\ fate' = fate /\ log' = log /\ pruned < pruned'
        <3>1. pruned \in Nat /\ pruned' \in Nat /\ \A s \in Seqs : s \in Nat
            BY <1>0, <1>1, <2>4, WorkerTypes, LogFacts
        <3>2. \A s \in Seqs : s <= pruned => s <= pruned'
            BY <2>4, <3>1
        <3> QED BY <2>1, <2>4, <3>2 DEF History, Past, Named, Behind, Apart
    <2>5. DOMAIN log = 1..Len(log) /\ Len(log) \in Nat
        BY <1>0, LogFacts
    <2>6. 1..Len(log) \subseteq 1..(Len(log) + 1)
        BY <2>5
    <2> QED BY <1>0, <1>1, <2>2, <2>3, <2>4, <2>5, <2>6, WorkerEffect
<1>2. CASE PollStep /\ NewTypes
    <2>1. ASSUME NEW s \in Seqs, fate[s] = "history" PROVE fate'[s] = "history" /\ Past(s)'
        <3>1. Past(s)
            BY <2>1 DEF History
        <3>2. s \notin SeqsOf(poll.batch)
            BY <3>1 DEF Past, Apart, SeqsOf, Ours
        <3> QED BY <1>2, <2>1, <3>1, <3>2, PastKept, HistoryLeft
    <2>2. ASSUME NEW s \in Seqs, fate'[s] = "history" PROVE Past(s)'
        BY <1>2, <2>1, <2>2, MadePast
    <2>3. History'
        BY <2>2 DEF History
    <2> QED BY <2>1, <2>3
<1> QED BY <1>0, <1>1, <1>2, Steps

(* remote_watch.py, README: old history is never replayed. What was history *)
(* when the host met a worker's database is not announced, whatever the     *)
(* network loses, however often the database is replaced or pruned and      *)
(* wherever the daemon dies, except in the catch-up itself: only what is    *)
(* behind the cursor, or will be when the catch-up closes, is history.      *)
THEOREM HistoryStaysHistory ==
    ASSUME WatcherOK, "stop" \notin Faults
    PROVE  Spec => HistoryNotReplayed
<1>1. Init => History
    <2> SUFFICES ASSUME Init PROVE History
        OBVIOUS
    <2>1. \A s \in Seqs : fate[s] = "open"
        BY DEF Init
    <2> QED BY <2>1 DEF History
<1>2. Sound /\ History /\ [Next]_vars => History'
    BY HistoryKept
<1>3. Sound /\ History /\ [Next]_vars =>
        [epoch' = epoch => \A s \in Seqs : fate[s] = "history" => fate'[s] = "history"]_vars
    BY HistoryKept
<1>4. Spec => []Sound
    BY SoundInvariant
<1> QED BY <1>1, <1>2, <1>3, <1>4, PTL DEF Spec, HistoryNotReplayed

----------------------------------------------------------------------------
(* What the cursor moves over                                              *)

(* Between the events of a read, in a database that was not replaced        *)
(* meanwhile, only pruned ones and those before the cursor are missing.     *)
Gaps ==
    /\ poll.at = "answered" /\ poll.head.epoch = epoch =>
         \A e \in poll.batch : \A s \in DOMAIN log :
            s < e.seq => s \in Owed \/ s <= pruned \/ (~poll.catchUp /\ s <= host.cursor)
    /\ poll.at = "read" /\ (poll.pages > 0 => poll.head.epoch = epoch) =>
         \A s \in DOMAIN log : s <= poll.after => s \in Owed \/ s <= pruned \/ (~poll.catchUp /\ s <= host.cursor)
    /\ Midway /\ poll.head.epoch = epoch => poll.after <= Len(log)

LEMMA GapsUnderWorker ==
    ASSUME WatcherOK, Sound, Gaps, WorkerStep
    PROVE  Gaps'
<1>0. Shape /\ host' = host /\ poll' = poll /\ (Midway <=> Midway')
    BY WorkerEffect DEF Sound, Midway
<1>1. /\ DOMAIN log = 1..Len(log) /\ Len(log) \in Nat /\ pruned \in Nat /\ host.cursor \in Nat
      /\ poll.after \in Nat /\ poll.pages \in Nat /\ poll.head.epoch \in Nat /\ epoch \in Nat
      /\ pruned <= Len(log) /\ \A e \in poll.batch : e.seq \in Nat
    BY <1>0, SoundFacts, ShapeFacts
<1>2. CASE epoch' = epoch /\ pruned' = pruned /\ Len(log') = Len(log) + 1 /\ DOMAIN log' = 1..(Len(log) + 1)
    <2>1. ASSUME NEW s \in DOMAIN log' PROVE s \in DOMAIN log \/ s = Len(log) + 1
        BY <1>1, <1>2, SMTT(30)
    <2>2. ASSUME poll.at = "answered", poll.head.epoch = epoch, NEW e \in poll.batch
          PROVE  e.seq <= Len(log)
        <3>1. poll.head.epoch <= e.epoch /\ e.epoch <= epoch /\ e.epoch \in Nat
            BY <2>2, SoundFacts DEF Headed
        <3>2. e.epoch = epoch
            BY <1>1, <2>2, <3>1
        <3> QED BY <1>1, <3>2, SoundFacts, SMTT(30)
    <2>3. ASSUME poll.at = "answered", poll.head.epoch = epoch, NEW e \in poll.batch, NEW s \in DOMAIN log',
                 s < e.seq
          PROVE  s \in Owed \/ s <= pruned \/ (~poll.catchUp /\ s <= host.cursor)
        <3>1. s # Len(log) + 1
            BY <1>1, <2>2, <2>3, SMTT(30)
        <3> QED BY <2>1, <2>3, <3>1 DEF Gaps
    <2>4. ASSUME poll.at = "read", poll.pages > 0 => poll.head.epoch = epoch, NEW s \in DOMAIN log',
                 s <= poll.after
          PROVE  s \in Owed \/ s <= pruned \/ (~poll.catchUp /\ s <= host.cursor)
        <3>1. CASE s \in DOMAIN log
            BY <2>4, <3>1 DEF Gaps
        <3>2. CASE s = Len(log) + 1 /\ poll.pages > 0
            <4>1. poll.after <= Len(log)
                BY <2>4, <3>2 DEF Gaps, Midway
            <4> QED BY <1>1, <2>4, <3>2, <4>1
        <3>3. CASE s = Len(log) + 1 /\ ~(poll.pages > 0)
            <4>1. poll.pages = 0
                BY <1>1, <3>3
            <4>2. poll.after = IF poll.catchUp THEN 0 ELSE host.cursor
                BY <2>4, <4>1 DEF Sound, Shape
            <4> QED BY <1>1, <2>4, <3>3, <4>2
        <3> QED BY <2>1, <3>1, <3>2, <3>3
    <2>5. Midway /\ poll.head.epoch = epoch => poll.after <= Len(log')
        BY <1>1, <1>2 DEF Gaps
    <2> QED BY <1>0, <1>2, <2>3, <2>4, <2>5 DEF Gaps, Owed
<1>3. CASE epoch' = epoch /\ log' = log /\ pruned < pruned'
    <2>1. pruned' \in Nat
        BY <1>0, <1>1, <1>3, WorkerTypes
    <2>2. \A s \in DOMAIN log : s <= pruned => s <= pruned'
        BY <1>1, <1>3, <2>1
    <2> QED BY <1>0, <1>3, <2>2 DEF Gaps, Owed
<1>4. CASE epoch' = epoch + 1 /\ log' = << >>
    <2>1. DOMAIN log' = {}
        BY <1>4, NoLog
    <2>2. Midway => poll.head.epoch # epoch'
        <3>1. Midway => poll.head.epoch <= epoch
            BY SoundFacts DEF Headed
        <3> QED BY <1>1, <1>4, <3>1
    <2> QED BY <1>0, <2>1, <2>2 DEF Gaps
<1> QED BY <1>0, <1>2, <1>3, <1>4, WorkerEffect

(* Up to the end of a page only pruned events and those before the cursor *)
(* are missing.                                                           *)
LEMMA PageFills ==
    ASSUME WatcherOK, Sound, Gaps, PageStep, NewTypes, poll'.head.epoch = epoch,
           NEW s \in DOMAIN log, s <= From(poll.after) + Page
    PROVE  s \in Owed' \/ s <= pruned \/ (~poll.catchUp /\ s <= host.cursor)
<1> DEFINE page == EventsAfter(poll.after)
           top == From(poll.after)
<1>0. Shape /\ poll.pages \in Nat
    BY SoundFacts, ShapeFacts
<1>1. /\ poll.at = "read" /\ poll'.batch = poll.batch \cup page
      /\ poll'.head = (IF poll.pages = 0 THEN Feed ELSE poll.head)
    BY DEF PageStep
<1>2. /\ top \in Nat
      /\ top = poll.after \/ top = pruned
      /\ \A t \in DOMAIN log : top < t /\ t <= top + Page => \E e \in page : e.seq = t
      /\ Feed.epoch = epoch
    <2>1. poll.after \in Nat /\ Types
        BY <1>0, ShapeFacts
    <2> QED BY <2>1, PageIs
<1>3. DOMAIN log = 1..Len(log) /\ Len(log) \in Nat /\ pruned \in Nat /\ poll.after \in Nat
    BY <1>0, SoundFacts, ShapeFacts
<1>4. s <= top + Page
    OBVIOUS
<1> HIDE DEF page, top
<1>5. poll.pages > 0 => poll.head.epoch = epoch
    BY <1>0, <1>1
<1>6. CASE s <= poll.after
    BY <1>1, <1>5, <1>6 DEF Gaps, Owed
<1>7. CASE ~(s <= poll.after) /\ s <= top
    BY <1>2, <1>3, <1>7
<1>8. CASE ~(s <= top)
    <2>1. top < s
        BY <1>2, <1>3, <1>8
    <2>2. \E e \in page : e.seq = s
        BY <1>2, <1>4, <2>1
    <2> QED BY <1>1, <2>2 DEF Owed
<1> QED BY <1>6, <1>7, <1>8

LEMMA GapsAtPage ==
    ASSUME WatcherOK, Sound, Gaps, PageStep, NewTypes
    PROVE  Gaps'
<1> DEFINE page == EventsAfter(poll.after)
           top == From(poll.after)
           Missing(s) == s <= pruned \/ (~poll.catchUp /\ s <= host.cursor)
<1>0. Shape /\ poll.pages \in Nat
    BY SoundFacts, ShapeFacts
<1>1. /\ poll.at = "read" /\ poll'.catchUp = poll.catchUp
      /\ poll'.head = (IF poll.pages = 0 THEN Feed ELSE poll.head) /\ poll'.batch = poll.batch \cup page
      /\ epoch' = epoch /\ log' = log /\ pruned' = pruned
      /\ host'.epoch = host.epoch /\ host'.cursor = host.cursor
      /\ poll'.at = "read" => poll'.after = top + Page /\ top + Page \in DOMAIN log
    BY DEF PageStep, DbSame, RowSame
<1>2. /\ top \in Nat
      /\ top = poll.after \/ top = pruned
      /\ \A e \in page : e.seq \in DOMAIN log /\ e.seq <= top + Page
      /\ \A s \in DOMAIN log : top < s /\ s <= top + Page => \E e \in page : e.seq = s
      /\ Feed.epoch = epoch
    <2>1. poll.after \in Nat /\ Types
        BY <1>0, ShapeFacts
    <2> QED BY <2>1, PageIs
<1>3. Page \in Nat /\ DOMAIN log = 1..Len(log) /\ Len(log) \in Nat /\ pruned \in Nat /\ poll.after \in Nat
      /\ host.cursor \in Nat
    BY <1>0, SoundFacts, ShapeFacts DEF WatcherOK
<1>4. ASSUME poll'.head.epoch = epoch, NEW s \in DOMAIN log, s <= top + Page
      PROVE  s \in {e.seq : e \in poll'.batch} \/ Missing(s)
    BY <1>4, PageFills DEF Owed
<1> HIDE DEF page, top
<1>5. ASSUME NEW e \in poll'.batch PROVE e.seq <= top + Page /\ e.seq \in Nat
    <2>1. CASE e \in page
        <3>1. e.seq \in DOMAIN log /\ e.seq <= top + Page
            BY <1>2, <2>1
        <3>2. DOMAIN log \subseteq Nat
            BY <1>3
        <3> QED BY <3>1, <3>2
    <2>2. CASE e \in poll.batch
        <3>1. e.seq \in Nat /\ e.seq <= poll.after
            BY <1>1, <2>2, SoundFacts DEF Sound, Events
        <3>2. poll.after <= top
            <4>1. Types
                BY <1>0, ShapeFacts
            <4> QED BY <1>3, <4>1, PageIs DEF top
        <3> QED BY <1>2, <1>3, <3>1, <3>2
    <2> QED BY <1>1, <2>1, <2>2
<1>6. ASSUME poll'.head.epoch = epoch, NEW e \in poll'.batch, NEW s \in DOMAIN log, s < e.seq
      PROVE  s \in {f.seq : f \in poll'.batch} \/ Missing(s)
    <2>1. s <= top + Page
        BY <1>2, <1>3, <1>5, <1>6
    <2> QED BY <1>4, <1>6, <2>1
<1>7. poll'.at = "read" => poll'.after <= Len(log)
    BY <1>1, <1>3
<1>8. poll'.at = "read" => poll'.pages > 0
    BY DEF PageStep
<1> QED BY <1>1, <1>4, <1>6, <1>7, <1>8 DEF Gaps, Owed, Midway

LEMMA GapsKept ==
    ASSUME WatcherOK, Sound, Gaps, [Next]_vars
    PROVE  Gaps'
<1>0. Shape
    BY DEF Sound
<1>1. CASE PollStep /\ NewTypes
    <2>1. CASE Stands
        BY <2>1 DEF Stands, DbSame, RowSame, Gaps, Owed, Midway
    <2>2. CASE BeginStep
        <3>1. /\ poll'.at = "read" /\ poll'.pages = 0 /\ poll'.batch = {} /\ DbSame /\ RowSame
              /\ poll'.catchUp = (host.epoch = 0)
              /\ poll'.after = IF host.epoch = 0 THEN 0 ELSE host.cursor
            BY <2>2 DEF BeginStep, Begins
        <3>2. \A s \in DOMAIN log : s <= poll'.after => ~poll'.catchUp /\ s <= host'.cursor
            <4>1. \A s \in DOMAIN log : ~(s <= 0)
                BY SoundFacts
            <4>2. CASE host.epoch = 0
                BY <3>1, <4>1, <4>2
            <4>3. CASE host.epoch # 0
                BY <3>1, <4>3 DEF RowSame
            <4> QED BY <4>2, <4>3
        <3> QED BY <3>1, <3>2 DEF Gaps, DbSame, Midway
    <2>3. CASE PageStep
        BY <1>1, <2>3, GapsAtPage
    <2>4. CASE OverStep
        <3>1. poll'.at = "read" /\ poll'.pages = 0 /\ poll'.after = 0 /\ DbSame
            BY <2>4 DEF OverStep, Begins
        <3>2. \A s \in DOMAIN log : ~(s <= 0)
            BY SoundFacts
        <3> QED BY <3>1, <3>2 DEF Gaps, DbSame, Midway
    <2>5. ASSUME ~Reading' PROVE Gaps'
        BY <2>5 DEF Reading, Gaps, Midway
    <2>6. CASE RestStep \/ OverFailsStep \/ CloseStep
        BY <2>5, <2>6 DEF RestStep, OverFailsStep, CloseStep, Rests, Resting, Reading
    <2>7. CASE ContactStep \/ AgainStep \/ NewsStep
        <3>1. \E b \in Batches : TakesUp(b)
            BY <2>7, SoundFacts DEF ContactStep, AgainStep, CatchUpStep, NewsStep
        <3> QED BY <1>0, <2>5, <3>1, TookUp
    <2>8. CASE SummaryStep \/ LeaveStep \/ SaveStep
        <3>1. Busy /\ \E b \in Batches : GoesOn(b)
            BY <2>8, SoundFacts DEF SummaryStep, LeaveStep, SaveStep, Batches, Busy
        <3> QED BY <1>0, <2>5, <3>1, WentOn
    <2>9. CASE SendStep
        BY <2>5, <2>9 DEF SendStep, Reading
    <2> QED BY <1>1, <2>1, <2>2, <2>3, <2>4, <2>6, <2>7, <2>8, <2>9 DEF PollStep
<1> QED BY <1>0, <1>1, GapsUnderWorker, Steps

(* Room for so many more pages of one read. *)
Room(k) == Page * (MaxPages - k)

LEMMA RoomForOneMore ==
    ASSUME WatcherOK, NEW k \in Nat
    PROVE  /\ Room(k) \in Int /\ Room(k + 1) \in Int /\ Room(k) = Room(k + 1) + Page
           /\ Room(0) = Page * MaxPages /\ (k + 1 = MaxPages => Room(k + 1) = 0)
<1>1. Page \in Int /\ MaxPages \in Int /\ k \in Int
    BY DEF WatcherOK
<1>2. PICK p \in Int, m \in Int : p = Page /\ m = MaxPages
    BY <1>1
<1>3. p * (m - k) \in Int /\ p * (m - (k + 1)) \in Int /\ p * (m - k) = p * (m - (k + 1)) + p
    BY <1>1
<1>4. p * (m - 0) = p * m
    BY <1>1
<1>5. k + 1 = m => p * (m - (k + 1)) = 0
    BY <1>1
<1> QED BY <1>2, <1>3, <1>4, <1>5 DEF Room

(* The worker keeps no more events than one read takes, so a read of its   *)
(* history ends at the end of the feed.                                    *)
ReadOut ==
    /\ Len(log) <= pruned + Page * MaxPages
    /\ Midway /\ poll.catchUp /\ poll.head.epoch = epoch => poll.head.high <= poll.after + Room(poll.pages)
    /\ poll.at = "answered" /\ poll.catchUp /\ poll.head.epoch = epoch =>
         \A s \in DOMAIN log : s <= poll.head.high => s \in Owed \/ s <= pruned

LEMMA ReadOutUnderWorker ==
    ASSUME WatcherOK, Sound, ReadOut, WorkerStep, "long" \notin Faults
    PROVE  ReadOut'
<1>0. Shape /\ host' = host /\ poll' = poll /\ (Midway <=> Midway') /\ (Midway => Headed)
      /\ (poll.at = "answered" => Headed)
    BY WorkerEffect DEF Sound, Midway, Headed
<1>1. /\ DOMAIN log = 1..Len(log) /\ Len(log) \in Nat /\ pruned \in Nat
      /\ poll.head.high \in Nat /\ poll.head.epoch \in Nat /\ epoch \in Nat
      /\ pruned <= Len(log)
      /\ Headed => poll.head.epoch <= epoch
      /\ Headed /\ poll.head.epoch = epoch => poll.head.high <= Len(log)
    BY SoundFacts
<1>2. PICK c \in Int : c = Page * MaxPages
    BY RoomForOneMore DEF WatcherOK
<1>3. Owed' = Owed /\ Room(poll.pages)' = Room(poll.pages)
    BY <1>0 DEF Owed, Room
<1>4. ASSUME NEW ev \in Event, AddEvent(ev) PROVE ReadOut'
    <2>1. log' = Append(log, ev) /\ pruned' = pruned /\ epoch' = epoch
          /\ ~(Len(log) >= pruned + Page * MaxPages)
        BY <1>4 DEF AddEvent
    <2>2. Len(log') = Len(log) + 1 /\ DOMAIN log' = 1..(Len(log) + 1)
        BY <1>0, <2>1, LogFacts, LongerLog
    <2>3. Len(log') <= pruned' + Page * MaxPages
        <3>1. PICK l \in Nat, u \in Nat : l = Len(log) /\ u = pruned
            BY <1>1
        <3>2. ~(l >= u + c)
            BY <1>2, <2>1, <3>1
        <3>3. l + 1 <= u + c
            BY <3>2
        <3> QED BY <1>2, <2>1, <2>2, <3>1, <3>3
    <2>4. ASSUME poll.at = "answered", poll.catchUp, poll.head.epoch = epoch, NEW s \in DOMAIN log',
                 s <= poll.head.high
          PROVE  s \in Owed \/ s <= pruned
        <3>1. PICK l \in Nat, h \in Nat : l = Len(log) /\ h = poll.head.high /\ h <= l /\ s <= h
            BY <1>0, <1>1, <2>4
        <3>2. s \in 1..(l + 1)
            BY <2>2, <2>4, <3>1
        <3>3. s \in 1..l
            BY <3>1, <3>2
        <3>4. s \in DOMAIN log
            BY <1>1, <3>1, <3>3
        <3> QED BY <2>4, <3>4 DEF ReadOut
    <2> QED BY <1>0, <1>3, <2>1, <2>3, <2>4 DEF ReadOut
<1>5. ASSUME NEW n \in Seqs, PruneEvents(n) PROVE ReadOut'
    <2>1. log' = log /\ epoch' = epoch /\ pruned' = n /\ n \in (pruned + 1)..Len(log)
        BY <1>5 DEF PruneEvents
    <2>2. n \in Nat /\ pruned < n
        <3>1. PICK l \in Nat, u \in Nat : l = Len(log) /\ u = pruned
            BY <1>1
        <3>2. n \in (u + 1)..l
            BY <2>1, <3>1
        <3> QED BY <3>1, <3>2
    <2>3. Len(log) <= pruned' + Page * MaxPages
        <3>1. Len(log) <= pruned + c
            BY <1>2 DEF ReadOut
        <3>2. Len(log) <= n + c
            BY <1>1, <2>2, <3>1
        <3> QED BY <1>2, <2>1, <3>2
    <2>4. \A s \in DOMAIN log : s <= pruned => s <= pruned'
        BY <1>1, <2>1, <2>2
    <2> QED BY <1>0, <1>3, <2>1, <2>3, <2>4 DEF ReadOut
<1>6. CASE ResetDatabase
    <2>1. epoch' = epoch + 1 /\ log' = << >> /\ pruned' = 0
        BY <1>6 DEF ResetDatabase
    <2>2. DOMAIN log' = {} /\ Len(log') = 0
        BY <2>1, NoLog
    <2>3. Midway => poll.head.epoch # epoch'
        BY <1>0, <1>1, <2>1
    <2>4. 0 <= 0 + Page * MaxPages
        <3>1. Page \in Nat /\ MaxPages \in Nat
            BY DEF WatcherOK
        <3> QED BY <3>1
    <2> QED BY <1>0, <2>1, <2>2, <2>3, <2>4 DEF ReadOut
<1> QED BY <1>4, <1>5, <1>6 DEF WorkerStep

LEMMA ReadOutAtPage ==
    ASSUME WatcherOK, Sound, Gaps, ReadOut, PageStep, NewTypes
    PROVE  ReadOut'
<1> DEFINE top == From(poll.after)
<1>0. Shape /\ poll.pages \in Nat /\ poll.after \in Nat /\ Types
    BY SoundFacts, ShapeFacts
<1>1. /\ poll.at = "read" /\ poll'.catchUp = poll.catchUp
      /\ poll'.head = (IF poll.pages = 0 THEN Feed ELSE poll.head)
      /\ epoch' = epoch /\ log' = log /\ pruned' = pruned
      /\ poll'.at = "read" => poll'.after = top + Page /\ poll'.pages = poll.pages + 1
      /\ poll'.at = "answered" => top + Page \notin DOMAIN log \/ poll.pages + 1 = MaxPages
    BY DEF PageStep, DbSame
<1>2. top \in Nat /\ top >= poll.after /\ top >= pruned /\ Feed.high <= Len(log) /\ Feed.high \in Nat
    BY <1>0, PageIs
<1>3. /\ Page \in Nat \ {0} /\ DOMAIN log = 1..Len(log) /\ Len(log) \in Nat /\ pruned \in Nat
      /\ poll.head.high \in Nat
    BY SoundFacts DEF WatcherOK
<1>4. PICK r \in Int : r = Room(poll.pages + 1) /\ Room(poll.pages) = r + Page
                      /\ (poll.pages + 1 = MaxPages => r = 0)
    BY <1>0, RoomForOneMore
<1> HIDE DEF top
<1>5. ASSUME poll.catchUp, poll'.head.epoch = epoch PROVE poll'.head.high <= top + Page + r /\ poll'.head.high \in Nat
    <2>1. CASE poll.pages = 0
        <3>1. poll'.head = Feed
            BY <1>1, <2>1
        <3>2. Room(0) = Page * MaxPages /\ Room(0) = r + Page
            BY <1>4, <2>1, RoomForOneMore
        <3>3. Len(log) <= pruned + (r + Page)
            BY <3>2 DEF ReadOut
        <3> QED BY <1>2, <1>3, <3>1, <3>3
    <2>2. CASE poll.pages # 0
        <3>1. poll'.head = poll.head /\ Midway
            BY <1>0, <1>1, <2>2 DEF Midway
        <3>2. poll.head.high <= poll.after + (r + Page)
            BY <1>4, <1>5, <3>1 DEF ReadOut
        <3>3. PICK h \in Nat, a \in Nat, t \in Nat, q \in Nat :
                h = poll.head.high /\ a = poll.after /\ t = top /\ q = Page
            BY <1>0, <1>2, <1>3
        <3>4. h <= a + (r + q) /\ t >= a
            BY <1>2, <3>2, <3>3
        <3>5. h <= t + q + r
            BY <3>4
        <3> QED BY <3>1, <3>3, <3>5
    <2> QED BY <2>1, <2>2
<1>6. Midway' /\ poll'.catchUp /\ poll'.head.epoch = epoch => poll'.head.high <= poll'.after + Room(poll'.pages)
    BY <1>1, <1>4, <1>5 DEF Midway
<1>7. ASSUME poll'.at = "answered", poll'.catchUp, poll'.head.epoch = epoch, NEW s \in DOMAIN log,
             s <= poll'.head.high
      PROVE  s \in Owed' \/ s <= pruned
    <2>1. s \in Nat /\ s <= Len(log)
        BY <1>3
    <2>2. s <= top + Page
        <3>1. CASE top + Page \notin DOMAIN log
            BY <1>2, <1>3, <2>1, <3>1
        <3>2. CASE poll.pages + 1 = MaxPages
            <4>1. poll'.head.high <= top + Page + r /\ poll'.head.high \in Nat /\ r = 0
                BY <1>1, <1>4, <1>5, <1>7, <3>2
            <4>2. top + Page \in Nat /\ poll'.head.high <= top + Page
                BY <1>2, <1>3, <4>1
            <4> QED BY <1>7, <2>1, <4>1, <4>2
        <3> QED BY <1>1, <1>7, <3>1, <3>2
    <2>3. s \in Owed' \/ s <= pruned \/ (~poll.catchUp /\ s <= host.cursor)
        BY <1>7, <2>2, PageFills DEF top
    <2> QED BY <1>1, <1>7, <2>3
<1>8. Len(log') <= pruned' + Page * MaxPages
    BY <1>1 DEF ReadOut
<1> QED BY <1>1, <1>6, <1>7, <1>8 DEF ReadOut, Room

LEMMA ReadOutKept ==
    ASSUME WatcherOK, Sound, Gaps, ReadOut, "long" \notin Faults, [Next]_vars
    PROVE  ReadOut'
<1>0. Shape
    BY DEF Sound
<1>1. CASE PollStep /\ NewTypes
    <2>0. DbSame /\ Len(log') <= pruned' + Page * MaxPages
        BY <1>1 DEF PollStep, Stands, RestStep, BeginStep, PageStep, ContactStep, AgainStep, CatchUpStep, ReadOut,
               NewsStep, OverStep, OverFailsStep, SummaryStep, LeaveStep, SendStep, SaveStep, CloseStep, DbSame
    <2>1. CASE Stands
        BY <2>1 DEF Stands, DbSame, ReadOut, Owed, Midway, Room
    <2>2. CASE BeginStep \/ OverStep
        <3>1. poll'.at = "read" /\ poll'.pages = 0
            BY <2>2 DEF BeginStep, OverStep, Begins
        <3> QED BY <2>0, <3>1 DEF ReadOut, Midway
    <2>3. CASE PageStep
        BY <1>1, <2>3, ReadOutAtPage
    <2>4. ASSUME ~Reading' PROVE ReadOut'
        BY <2>0, <2>4 DEF Reading, ReadOut, Midway
    <2>5. CASE RestStep \/ OverFailsStep \/ CloseStep
        BY <2>4, <2>5 DEF RestStep, OverFailsStep, CloseStep, Rests, Resting, Reading
    <2>6. CASE ContactStep \/ AgainStep \/ NewsStep
        <3>1. \E b \in Batches : TakesUp(b)
            BY <2>6, SoundFacts DEF ContactStep, AgainStep, CatchUpStep, NewsStep
        <3> QED BY <1>0, <2>4, <3>1, TookUp
    <2>7. CASE SummaryStep \/ LeaveStep \/ SaveStep
        <3>1. Busy /\ \E b \in Batches : GoesOn(b)
            BY <2>7, SoundFacts DEF SummaryStep, LeaveStep, SaveStep, Batches, Busy
        <3> QED BY <1>0, <2>4, <3>1, WentOn
    <2>8. CASE SendStep
        BY <2>4, <2>8 DEF SendStep, Reading
    <2> QED BY <1>1, <2>1, <2>2, <2>3, <2>5, <2>6, <2>7, <2>8 DEF PollStep
<1> QED BY <1>0, <1>1, ReadOutUnderWorker, Steps

(* What the cursor is past, or will be when the events in hand are dealt with. *)
Reached(s) ==
    \/ s <= host.cursor
    \/ Busy /\ \E e \in poll.batch : s < e.seq
    \/ InCatchUp /\ s <= poll.head.high

(* Of the database the row names, whatever is reached is among these events *)
(* or is still in hand.                                                     *)
Covered(G) == Named => \A s \in DOMAIN log : Reached(s) => s \in G \/ (Busy /\ s \in Owed)

(* A step may take events off G when it has them in hand; the event it has  *)
(* dealt with, and the history it passes, are in H afterwards.              *)
Accounts(G, H) ==
    /\ \A s \in DOMAIN log : s \in G => s \in H \/ (Busy /\ s \in Owed)
    /\ \A s \in DOMAIN log : s <= pruned => s \in H
    /\ SaveStep /\ Named => First(poll.batch).seq \in H
    /\ (ContactStep \/ AgainStep) /\ Named' => \A s \in DOMAIN log :
         s <= poll.head.high \/ (\E e \in Wanted : s < e.seq) => s \in H \/ \E e \in Wanted : s = e.seq
    /\ OverFailsStep /\ Named => \A s \in DOMAIN log : s <= poll.fallback - 1 => s \in H

LEMMA CoveredStays ==
    ASSUME WatcherOK, Sound, Gaps, "unsent" \notin Faults, PollStep, NewTypes,
           NEW G, NEW H, Covered(G), Accounts(G, H)
    PROVE  Covered(H)'
<1>0. epoch' = epoch /\ log' = log /\ pruned' = pruned
    BY DEF PollStep, Stands, RestStep, BeginStep, PageStep, ContactStep, AgainStep, CatchUpStep,
           NewsStep, OverStep, OverFailsStep, SummaryStep, LeaveStep, SendStep, SaveStep, CloseStep, DbSame
<1> SUFFICES ASSUME host'.epoch = epoch, NEW s \in DOMAIN log, Reached(s)'
             PROVE  s \in H \/ (Busy' /\ s \in Owed')
    BY <1>0 DEF Covered, Named
<1>1. Shape /\ s \in Nat \ {0} /\ poll.catchUp \in BOOLEAN /\ host.cursor \in Nat
    <2>1. Shape /\ DOMAIN log = 1..Len(log) /\ Len(log) \in Nat
        BY SoundFacts
    <2>2. s \in Nat \ {0}
        BY <2>1
    <2> QED BY <2>1, <2>2, ShapeFacts
<1>2. s \in G => s \in H \/ (Busy /\ s \in Owed)
    BY DEF Accounts
<1>3. ASSUME host.epoch = epoch, Reached(s) PROVE s \in H \/ (Busy /\ s \in Owed)
    BY <1>2, <1>3 DEF Covered, Named
<1>4. ASSUME host.epoch = epoch, s <= host.cursor PROVE s \in H
    <2>1. s \in H \/ (Busy /\ s \in Owed)
        BY <1>3, <1>4 DEF Reached
    <2>2. ~(Busy /\ s \in Owed)
        <3>1. ASSUME Busy, NEW e \in poll.batch PROVE s # e.seq
            <4>1. host.cursor < e.seq /\ e.seq \in Nat
                BY <1>4, <3>1, SoundFacts DEF Named
            <4> QED BY <1>1, <1>4, <4>1
        <3> QED BY <3>1 DEF Owed
    <2> QED BY <2>1, <2>2
<1>5. CASE Stands
    BY <1>3, <1>5 DEF Stands, RowSame, Reached, InCatchUp, Busy, Owed
<1>6. CASE RestStep \/ BeginStep \/ PageStep
    <2>1. ~Busy' /\ RowSame
        BY <1>6 DEF RestStep, BeginStep, PageStep, Rests, Begins, Resting, Busy
    <2> QED BY <1>4, <2>1 DEF Reached, InCatchUp, RowSame
<1>7. CASE ContactStep \/ AgainStep
    <2>1. host'.cursor = 0
        <3>1. CASE ContactStep
            BY <3>1 DEF ContactStep
        <3>2. CASE AgainStep
            BY <3>2 DEF AgainStep, CatchUpStep, RowSame, Sound, Cursors, Named, Reading
        <3> QED BY <1>7, <3>1, <3>2
    <2>2. poll.catchUp /\ TakesUp(Wanted)
        BY <1>7 DEF ContactStep, AgainStep, CatchUpStep
    <2>3. poll'.batch = Wanted /\ Busy' /\ poll'.head = poll.head
        BY <1>1, <2>2, SoundFacts, TookUp
    <2>4. s <= poll.head.high \/ \E e \in Wanted : s < e.seq
        BY <1>1, <2>1, <2>3 DEF Reached, InCatchUp
    <2>5. s \in H \/ \E e \in Wanted : s = e.seq
        BY <1>0, <1>7, <2>4 DEF Accounts, Named
    <2> QED BY <2>3, <2>5 DEF Owed
<1>8. CASE NewsStep
    <2>1. /\ poll.at = "answered" /\ ~poll.catchUp /\ ~WasReset /\ TakesUp(poll.batch) /\ RowSame /\ ~Busy
        BY <1>8 DEF NewsStep, Busy
    <2>2. /\ poll'.batch = poll.batch /\ ~InCatchUp'
          /\ poll.batch # {} => Busy'
        BY <1>1, <2>1, SoundFacts, TookUp DEF InCatchUp
    <2>3. host.epoch = epoch /\ poll.head.epoch = epoch
        BY <2>1 DEF RowSame, WasReset
    <2>4. CASE s <= host'.cursor
        BY <1>4, <2>1, <2>3, <2>4 DEF RowSame
    <2>5. CASE \E e \in poll.batch : s < e.seq
        <3>1. s \in Owed \/ s <= pruned \/ s <= host.cursor
            BY <2>1, <2>3, <2>5 DEF Gaps
        <3>2. s <= pruned => s \in H
            BY DEF Accounts
        <3>3. Owed' = Owed /\ Busy'
            BY <2>2, <2>5 DEF Owed
        <3> QED BY <1>4, <2>3, <3>1, <3>2, <3>3
    <2> QED BY <2>2, <2>4, <2>5 DEF Reached
<1>9. CASE OverStep
    <2>1. ~Busy' /\ host'.cursor = 0
        BY <1>9 DEF OverStep, Begins, Busy
    <2>2. s <= 0
        BY <2>1 DEF Reached, InCatchUp
    <2> QED BY <1>1, <2>2
<1>10. CASE OverFailsStep
    <2>1. ~Busy' /\ host'.epoch = host.epoch /\ host'.cursor = poll.fallback - 1
        BY <1>10 DEF OverFailsStep, Rests, Resting, Busy
    <2>2. s <= poll.fallback - 1
        BY <2>1 DEF Reached, InCatchUp
    <2> QED BY <1>10, <2>1, <2>2 DEF Accounts, Named
<1>11. CASE SummaryStep \/ SendStep
    <2>1. Busy /\ RowSame /\ poll.batch # {}
        BY <1>11 DEF SummaryStep, SendStep, Busy, Sound, Shape
    <2>2. /\ poll'.batch = poll.batch /\ Busy' /\ poll'.catchUp = poll.catchUp
          /\ poll'.catchUp => poll'.head = poll.head
        <3>1. CASE SendStep
            BY <3>1 DEF SendStep, Busy
        <3>2. CASE SummaryStep
            BY <1>1, <2>1, <3>2, SoundFacts, WentOn DEF SummaryStep
        <3> QED BY <1>11, <3>1, <3>2
    <2>3. Reached(s)
        BY <2>1, <2>2 DEF Reached, InCatchUp, RowSame
    <2>4. Owed' = Owed
        BY <2>2 DEF Owed
    <2> QED BY <1>3, <2>1, <2>2, <2>3, <2>4 DEF RowSame
<1>12. CASE LeaveStep
    <2>1. Busy /\ RowSame /\ ~poll.catchUp /\ GoesOn({}) /\ {} \in Batches
        BY <1>12 DEF LeaveStep, Busy, Batches
    <2>2. ~Busy'
        BY <1>1, <2>1, WentOn
    <2> QED BY <1>4, <2>1, <2>2 DEF Reached, InCatchUp, RowSame
<1>13. CASE SaveStep
    <2> DEFINE e == First(poll.batch)
    <2>1. /\ poll.at \in {"event", "send"} /\ Busy /\ host'.epoch = host.epoch /\ host'.cursor = e.seq
          /\ GoesOn(poll.batch \ {e})
        BY <1>13 DEF SaveStep, Busy
    <2>2. poll.batch \ {e} \in Batches
        BY SoundFacts DEF Batches
    <2>3. /\ e \in poll.batch /\ e.seq \in Nat
          /\ \A f \in poll.batch : e.seq <= f.seq
          /\ \A f \in poll.batch \ {e} : e.seq < f.seq
        BY <2>1, FirstOfBatch
    <2>4. e.seq \in H
        BY <1>13, <2>1 DEF Accounts, Named
    <2>5. /\ poll'.batch = poll.batch \ {e}
          /\ poll'.catchUp => poll.catchUp /\ poll'.head = poll.head
          /\ poll'.batch # {} => Busy'
        BY <1>1, <2>1, <2>2, WentOn
    <2> HIDE DEF e
    <2>6. CASE s = e.seq
        BY <2>4, <2>6
    <2>7. CASE s # e.seq
        <3>1. Reached(s)
            <4>1. CASE s <= host'.cursor
                <5>1. s < e.seq
                    BY <1>1, <2>1, <2>3, <2>7, <4>1
                <5> QED BY <2>1, <2>3, <5>1 DEF Reached
            <4>2. CASE \E f \in poll'.batch : s < f.seq
                BY <2>1, <2>5, <4>2 DEF Reached
            <4>3. CASE InCatchUp' /\ s <= poll'.head.high
                BY <2>1, <2>5, <4>3 DEF Reached, InCatchUp
            <4> QED BY <4>1, <4>2, <4>3 DEF Reached
        <3>2. s \in H \/ s \in Owed
            BY <1>3, <2>1, <3>1
        <3>3. CASE s \in Owed
            <4>1. PICK f \in poll.batch : f.seq = s
                BY <3>3 DEF Owed
            <4>2. f \in poll'.batch
                BY <2>5, <2>7, <4>1
            <4> QED BY <2>5, <4>1, <4>2 DEF Owed
        <3> QED BY <3>2, <3>3
    <2> QED BY <2>6, <2>7
<1>14. CASE CloseStep
    <2>1. /\ ~Busy' /\ host'.epoch = host.epoch /\ host'.cursor = poll.head.high
          /\ InCatchUp /\ poll.batch = {}
        BY <1>14 DEF CloseStep, Rests, Resting, Busy, InCatchUp, Sound, Shape
    <2>2. s <= poll.head.high
        BY <2>1 DEF Reached, InCatchUp
    <2>3. Reached(s) /\ s \notin Owed
        BY <2>1, <2>2 DEF Reached, Owed
    <2> QED BY <1>3, <2>1, <2>3
<1> QED BY <1>5, <1>6, <1>7, <1>8, <1>9, <1>10, <1>11, <1>12, <1>13, <1>14 DEF PollStep

(* The worker adds events nobody has reached, or starts a database the row does not name. *)
LEMMA CoveredUnderWorker ==
    ASSUME WatcherOK, Sound, WorkerStep, NEW G, NEW H, Covered(G),
           epoch' = epoch => \A s \in DOMAIN log : s \in G => s \in H
    PROVE  Covered(H)'
<1>0. Shape /\ host' = host /\ poll' = poll
    BY WorkerEffect DEF Sound
<1>1. /\ DOMAIN log = 1..Len(log) /\ Len(log) \in Nat /\ host.epoch \in Nat /\ epoch \in Nat
      /\ host.epoch <= epoch /\ host.cursor \in Nat /\ poll.head.high \in Nat /\ poll.head.epoch \in Nat
    BY SoundFacts
<1>2. CASE epoch' = epoch + 1
    <2>1. host.epoch # epoch'
        BY <1>1, <1>2
    <2> QED BY <1>0, <2>1 DEF Covered, Named
<1>3. CASE epoch' = epoch
    <2> SUFFICES ASSUME Named, NEW s \in DOMAIN log', Reached(s)'
                 PROVE  s \in H \/ (Busy' /\ s \in Owed')
        BY <1>0, <1>3 DEF Covered, Named
    <2>1. Reached(s) /\ (Busy' <=> Busy) /\ Owed' = Owed
        BY <1>0 DEF Reached, Busy, InCatchUp, Owed
    <2>2. s \in DOMAIN log
        <3>1. CASE log' = log
            BY <3>1
        <3>2. CASE DOMAIN log' = 1..(Len(log) + 1)
            <4>1. ASSUME s = Len(log) + 1 PROVE FALSE
                <5>1. ~(s <= host.cursor)
                    <6>1. host.cursor <= Len(log)
                        BY SoundFacts
                    <6> QED BY <1>1, <4>1, <6>1
                <5>2. ASSUME Busy, NEW e \in poll.batch PROVE ~(s < e.seq)
                    <6>1. host.epoch <= e.epoch /\ e.epoch <= epoch /\ e.epoch \in Nat
                        BY <5>2, SoundFacts
                    <6>2. e.epoch = epoch
                        BY <1>1, <6>1 DEF Named
                    <6>3. e.seq \in 1..Len(log)
                        BY <6>2, SoundFacts
                    <6> QED BY <1>1, <4>1, <6>3
                <5>3. InCatchUp => ~(s <= poll.head.high)
                    <6> SUFFICES ASSUME InCatchUp PROVE ~(s <= poll.head.high)
                        OBVIOUS
                    <6>1. host.epoch <= poll.head.epoch /\ poll.head.epoch <= epoch
                        BY SoundFacts DEF InCatchUp
                    <6>2. poll.head.epoch = epoch
                        BY <1>1, <6>1 DEF Named
                    <6>3. poll.head.high <= Len(log)
                        BY <6>2, SoundFacts DEF InCatchUp
                    <6> QED BY <1>1, <4>1, <6>3
                <5>4. CASE s <= host.cursor
                    BY <5>1, <5>4
                <5>5. CASE Busy /\ \E e \in poll.batch : s < e.seq
                    BY <5>2, <5>5
                <5>6. CASE InCatchUp /\ s <= poll.head.high
                    BY <5>3, <5>6
                <5> QED BY <2>1, <5>4, <5>5, <5>6 DEF Reached
            <4>2. PICK l \in Nat : l = Len(log) /\ DOMAIN log = 1..l
                BY <1>1, SoundFacts
            <4>3. s \in 1..(l + 1) /\ s # l + 1
                BY <3>2, <4>1, <4>2
            <4> QED BY <4>2, <4>3
        <3> QED BY <1>0, <1>1, <1>3, <3>1, <3>2, WorkerEffect
    <2> QED BY <1>3, <2>1, <2>2 DEF Covered
<1> QED BY <1>0, <1>2, <1>3, WorkerEffect

----------------------------------------------------------------------------
(* Results to be pulled                                                    *)

(* The events whose run, if there is one to pull, is stored, and those that *)
(* could not be read.                                                       *)
KeptEvents ==
    {s \in DOMAIN log : \/ s <= pruned \/ s \in unread
                        \/ log[s].run = None \/ log[s].kind \notin {"done", "failed"}
                        \/ log[s].run \in jobs}

(* A result is stored before its message is sent. *)
StoredFirst ==
    poll.at = "send" =>
        LET e == First(poll.batch)
        IN  e.ev.kind \in {"done", "failed"} /\ e.ev.run # None => e.ev.run \in jobs

Todos(J) == Seq(J)

(* Only stored results are pulled. *)
PullsStored ==
    /\ pull \in [todo : Todos(jobs), arrived : BOOLEAN]
    /\ \A r \in Runs : run[r].pulled => r \in jobs

(* A run's row has the number of its job before an event does. *)
OnTime == \A s \in DOMAIN log : log[s].run # None => run[log[s].run].home # 0

LEMMA TodoTail ==
    ASSUME NEW J, NEW q \in Todos(J), q # << >>
    PROVE  Tail(q) \in Todos(J) /\ Head(q) \in J
    BY DEF Todos

LEMMA TodoMore ==
    ASSUME NEW J, NEW K, J \subseteq K
    PROVE  Todos(J) \subseteq Todos(K)
    BY DEF Todos

LEMMA TodoSet ==
    ASSUME NEW J, NEW S, S \subseteq J, IsFiniteSet(S)
    PROVE  SetToSeq(S) \in Todos(J)
<1>1. Cardinality(S) \in Nat /\ ExistsBijection(1..Cardinality(S), S)
    BY FS_CardinalityType
<1>2. PICK g : g \in Bijection(1..Cardinality(S), S)
    BY <1>1 DEF ExistsBijection
<1>3. \E f \in [1..Cardinality(S) -> S] : IsInjective(f)
    BY <1>2 DEF Bijection, Injection, Surjection, IsInjective
<1>4. SetToSeq(S) \in [1..Cardinality(S) -> S]
    BY <1>3 DEF SetToSeq
<1>5. [1..Cardinality(S) -> S] \subseteq Seq(J)
    BY <1>1
<1> QED BY <1>4, <1>5 DEF Todos

LEMMA JobsGrow ==
    ASSUME WatcherOK, Sound, [Next]_vars
    PROVE  jobs \subseteq jobs'
<1>0. Shape
    BY DEF Sound
<1>1. CASE WorkerStep
    BY <1>0, <1>1, WorkerTypes
<1>2. CASE PollStep
    <2>1. ASSUME NEW e \in poll.batch PROVE jobs \subseteq Stored(e)
        BY DEF Stored
    <2>2. SendStep \/ SaveStep => First(poll.batch) \in poll.batch
        BY FirstOfBatch DEF SendStep, SaveStep
    <2> QED BY <1>2, <2>1, <2>2
            DEF PollStep, Stands, RestStep, BeginStep, PageStep, ContactStep, AgainStep, CatchUpStep, NewsStep,
                OverStep, OverFailsStep, SummaryStep, LeaveStep, SendStep, SaveStep, PassedOver, Sent, GivenUp,
                CloseStep, StoreSame
<1> QED BY <1>0, <1>1, <1>2, Steps

(* What could not be read of a database stays so. *)
LEMMA UnreadGrows ==
    ASSUME [Next]_vars, epoch' = epoch, epoch \in Nat
    PROVE  unread \subseteq unread'
<1>1. CASE ResetDatabase
    BY <1>1 DEF ResetDatabase
<1>2. CASE StartOverFails
    BY <1>2 DEF StartOverFails
<1>3. [Next]_vars /\ ~ResetDatabase /\ ~StartOverFails => unread' = unread
    BY DEF Next, Worker, Poll, Pull, vars, observers, AddEvent, PruneEvents, StartPoll, PageArrives,
           Mismatch, FirstContact, News, StartOver, StartOverAnswered, NextEvent, CatchUpCloses, ProbeAnswers,
           Unreachable, AlertReturns, SummaryReturns, SendReturns, StartPulls, RunQueued, PullFails, PullArrives,
           PullRecorded, Stop
<1> QED BY <1>1, <1>2, <1>3

LEMMA PullsStoredKept ==
    ASSUME WatcherOK, Sound, PullsStored, [Next]_vars
    PROVE  PullsStored'
<1> DEFINE Task(J) == [todo : Todos(J), arrived : BOOLEAN]
<1>0. jobs \subseteq jobs' /\ Shape
    BY JobsGrow DEF Sound
<1>1. pull \in Task(jobs') /\ pull.todo \in Todos(jobs) /\ pull.arrived \in BOOLEAN
    BY <1>0, TodoMore DEF PullsStored
<1>2. CASE pull' = pull /\ run' = run
    BY <1>0, <1>1, <1>2 DEF PullsStored
<1>3. ASSUME NEW r \in Runs, RunQueued(r) PROVE PullsStored'
    <2>1. run \in [Runs -> [home : Nat, tries : Nat, pulled : BOOLEAN]] /\ epoch \in Nat
        BY <1>0, ShapeFacts DEF Types
    <2>2. run' = [run EXCEPT ![r].home = epoch] /\ pull' = pull
        BY <1>3 DEF RunQueued, memory
    <2>3. \A q \in Runs : run'[q].pulled = run[q].pulled
        BY <2>1, <2>2, RunWith
    <2> QED BY <1>0, <1>1, <2>2, <2>3 DEF PullsStored
<1>4. ASSUME NEW r \in Runs, PullFails(r) PROVE PullsStored'
    <2>1. run \in [Runs -> [home : Nat, tries : Nat, pulled : BOOLEAN]] /\ 0 \in Nat
        BY <1>0, ShapeFacts DEF Types
    <2>2. run' = [run EXCEPT ![r].tries = @ + 1] /\ pull' = [pull EXCEPT !.todo = Tail(@)] /\ pull.todo # << >>
        BY <1>4 DEF PullFails, Pulling
    <2>3. \A q \in Runs : run'[q].pulled = run[q].pulled
        BY <2>1, <2>2, RunWith
    <2>4. Tail(pull.todo) \in Todos(jobs')
        BY <1>0, <1>1, <2>2, TodoTail, TodoMore
    <2>5. pull' \in Task(jobs')
        BY <1>1, <2>2, <2>4
    <2> QED BY <1>0, <2>3, <2>5 DEF PullsStored
<1>5. ASSUME NEW r \in Runs, PullArrives(r) PROVE PullsStored'
    <2>1. run' = run /\ pull' = [pull EXCEPT !.arrived = TRUE]
        BY <1>5 DEF PullArrives
    <2>2. pull' \in Task(jobs')
        BY <1>1, <2>1
    <2> QED BY <1>0, <2>1, <2>2 DEF PullsStored
<1>6. ASSUME NEW r \in Runs, PullRecorded(r) PROVE PullsStored'
    <2>1. run \in [Runs -> [home : Nat, tries : Nat, pulled : BOOLEAN]]
        BY <1>0, ShapeFacts DEF Types
    <2>2. /\ run' = [run EXCEPT ![r].pulled = TRUE]
          /\ pull' = [todo |-> Tail(pull.todo), arrived |-> FALSE] /\ pull.todo # << >> /\ r = Head(pull.todo)
        BY <1>6 DEF PullRecorded, Pulling
    <2>3. \A q \in Runs : q # r => run'[q].pulled = run[q].pulled
        BY <2>1, <2>2
    <2>4. Tail(pull.todo) \in Todos(jobs') /\ r \in jobs
        BY <1>0, <1>1, <2>2, TodoTail, TodoMore
    <2>5. pull' \in Task(jobs')
        BY <2>2, <2>4
    <2> QED BY <1>0, <2>3, <2>4, <2>5 DEF PullsStored
<1>7. CASE StartPulls
    <2>1. run' = run /\ jobs' = jobs
          /\ pull' = IF pull.todo = << >> THEN [pull EXCEPT !.todo = SetToSeq(Pending)] ELSE pull
        BY <1>7 DEF StartPulls
    <2>2. Pending \subseteq jobs /\ jobs \subseteq Runs
        BY <1>0, ShapeFacts DEF Pending
    <2>3. IsFiniteSet(Pending)
        BY <2>2, FS_Subset DEF WatcherOK
    <2>4. SetToSeq(Pending) \in Todos(jobs)
        BY <2>2, <2>3, TodoSet
    <2>5. pull' \in Task(jobs')
        <3>1. PICK q \in Todos(jobs) : q = SetToSeq(Pending)
            BY <2>4
        <3>2. CASE pull.todo = << >>
            BY <1>1, <2>1, <3>1, <3>2
        <3>3. CASE pull.todo # << >>
            BY <1>1, <2>1, <3>3
        <3> QED BY <3>2, <3>3
    <2> QED BY <1>0, <2>1, <2>5 DEF PullsStored
<1>8. CASE \E keeps, arrives \in BOOLEAN : Stop(keeps, arrives)
    <2>1. pull' = NoPull /\ run' = run
        BY <1>8 DEF Stop
    <2>2. << >> \in Todos(jobs')
        BY DEF Todos
    <2>3. pull' \in Task(jobs')
        BY <2>1, <2>2 DEF NoPull
    <2> QED BY <1>0, <2>1, <2>3 DEF PullsStored
<1>9. [Next]_vars =>
        \/ pull' = pull /\ run' = run
        \/ \E r \in Runs : RunQueued(r) \/ PullFails(r) \/ PullArrives(r) \/ PullRecorded(r)
        \/ StartPulls
        \/ \E keeps, arrives \in BOOLEAN : Stop(keeps, arrives)
    BY DEF Next, Worker, Poll, Pull, vars, memory, AddEvent, PruneEvents, ResetDatabase, StartPoll, PageArrives,
           Mismatch, FirstContact, News, StartOver, StartOverFails, StartOverAnswered, NextEvent,
           CatchUpCloses, ProbeAnswers, Unreachable, AlertReturns, SummaryReturns, SendReturns
<1> QED BY <1>2, <1>3, <1>4, <1>5, <1>6, <1>7, <1>8, <1>9

LEMMA OnTimeKept ==
    ASSUME WatcherOK, Sound, OnTime, "late" \notin Faults, [Next]_vars
    PROVE  OnTime'
<1>0. Shape /\ RunsStep
    BY RunsSteps DEF Sound
<1>1. \A s \in DOMAIN log : log[s].run # None => log[s].run \in Runs
    BY <1>0, LogFacts DEF Event
<1>2. CASE PollStep
    <2>1. epoch' = epoch /\ log' = log
        BY <1>2 DEF PollStep, Stands, RestStep, BeginStep, PageStep, ContactStep, AgainStep, CatchUpStep,
               NewsStep, OverStep, OverFailsStep, SummaryStep, LeaveStep, SendStep, SaveStep, CloseStep, DbSame
    <2> QED BY <1>0, <1>1, <2>1 DEF OnTime, RunsStep
<1>3. ASSUME NEW ev \in Event, AddEvent(ev) PROVE OnTime'
    <2>1. /\ log' = Append(log, ev) /\ run' = run /\ epoch' = epoch
          /\ ev.run # None => run[ev.run].home # 0
        BY <1>3 DEF AddEvent
    <2>2. /\ DOMAIN log = 1..Len(log) /\ DOMAIN log' = 1..(Len(log) + 1) /\ Len(log) \in Nat
          /\ \A s \in 1..Len(log) : log'[s] = log[s]
        BY <1>0, <2>1, LogFacts, LongerLog
    <2>3. log'[Len(log) + 1] = ev
        BY <1>0, <2>1, LogFacts DEF Logs
    <2>4. \A s \in DOMAIN log' : s \in DOMAIN log \/ s = Len(log) + 1
        BY <2>2
    <2> QED BY <2>1, <2>2, <2>3, <2>4 DEF OnTime
<1>4. CASE (\E n \in Seqs : PruneEvents(n)) \/ ResetDatabase
    <2>1. run' = run /\ ((epoch' = epoch /\ log' = log) \/ log' = << >>)
        BY <1>4 DEF PruneEvents, ResetDatabase
    <2> QED BY <2>1, NoLog DEF OnTime
<1> QED BY <1>0, <1>2, <1>3, <1>4, Steps DEF WorkerStep

LEMMA StoredFirstKept ==
    ASSUME WatcherOK, Sound, StoredFirst, [Next]_vars
    PROVE  StoredFirst'
<1>0. Shape
    BY DEF Sound
<1>1. CASE WorkerStep
    <2>1. poll' = poll /\ jobs' = jobs
        BY <1>0, <1>1, WorkerTypes
    <2> QED BY <2>1 DEF StoredFirst
<1>2. CASE Stands
    BY <1>2 DEF Stands, StoredFirst, StoreSame
<1>3. CASE SendStep
    <2>1. jobs' = Stored(First(poll.batch)) /\ poll'.batch = poll.batch
        BY <1>3 DEF SendStep
    <2>2. \A e : e.ev.kind \in {"done", "failed"} /\ e.ev.run # None => e.ev.run \in Stored(e)
        BY DEF Stored, Ends, IsFinal
    <2> QED BY <2>1, <2>2 DEF StoredFirst
<1>4. CASE PollStep /\ ~Stands /\ ~SendStep
    <2>1. poll'.at # "send"
        <3>1. CASE Rests \/ BeginStep \/ PageStep \/ OverStep
            BY <3>1 DEF Rests, Resting, BeginStep, PageStep, OverStep, Begins
        <3>2. ASSUME NEW b \in Batches, TakesUp(b) PROVE poll'.at # "send"
            BY <1>0, <3>2, ShapeFacts DEF TakesUp
        <3>3. ASSUME NEW b \in Batches, GoesOn(b) PROVE poll'.at # "send"
            BY <1>0, <3>3, ShapeFacts DEF GoesOn
        <3>4. CASE ContactStep \/ AgainStep \/ NewsStep
            BY <3>2, <3>4, SoundFacts DEF ContactStep, AgainStep, CatchUpStep, NewsStep
        <3>5. CASE SummaryStep \/ LeaveStep \/ SaveStep
            <4>1. \E b \in Batches : GoesOn(b)
                BY <3>5, SoundFacts DEF SummaryStep, LeaveStep, SaveStep, Batches
            <4> QED BY <3>3, <4>1
        <3> QED BY <1>4, <3>1, <3>4, <3>5 DEF PollStep, RestStep, OverFailsStep, CloseStep
    <2> QED BY <2>1 DEF StoredFirst
<1> QED BY <1>0, <1>1, <1>2, <1>3, <1>4, Steps

LEMMA SeqOfLog ==
    ASSUME WatcherOK, Sound, NEW s \in DOMAIN log
    PROVE  s \in Seqs /\ s \in Nat \ {0}
<1>1. DOMAIN log = 1..Len(log) /\ Len(log) \in Nat /\ Len(log) <= MaxSeq /\ Seqs = 1..MaxSeq
    BY SoundFacts, LogFacts
<1>2. s \in Nat \ {0} /\ s <= Len(log)
    BY <1>1
<1> QED BY <1>1, <1>2 DEF WatcherOK

(* What a catch-up makes history of, and what it keeps in hand. *)
LEMMA CatchUpMarks ==
    ASSUME WatcherOK, Sound, NewTypes, ContactStep \/ AgainStep, Named'
    PROVE  /\ DbSame /\ poll.at = "answered" /\ poll.catchUp /\ Headed /\ poll.head.epoch = epoch
           /\ \A s \in DOMAIN log : s <= poll.head.high =>
                fate'[s] = "history" \/ \E e \in Wanted : s = e.seq
<1>1. /\ DbSame /\ poll.at = "answered" /\ poll.catchUp /\ Headed
      /\ fate' = IF poll.head.epoch = epoch /\ host'.epoch = epoch
                 THEN Mark(1..poll.head.high \ SeqsOf(Wanted), "history") ELSE fate
    BY DEF ContactStep, AgainStep, CatchUpStep, RowSame, Headed
<1>2. epoch' = epoch /\ host'.epoch = epoch
    BY <1>1 DEF DbSame, Named
<1>3. poll.head.epoch = epoch
    <2>1. CASE ContactStep
        BY <1>2, <2>1 DEF ContactStep
    <2>2. CASE AgainStep
        <3>1. host.epoch = epoch
            BY <1>2, <2>2 DEF AgainStep, RowSame
        <3> QED BY <1>1, <3>1, SoundFacts, SMTT(30)
    <2> QED BY <2>1, <2>2
<1>4. fate' = Mark(1..poll.head.high \ SeqsOf(Wanted), "history") /\ fate \in Fates
    BY <1>1, <1>2, <1>3, SoundFacts, ShapeFacts
<1>5. ASSUME NEW s \in DOMAIN log, s <= poll.head.high PROVE fate'[s] = "history" \/ \E e \in Wanted : s = e.seq
    <2>1. s \in Seqs /\ s \in Nat \ {0}
        BY SeqOfLog
    <2>2. s \in 1..poll.head.high
        BY <1>5, <2>1, SoundFacts
    <2>3. CASE s \in SeqsOf(Wanted)
        BY <2>3 DEF SeqsOf
    <2>4. CASE s \notin SeqsOf(Wanted)
        BY <1>4, <2>1, <2>2, <2>4, MarkIs
    <2> QED BY <2>3, <2>4
<1> QED BY <1>1, <1>3, <1>5

LEMMA OverFailsMarks ==
    ASSUME WatcherOK, Sound, OverFailsStep, Named, NEW s \in DOMAIN log, s <= poll.fallback - 1
    PROVE  fate'[s] = "history"
<1>1. fate' = Mark(1..(poll.fallback - 1), "history")
    BY DEF OverFailsStep
<1>2. poll.fallback \in Nat /\ fate \in Fates
    BY SoundFacts, ShapeFacts
<1>3. s \in Seqs /\ s \in Nat \ {0}
    BY SeqOfLog
<1>4. s \in 1..(poll.fallback - 1)
    BY <1>2, <1>3
<1> QED BY <1>1, <1>2, <1>3, <1>4 DEF Mark

(* Which events of a catch-up are stored, history or not.  *)
LEMMA KeptByCatchUp ==
    ASSUME WatcherOK, Sound, Gaps, ReadOut, PullsStored, OnTime, NewTypes, jobs \subseteq jobs',
           ContactStep \/ AgainStep, Named', NEW s \in DOMAIN log,
           s <= poll.head.high \/ \E e \in Wanted : s < e.seq
    PROVE  s \in KeptEvents' \/ \E e \in Wanted : s = e.seq
<1>1. DbSame /\ poll.at = "answered" /\ poll.catchUp /\ Headed /\ poll.head.epoch = epoch
    BY CatchUpMarks
<1>2. epoch' = epoch /\ log' = log /\ pruned' = pruned
    BY <1>1 DEF DbSame
<1>3. s \in Owed \/ s <= pruned
    <2>1. CASE s <= poll.head.high
        BY <1>1, <2>1 DEF ReadOut
    <2>2. CASE \E e \in Wanted : s < e.seq
        BY <1>1, <2>2, SoundFacts DEF Gaps
    <2> QED BY <2>1, <2>2
<1>4. CASE s <= pruned
    BY <1>2, <1>4 DEF KeptEvents
<1>5. CASE s \in Owed
    <2>1. PICK f \in poll.batch : f.seq = s
        BY <1>5 DEF Owed
    <2>2. poll.head.epoch <= f.epoch /\ f.epoch <= epoch /\ f.epoch \in Nat /\ epoch \in Nat
        BY <1>1, <2>1, SoundFacts
    <2>3. f.ev = log[s]
        BY <1>1, <2>1, <2>2, SoundFacts, SMTT(30)
    <2>4. CASE Mine(f)
        BY <2>1, <2>4 DEF Wanted
    <2>5. CASE ~Ends(f.ev)
        BY <1>2, <2>3, <2>5 DEF KeptEvents, Ends, IsFinal
    <2>6. CASE ~Mine(f) /\ Ends(f.ev)
        <3>1. f.ev.run # None
            BY <2>6 DEF Ends
        <3>2. run[f.ev.run].home # 0
            BY <2>3, <3>1 DEF OnTime
        <3>3. run[f.ev.run].pulled
            BY <2>6, <3>2 DEF Mine
        <3>4. f.ev.run \in Runs
            BY <2>1, <3>1, SoundFacts DEF Event
        <3>5. f.ev.run \in jobs'
            BY <3>3, <3>4 DEF PullsStored
        <3> QED BY <1>2, <2>3, <3>5 DEF KeptEvents
    <2> QED BY <2>4, <2>5, <2>6
<1> QED BY <1>3, <1>4, <1>5

(* The event the cursor moves over is stored. *)
LEMMA KeptBySave ==
    ASSUME WatcherOK, Sound, StoredFirst, NewTypes, SaveStep, Named
    PROVE  First(poll.batch).seq \in KeptEvents'
<1> DEFINE e == First(poll.batch)
<1>1. /\ DbSame /\ poll.at \in {"event", "send"} /\ Busy
      /\ PassedOver(e) \/ Sent(e) \/ GivenUp(e)
    BY DEF SaveStep, Busy
<1>2. e \in poll.batch
    BY <1>1, FirstOfBatch
<1>3. StoredFirst => (poll.at = "send" => (e.ev.kind \in {"done", "failed"} /\ e.ev.run # None => e.ev.run \in jobs))
    BY DEF StoredFirst
<1> HIDE DEF e
<1>4. host.epoch <= e.epoch /\ e.epoch <= epoch /\ e.epoch \in Nat /\ epoch \in Nat
    BY <1>1, <1>2, SoundFacts
<1>5. e.epoch = epoch
    BY <1>4 DEF Named
<1>6. e.seq \in DOMAIN log /\ e.ev = log[e.seq]
    BY <1>2, <1>5, SoundFacts
<1>7. epoch' = epoch /\ log' = log /\ pruned' = pruned
    BY <1>1 DEF DbSame
<1>8. e.ev.kind \in {"done", "failed"} /\ e.ev.run # None => e.ev.run \in jobs'
    <2>1. CASE PassedOver(e)
        BY <2>1 DEF PassedOver, Stored, Ends, IsFinal
    <2>2. CASE Sent(e) \/ GivenUp(e)
        BY <1>3, <2>2 DEF Sent, GivenUp
    <2> QED BY <1>1, <2>1, <2>2
<1>9. e.seq \in KeptEvents'
    BY <1>6, <1>7, <1>8 DEF KeptEvents
<1> QED BY <1>9 DEF e

LEMMA KeptAccounted ==
    ASSUME WatcherOK, Sound, Gaps, ReadOut, StoredFirst, PullsStored, OnTime, PollStep, NewTypes,
           jobs \subseteq jobs', unread \subseteq unread'
    PROVE  Accounts(KeptEvents, KeptEvents')
<1>1. epoch' = epoch /\ log' = log /\ pruned' = pruned
    BY DEF PollStep, Stands, RestStep, BeginStep, PageStep, ContactStep, AgainStep, CatchUpStep,
           NewsStep, OverStep, OverFailsStep, SummaryStep, LeaveStep, SendStep, SaveStep, CloseStep, DbSame
<1>4. ASSUME NEW s \in DOMAIN log, s \in KeptEvents PROVE s \in KeptEvents'
    BY <1>1, <1>4 DEF KeptEvents
<1>5. \A s \in DOMAIN log : s <= pruned => s \in KeptEvents'
    BY <1>1 DEF KeptEvents
<1>6. SaveStep /\ Named => First(poll.batch).seq \in KeptEvents'
    BY KeptBySave
<1>7. (ContactStep \/ AgainStep) /\ Named' => \A s \in DOMAIN log :
        s <= poll.head.high \/ (\E e \in Wanted : s < e.seq) => s \in KeptEvents' \/ \E e \in Wanted : s = e.seq
    BY KeptByCatchUp
<1>8. OverFailsStep /\ Named => \A s \in DOMAIN log : s <= poll.fallback - 1 => s \in KeptEvents'
    <2> SUFFICES ASSUME OverFailsStep, Named, NEW s \in DOMAIN log, s <= poll.fallback - 1
                 PROVE  s \in KeptEvents'
        OBVIOUS
    <2>1. poll.fallback \in Nat /\ s \in Nat \ {0}
        BY SeqOfLog, SoundFacts, ShapeFacts
    <2>2. s \in unread'
        BY <2>1 DEF OverFailsStep
    <2> QED BY <1>1, <2>2 DEF KeptEvents
<1> QED BY <1>4, <1>5, <1>6, <1>7, <1>8 DEF Accounts

Kept == Sound /\ Gaps /\ ReadOut /\ StoredFirst /\ PullsStored /\ OnTime /\ Covered(KeptEvents)

LEMMA KeptStays ==
    ASSUME WatcherOK, {"unsent", "late", "long"} \cap Faults = {}, Kept, [Next]_vars
    PROVE  Kept'
<1>1. Sound /\ Gaps /\ ReadOut /\ StoredFirst /\ PullsStored /\ OnTime /\ Covered(KeptEvents) /\ Shape
    BY DEF Kept, Sound
<1>5. epoch' = epoch => unread \subseteq unread'
    BY <1>1, UnreadGrows, SoundFacts
<1>2. Sound' /\ Gaps' /\ ReadOut' /\ StoredFirst' /\ PullsStored' /\ OnTime' /\ jobs \subseteq jobs'
    BY <1>1, SoundKept, GapsKept, ReadOutKept, StoredFirstKept, PullsStoredKept, OnTimeKept, JobsGrow
<1> PICK G : G = KeptEvents
    OBVIOUS
<1> PICK H : H = KeptEvents'
    OBVIOUS
<1>0. Covered(G) /\ (Covered(H)' => Covered(KeptEvents)')
    BY <1>1 DEF Covered
<1>3. CASE WorkerStep
    <2>1. ASSUME epoch' = epoch, NEW s \in DOMAIN log, s \in KeptEvents PROVE s \in KeptEvents'
        <3>1. jobs' = jobs /\ pruned \in Nat /\ epoch \in Nat
            BY <1>1, <1>3, WorkerEffect, SoundFacts
        <3>2. CASE fate' = fate /\ pruned' = pruned /\ (\A t \in DOMAIN log : t \in DOMAIN log' /\ log'[t] = log[t])
            BY <1>5, <2>1, <3>1, <3>2 DEF KeptEvents
        <3>3. CASE fate' = fate /\ log' = log /\ pruned < pruned'
            <4>1. pruned' \in Nat /\ s \in Nat
                <5>1. pruned' \in Nat
                    BY <1>1, <1>3, <3>1, <3>3, WorkerTypes
                <5>2. DOMAIN log = 1..Len(log) /\ Len(log) \in Nat
                    BY <1>1, SoundFacts
                <5>3. s \in Nat
                    BY <5>2
                <5> QED BY <5>1, <5>3
            <4>2. s <= pruned => s <= pruned'
                BY <3>1, <3>3, <4>1
            <4> QED BY <1>5, <2>1, <3>1, <3>3, <4>2 DEF KeptEvents
        <3>4. epoch' # epoch + 1
            BY <2>1, <3>1
        <3>5. DOMAIN log' = 1..(Len(log) + 1) => \A t \in DOMAIN log : t \in DOMAIN log'
            <4>1. DOMAIN log = 1..Len(log) /\ Len(log) \in Nat
                BY <1>1, SoundFacts
            <4> QED BY <4>1
        <3> QED BY <1>1, <1>3, <3>2, <3>3, <3>4, <3>5, WorkerEffect
    <2>2. epoch' = epoch => \A s \in DOMAIN log : s \in G => s \in H
        BY <2>1
    <2>3. Covered(H)'
        BY <1>0, <1>1, <1>3, <2>2, CoveredUnderWorker
    <2> QED BY <1>0, <1>2, <2>3 DEF Kept
<1>4. CASE PollStep /\ NewTypes
    <2>0. unread \subseteq unread'
        BY <1>4, <1>5 DEF PollStep, Stands, RestStep, BeginStep, PageStep, ContactStep, AgainStep, CatchUpStep,
           NewsStep, OverStep, OverFailsStep, SummaryStep, LeaveStep, SendStep, SaveStep, CloseStep, DbSame
    <2>1. Accounts(KeptEvents, KeptEvents')
        BY <1>1, <1>2, <1>4, <2>0, KeptAccounted
    <2>2. Accounts(G, H)
        BY <2>1 DEF Accounts
    <2>3. Covered(H)'
        BY <1>0, <1>1, <1>4, <2>2, CoveredStays
    <2> QED BY <1>0, <1>2, <2>3 DEF Kept
<1> QED BY <1>1, <1>3, <1>4, Steps

LEMMA KeptAtFirst ==
    ASSUME WatcherOK, Init
    PROVE  Kept
<1>1. Sound
    BY SoundAtFirst
<1>2. /\ log = << >> /\ poll = AtRest /\ jobs = {} /\ pull = NoPull
      /\ run = [r \in Runs |-> [home |-> 0, tries |-> 0, pulled |-> FALSE]]
    BY DEF Init
<1>3. DOMAIN log = {}
    BY <1>2, NoLog
<1>4. poll.at = "idle"
    BY <1>2, RestIs
<1>5. Gaps /\ StoredFirst /\ OnTime
    BY <1>3, <1>4 DEF Gaps, StoredFirst, OnTime, Midway
<1>10. ReadOut
    <2>1. Page \in Nat /\ MaxPages \in Nat /\ pruned = 0 /\ Len(log) = 0
        BY <1>2, NoLog DEF WatcherOK, Init
    <2>2. Len(log) <= pruned + Page * MaxPages
        BY <2>1
    <2> QED BY <1>3, <1>4, <2>2 DEF ReadOut, Midway
<1>6. << >> \in Todos(jobs)
    BY DEF Todos
<1>7. \A r \in Runs : run[r].pulled = FALSE
    BY <1>2
<1>8. PullsStored
    BY <1>2, <1>6, <1>7 DEF PullsStored, NoPull
<1>9. Covered(KeptEvents)
    BY <1>3 DEF Covered
<1> QED BY <1>1, <1>5, <1>8, <1>9, <1>10 DEF Kept

(* The smaller of the cursor and the end of the feed is what Min is. *)
LEMMA MinOfTwo ==
    ASSUME NEW a \in Nat, NEW b \in Nat, a <= b
    PROVE  Min({a, b}) = a
<1>1. a \in {a, b} /\ \A y \in {a, b} : a <= y
    OBVIOUS
<1>2. \A x \in {a, b} : (\A y \in {a, b} : x <= y) => x = a
    OBVIOUS
<1> QED BY <1>1, <1>2 DEF Min

(* What the cursor has passed is among the events that cover it. *)
LEMMA Passed ==
    ASSUME WatcherOK, Sound, NEW G, Covered(G), host.epoch = epoch,
           NEW s \in Nat \ {0}, s <= Min({host.cursor, Len(log)})
    PROVE  s \in DOMAIN log /\ s \in G
<1>1. /\ host.cursor \in Nat /\ Len(log) \in Nat /\ DOMAIN log = 1..Len(log)
      /\ host.cursor <= Len(log)
    BY SoundFacts DEF Named
<1>2. Min({host.cursor, Len(log)}) = host.cursor
    BY <1>1, MinOfTwo
<1>3. s \in DOMAIN log /\ s <= host.cursor
    BY <1>1, <1>2
<1>4. s \in G \/ (Busy /\ s \in Owed)
    BY <1>3 DEF Covered, Reached, Named
<1>5. ~(Busy /\ s \in Owed)
    <2>1. ASSUME Busy, NEW e \in poll.batch PROVE s # e.seq
        <3>1. host.cursor < e.seq /\ e.seq \in Nat
            BY <2>1, SoundFacts DEF Named
        <3> QED BY <1>1, <1>3, <3>1
    <2> QED BY <2>1 DEF Owed
<1> QED BY <1>3, <1>4, <1>5

(* remote_watch.py, _catch_up: whatever the cursor jumps over when a host   *)
(* meets a worker or its database was replaced, history or not, the result  *)
(* of a run with --pull is among the stored jobs and so is pulled later.    *)
(* That holds however pages, prunings, resets, deaths of the daemon, failed *)
(* reads and reads torn between two pages fall, for all events but those    *)
(* that the failing second read of a replaced database left unread;         *)
(* provided that the worker keeps no more events than one read takes, that  *)
(* the watcher sends what it must while it catches up (a failed send ends   *)
(* the catch-up and still closes it), and that a run's row has its job's    *)
(* number before the job's event is read.                                   *)
THEOREM OwnResultsStored ==
    ASSUME WatcherOK, {"unsent", "late", "long"} \cap Faults = {}
    PROVE  Spec => []OwnFinalsKept
<1>1. Init => Kept
    BY KeptAtFirst
<1>2. Kept /\ [Next]_vars => Kept'
    BY KeptStays
<1>3. Kept => OwnFinalsKept
    <2> SUFFICES ASSUME Kept, host.epoch = epoch, NEW s \in JumpedOver \ unread,
                        log[s].run # None, log[s].kind \in {"done", "failed"}
                 PROVE  log[s].run \in jobs
        BY DEF OwnFinalsKept, ResultStored
    <2>1. Min({host.cursor, Len(log)}) \in Nat /\ pruned \in Nat
        <3>1. host.cursor \in Nat /\ Len(log) \in Nat /\ host.cursor <= Len(log) /\ pruned \in Nat
            BY SoundFacts DEF Kept, Named
        <3> QED BY <3>1, MinOfTwo
    <2>2. s \in Nat \ {0} /\ s <= Min({host.cursor, Len(log)}) /\ ~(s <= pruned)
        BY <2>1 DEF JumpedOver
    <2>3. s \in KeptEvents
        <3> PICK G : G = KeptEvents
            OBVIOUS
        <3> QED BY <2>2, Passed DEF Kept
    <2> QED BY <2>2, <2>3 DEF KeptEvents
<1> QED BY <1>1, <1>2, <1>3, PTL DEF Spec

----------------------------------------------------------------------------
(* Nothing is passed in silence                                            *)

(* The events that were announced, given up, pruned or history. *)
HandledEvents == {s \in DOMAIN log : Handled(s)}

(* A read is of one database, a history of one moment; a burst and a       *)
(* database to be read again are of the one the worker has now.            *)
Whole ==
    /\ Headed /\ poll.catchUp /\ poll.head.epoch = epoch => \A e \in poll.batch : e.seq <= poll.head.high
    /\ Midway => poll.head.epoch = epoch /\ (poll.catchUp => Len(log) <= poll.head.high)
    /\ Headed /\ Cardinality(poll.batch) > Burst => poll.head.epoch = epoch
    /\ poll.at = "answered" /\ ~poll.catchUp /\ WasReset => poll.head.epoch = epoch
    /\ poll.fallback > 0 => Named

(* A final event up to the end of the last summary was told by it or was    *)
(* dealt with before; so the ones a burst passes over were, too.            *)
Summed ==
    /\ poll.at = "summary" => Cardinality(poll.batch) > Burst /\ Named
    /\ poll.burst /\ poll.at \in {"event", "send"} /\ Named =>
         \A e \in poll.batch : IsFinal(e.ev) /\ e.ev.kind # "failed" => fate[e.seq] # "open" \/ e.seq <= pruned
    /\ summarised # 0 => Named /\ summarised <= Len(log)
    /\ \A s \in DOMAIN log : s <= summarised /\ IsFinal(log[s]) => fate[s] # "open" \/ s <= pruned

(* A part of the batch is no larger than the batch. *)
LEMMA HeldIsFinite ==
    ASSUME WatcherOK, Sound
    PROVE  /\ Cardinality(poll.batch) \in Nat
           /\ \A b \in SUBSET poll.batch : \A c \in SUBSET b :
                Cardinality(c) \in Nat /\ Cardinality(c) <= Cardinality(b)
<1>1. MaxSeq \in Nat /\ poll.batch \in Batches /\ \A e, f \in poll.batch : e.seq = f.seq => e = f
    BY SoundFacts DEF WatcherOK
<1>2. IsFiniteSet(poll.batch)
    BY <1>1, BatchIsFinite
<1>3. \A b \in SUBSET poll.batch : IsFiniteSet(b)
    BY <1>2, FS_Subset
<1>4. \A b \in SUBSET poll.batch : \A c \in SUBSET b : Cardinality(c) \in Nat /\ Cardinality(c) <= Cardinality(b)
    BY <1>3, FS_CardinalityType, FS_Subset
<1> QED BY <1>2, <1>4, FS_CardinalityType

(* What has become of an event of this database does not come undone. *)
LEMMA FateStays ==
    ASSUME WatcherOK, Sound, PollStep, NewTypes, NEW s \in Seqs, fate[s] # "open"
    PROVE  fate'[s] # "open"
<1>1. fate \in Fates
    BY SoundFacts, ShapeFacts
<1>2. ASSUME NEW S, NEW w \in {"told", "dropped", "history"}, fate' = Mark(S, w) PROVE fate'[s] # "open"
    BY <1>1, <1>2, MarkIs
<1>3. CASE RestStep
    BY <1>2, <1>3 DEF RestStep
<1>4. CASE ContactStep \/ AgainStep \/ OverFailsStep
    BY <1>2, <1>4 DEF ContactStep, AgainStep, CatchUpStep, OverFailsStep
<1>5. CASE SummaryStep
    BY <1>2, <1>5 DEF SummaryStep
<1>6. CASE SaveStep
    <2>1. PICK e : PassedOver(e) \/ Sent(e) \/ GivenUp(e)
        BY <1>6 DEF SaveStep
    <2> QED BY <1>2, <2>1 DEF PassedOver, Sent, GivenUp
<1>7. CASE ~(RestStep \/ ContactStep \/ AgainStep \/ OverFailsStep \/ SummaryStep \/ SaveStep)
    BY <1>7 DEF PollStep, Stands, BeginStep, PageStep, NewsStep, OverStep, LeaveStep, SendStep, CloseStep
<1> QED BY <1>3, <1>4, <1>5, <1>6, <1>7

LEMMA WholeUnderWorker ==
    ASSUME WatcherOK, Sound, Whole, "burst" \notin Faults, "torn" \notin Faults, WorkerStep
    PROVE  Whole'
<1>0. Shape /\ host' = host /\ poll' = poll
    BY WorkerEffect DEF Sound
<1>1. (Headed <=> Headed') /\ (Midway <=> Midway') /\ (WasReset <=> WasReset')
    BY <1>0 DEF Headed, Midway, WasReset
<1>2. /\ Len(log) \in Nat /\ epoch \in Nat /\ host.epoch \in Nat /\ poll.head.epoch \in Nat
      /\ poll.fallback \in Nat /\ Burst \in Nat /\ Cardinality(poll.batch) \in Nat
    <2>1. poll.batch \in Batches /\ poll.fallback \in Nat
        BY SoundFacts, ShapeFacts
    <2>2. Cardinality(poll.batch) \in Nat
        BY HeldIsFinite
    <2> QED BY <2>1, <2>2, SoundFacts DEF WatcherOK
<1>3. CASE epoch' = epoch /\ Len(log') = Len(log) + 1 /\ ~(Midway /\ poll.catchUp)
    BY <1>0, <1>1, <1>3 DEF Whole, Named
<1>4. CASE epoch' = epoch /\ log' = log
    BY <1>0, <1>1, <1>4 DEF Whole, Named
<1>5. CASE epoch' = epoch + 1 /\ ~Midway /\ Cardinality(poll.batch) <= Burst /\ ~Rereading
    <2>1. Headed => poll.head.epoch # epoch'
        <3>1. Headed => poll.head.epoch <= epoch
            BY SoundFacts
        <3> QED BY <1>2, <1>5, <3>1
    <2>2. ~(poll.fallback > 0) /\ ~(poll.at = "answered" /\ ~poll.catchUp /\ WasReset)
        BY <1>5 DEF Rereading
    <2>3. ~(Cardinality(poll.batch) > Burst)
        BY <1>2, <1>5
    <2> QED BY <1>0, <1>1, <1>5, <2>1, <2>2, <2>3 DEF Whole
<1> QED BY <1>0, <1>3, <1>4, <1>5, WorkerEffect

LEMMA WholeAtPage ==
    ASSUME WatcherOK, Sound, Whole, PageStep, NewTypes
    PROVE  Whole'
<1> DEFINE page == EventsAfter(poll.after)
           top == From(poll.after)
<1>0. Shape /\ poll.pages \in Nat
    BY SoundFacts, ShapeFacts
<1>1. /\ poll.at = "read" /\ poll'.catchUp = poll.catchUp /\ poll'.fallback = poll.fallback
      /\ poll'.head = (IF poll.pages = 0 THEN Feed ELSE poll.head) /\ poll'.batch = poll.batch \cup page
      /\ epoch' = epoch /\ log' = log /\ pruned' = pruned /\ host'.epoch = host.epoch
      /\ poll'.at = "read" => top + Page \in DOMAIN log
    BY DEF PageStep, DbSame, RowSame
<1>2. /\ top \in Nat /\ top >= pruned
      /\ \A e \in page : e.epoch = epoch /\ e.seq \in DOMAIN log /\ top < e.seq
      /\ Feed.epoch = epoch
      /\ Feed.high = Len(log) \/ (Feed.high = 0 /\ pruned >= Len(log))
    <2>1. poll.after \in Nat /\ Types
        BY <1>0, ShapeFacts
    <2> QED BY <2>1, PageIs
<1>3. Page \in Nat \ {0} /\ DOMAIN log = 1..Len(log) /\ Len(log) \in Nat /\ pruned \in Nat /\ poll.head.high \in Nat
    BY SoundFacts DEF WatcherOK
<1> HIDE DEF page, top
<1>4. poll'.head.epoch = epoch
    <2>1. CASE poll.pages = 0
        BY <1>1, <1>2, <2>1
    <2>2. CASE poll.pages # 0
        <3>1. Midway
            BY <1>0, <1>1, <2>2 DEF Midway
        <3> QED BY <1>1, <2>2, <3>1 DEF Whole
    <2> QED BY <2>1, <2>2
<1>5. ASSUME poll.catchUp, NEW s \in DOMAIN log, top < s PROVE Len(log) <= poll'.head.high
    <2>1. CASE poll.pages = 0
        <3>1. PICK l \in Nat, u \in Nat, t \in Nat, n \in Nat : l = Len(log) /\ u = pruned /\ t = top /\ n = s
            BY <1>2, <1>3, SeqOfLog
        <3>2. n <= l
            BY <1>3, <3>1
        <3>3. ~(u >= l)
            BY <1>2, <1>5, <3>1, <3>2
        <3>4. Feed.high = Len(log)
            BY <1>2, <3>1, <3>3
        <3> QED BY <1>1, <1>3, <2>1, <3>4
    <2>2. CASE poll.pages # 0
        <3>1. Midway
            BY <1>0, <1>1, <2>2 DEF Midway
        <3> QED BY <1>1, <1>5, <2>2, <3>1 DEF Whole
    <2> QED BY <2>1, <2>2
<1>6. ASSUME poll.catchUp, NEW e \in poll'.batch PROVE e.seq <= poll'.head.high
    <2>1. CASE e \in page
        <3>1. poll'.head.high \in Nat /\ e.seq \in Nat /\ e.seq \in DOMAIN log /\ top < e.seq
            BY <1>2, <2>1, Fields, SeqOfLog DEF NewTypes
        <3>2. PICK n \in Nat, l \in Nat, h \in Nat : n = e.seq /\ l = Len(log) /\ h = poll'.head.high
            BY <1>3, <3>1
        <3>3. l <= h
            BY <1>5, <1>6, <3>1, <3>2
        <3>4. n <= l
            BY <1>3, <3>1, <3>2
        <3> QED BY <3>2, <3>3, <3>4
    <2>2. CASE e \in poll.batch
        <3>1. poll.pages # 0
            BY <1>0, <1>1, <2>2 DEF Shape
        <3>2. Midway /\ Headed
            BY <1>0, <1>1, <3>1 DEF Midway, Headed
        <3>3. e.seq <= poll.head.high
            BY <1>6, <2>2, <3>2 DEF Whole
        <3> QED BY <1>1, <3>1, <3>3
    <2> QED BY <1>1, <2>1, <2>2
<1>7. Midway' => (poll.catchUp => Len(log) <= poll'.head.high)
    <2>1. Midway' => top + Page \in DOMAIN log
        BY <1>1 DEF Midway
    <2>2. top < top + Page
        BY <1>2, <1>3
    <2> QED BY <1>5, <2>1, <2>2
<1>8. poll'.fallback > 0 => host'.epoch = epoch'
    BY <1>1 DEF Whole, Named
<1> QED BY <1>1, <1>4, <1>6, <1>7, <1>8 DEF Whole, Named

LEMMA WholeKept ==
    ASSUME WatcherOK, Sound, Whole, "burst" \notin Faults, "torn" \notin Faults, [Next]_vars
    PROVE  Whole'
<1>0. Shape
    BY DEF Sound
<1>1. CASE PollStep /\ NewTypes
    <2>1. CASE Stands
        BY <2>1 DEF Stands, DbSame, RowSame, Whole, Named, Headed, Midway, WasReset
    <2>2. CASE PageStep
        BY <1>1, <2>2, WholeAtPage
    <2>3. ASSUME poll'.at # "answered", poll'.at # "read", poll'.fallback = 0 PROVE Whole'
        BY <2>3 DEF Whole, Headed, Midway
    <2>4. CASE BeginStep
        <3>1. poll'.at = "read" /\ poll'.pages = 0 /\ poll'.fallback = 0
            BY <2>4 DEF BeginStep, Begins
        <3> QED BY <3>1 DEF Whole, Headed, Midway
    <2>5. CASE OverStep
        <3>1. /\ poll'.at = "read" /\ poll'.pages = 0 /\ host'.epoch = poll.head.epoch /\ epoch' = epoch
              /\ poll.at = "answered" /\ ~poll.catchUp /\ WasReset
            BY <2>5 DEF OverStep, Begins, DbSame
        <3>2. poll.head.epoch = epoch
            BY <3>1 DEF Whole
        <3> QED BY <3>1, <3>2 DEF Whole, Headed, Midway, Named
    <2>6. CASE RestStep \/ OverFailsStep \/ CloseStep
        BY <2>3, <2>6 DEF RestStep, OverFailsStep, CloseStep, Rests, Resting
    <2>7. CASE ContactStep \/ AgainStep \/ NewsStep
        <3>1. \E b \in Batches : TakesUp(b)
            BY <2>7, SoundFacts DEF ContactStep, AgainStep, CatchUpStep, NewsStep
        <3>2. ~Reading' /\ poll'.fallback = 0
            BY <1>0, <3>1, TookUp
        <3> QED BY <2>3, <3>2 DEF Reading
    <2>8. CASE SummaryStep \/ LeaveStep \/ SaveStep
        <3>1. Busy /\ \E b \in Batches : GoesOn(b)
            BY <2>8, SoundFacts DEF SummaryStep, LeaveStep, SaveStep, Batches, Busy
        <3>2. ~Reading' /\ poll'.fallback = 0
            BY <1>0, <3>1, WentOn
        <3> QED BY <2>3, <3>2 DEF Reading
    <2>9. CASE SendStep
        <3>1. poll'.at = "send" /\ poll'.fallback = 0
            BY <1>0, <2>9 DEF SendStep, Shape, Busy
        <3> QED BY <2>3, <3>1
    <2> QED BY <1>1, <2>1, <2>2, <2>4, <2>5, <2>6, <2>7, <2>8, <2>9 DEF PollStep
<1> QED BY <1>0, <1>1, WholeUnderWorker, Steps

LEMMA SummedUnderWorker ==
    ASSUME WatcherOK, Sound, Summed, "burst" \notin Faults, WorkerStep
    PROVE  Summed'
<1>0. Shape /\ host' = host /\ poll' = poll /\ summarised' = summarised
    BY WorkerEffect DEF Sound
<1>1. /\ DOMAIN log = 1..Len(log) /\ Len(log) \in Nat /\ epoch \in Nat /\ host.epoch \in Nat /\ pruned \in Nat
      /\ summarised \in Nat /\ Burst \in Nat /\ Cardinality(poll.batch) \in Nat /\ host.epoch <= epoch
      /\ \A e \in poll.batch : e.seq \in Nat
    BY SoundFacts, ShapeFacts, HeldIsFinite DEF WatcherOK
<1>2. CASE /\ epoch' = epoch /\ pruned' = pruned /\ fate' = fate
           /\ Len(log') = Len(log) + 1 /\ DOMAIN log' = 1..(Len(log) + 1)
           /\ \A s \in DOMAIN log : log'[s] = log[s]
    <2>1. summarised # 0 => Named' /\ summarised <= Len(log) /\ summarised <= Len(log')
        <3>1. summarised # 0 => Named /\ summarised <= Len(log)
            BY DEF Summed
        <3> QED BY <1>0, <1>1, <1>2, <3>1 DEF Named
    <2>2. ASSUME NEW s \in DOMAIN log', s <= summarised, IsFinal(log'[s]) PROVE fate[s] # "open" \/ s <= pruned
        <3>1. CASE s \in DOMAIN log
            BY <1>2, <2>2, <3>1 DEF Summed
        <3>2. CASE s = Len(log) + 1
            BY <1>1, <2>1, <2>2, <3>2
        <3> QED BY <1>1, <1>2, <3>1, <3>2, SMTT(30)
    <2> QED BY <1>0, <1>2, <2>1, <2>2 DEF Summed, Named
<1>3. CASE epoch' = epoch /\ log' = log /\ pruned < pruned' /\ fate' = fate
    <2>1. pruned' \in Nat
        BY <1>0, <1>1, <1>3, WorkerTypes
    <2>2. \A n \in Nat : n <= pruned => n <= pruned'
        BY <1>1, <1>3, <2>1
    <2>3. \A s \in DOMAIN log : s \in Nat
        BY SeqOfLog
    <2> QED BY <1>0, <1>1, <1>3, <2>2, <2>3 DEF Summed, Named
<1>4. CASE epoch' = epoch + 1 /\ log' = << >> /\ summarised = 0 /\ Cardinality(poll.batch) <= Burst
    <2>1. host.epoch # epoch' /\ ~(Cardinality(poll.batch) > Burst)
        BY <1>1, <1>4
    <2>2. DOMAIN log' = {}
        BY <1>4, NoLog
    <2> QED BY <1>0, <1>4, <2>1, <2>2 DEF Summed, Named
<1> QED BY <1>0, <1>2, <1>3, <1>4, WorkerEffect

(* No event is in hand afterwards. *)
LEMMA SummedAtRest ==
    ASSUME WatcherOK, Sound, Summed, PollStep, NewTypes, DbSame, poll'.at \notin {"summary", "event", "send"},
           summarised' \in {summarised, 0}, summarised # 0 => host'.epoch = epoch
    PROVE  Summed'
<1>1. \A s \in DOMAIN log : fate[s] # "open" => fate'[s] # "open"
    BY SeqOfLog, FateStays
<1>2. epoch' = epoch /\ log' = log /\ pruned' = pruned
    BY DEF DbSame
<1>3. \A s \in DOMAIN log : s \in Nat \ {0}
    BY SeqOfLog
<1>4. summarised' # 0 => summarised' = summarised /\ host'.epoch = epoch /\ summarised <= Len(log)
    BY DEF Summed
<1>5. ASSUME NEW s \in DOMAIN log, s <= summarised', IsFinal(log[s]) PROVE fate'[s] # "open" \/ s <= pruned
    <2>1. summarised' # 0
        BY <1>3, <1>5
    <2> QED BY <1>1, <1>4, <1>5, <2>1 DEF Summed
<1> QED BY <1>2, <1>4, <1>5 DEF Summed, Named

LEMMA SummedWhenTaken ==
    ASSUME WatcherOK, Sound, Whole, Summed, PollStep, NewTypes, ContactStep \/ AgainStep \/ NewsStep
    PROVE  Summed'
<1>1. Headed /\ DbSame /\ summarised' = summarised
    BY DEF ContactStep, AgainStep, NewsStep, CatchUpStep, Headed, StoreSame
<1>2. PICK b \in SUBSET poll.batch : TakesUp(b)
    BY SoundFacts DEF ContactStep, AgainStep, NewsStep, CatchUpStep
<1>3. b \in Batches /\ Shape /\ MaxSeq \in Nat
    BY SoundFacts DEF Batches, WatcherOK
<1>4. poll'.batch = b /\ (b # {} => poll'.at \in {"summary", "event"})
    BY <1>2, <1>3, TookUp
<1>5. epoch' = epoch /\ log' = log /\ pruned' = pruned
    BY <1>1 DEF DbSame
<1>6. \A s \in DOMAIN log : s \in Nat \ {0} /\ (fate[s] # "open" => fate'[s] # "open")
    BY SeqOfLog, FateStays
<1>7. summarised # 0 => Named /\ host'.epoch = epoch /\ summarised <= Len(log)
    <2>1. summarised # 0 => Named /\ summarised <= Len(log) /\ host.epoch # 0
        BY SoundFacts DEF Summed, Named
    <2>2. CASE ContactStep
        <3>1. host.epoch = 0
            BY <1>3, <2>2 DEF ContactStep, CatchUpStep, Shape, Reading
        <3> QED BY <2>1, <3>1
    <2>3. CASE AgainStep \/ NewsStep
        BY <2>1, <2>3 DEF AgainStep, NewsStep, RowSame, Named
    <2> QED BY <2>1, <2>2, <2>3
<1>8. poll'.at = "summary" => Cardinality(b) > Burst /\ host'.epoch = epoch
    <2> SUFFICES ASSUME poll'.at = "summary" PROVE Cardinality(b) > Burst /\ host'.epoch = epoch
        OBVIOUS
    <2>1. Cardinality(Announceable(b)) > Burst /\ Announceable(b) \in SUBSET b
        BY <1>2 DEF TakesUp, Announceable
    <2>2. /\ Cardinality(Announceable(b)) \in Nat /\ Cardinality(b) \in Nat /\ Cardinality(poll.batch) \in Nat
          /\ Cardinality(Announceable(b)) <= Cardinality(b) /\ Cardinality(b) <= Cardinality(poll.batch)
        BY <2>1, HeldIsFinite
    <2>3. Cardinality(b) > Burst /\ Cardinality(poll.batch) > Burst
        BY <2>1, <2>2 DEF WatcherOK
    <2>4. poll.head.epoch = epoch
        BY <1>1, <2>3 DEF Whole
    <2>5. host'.epoch = epoch
        <3>1. CASE ContactStep
            BY <2>4, <3>1 DEF ContactStep
        <3>2. CASE AgainStep
            BY <3>2 DEF AgainStep, RowSame, Whole, Named
        <3>3. CASE NewsStep
            BY <2>4, <3>3 DEF NewsStep, WasReset, RowSame
        <3> QED BY <3>1, <3>2, <3>3
    <2> QED BY <2>3, <2>5
<1>9. ASSUME poll'.burst, poll'.at \in {"event", "send"}, NEW e \in b, IsFinal(e.ev)
      PROVE  fate'[e.seq] # "open" \/ e.seq <= pruned
    <2>1. e \in Finals(b) /\ poll'.at = "event" /\ e \in Announceable(b) /\ Announceable(b) \in Batches
        BY <1>3, <1>4, <1>9, BatchIs DEF Finals
    <2>2. summarised = LastSeq(Announceable(b))
        BY <1>2, <1>9, <2>1 DEF TakesUp
    <2>3. e.seq <= summarised /\ e.seq \in Nat \ {0} /\ summarised \in Nat
        BY <1>3, <2>1, <2>2, LastIs, SoundFacts, ShapeFacts
    <2>4. summarised # 0
        BY <2>3
    <2>5. host.epoch <= e.epoch /\ e.epoch <= epoch /\ e.epoch \in Nat /\ epoch \in Nat
        BY <1>1, SoundFacts
    <2>6. e.epoch = epoch
        BY <1>7, <2>4, <2>5 DEF Named
    <2>7. e.seq \in DOMAIN log /\ e.ev = log[e.seq]
        BY <2>6, SoundFacts
    <2>8. fate[e.seq] # "open" \/ e.seq <= pruned
        BY <1>9, <2>3, <2>7 DEF Summed
    <2> QED BY <1>6, <2>7, <2>8
<1>10. \A s \in DOMAIN log : s <= summarised /\ IsFinal(log[s]) => fate'[s] # "open" \/ s <= pruned
    BY <1>6 DEF Summed
<1> QED BY <1>1, <1>4, <1>5, <1>7, <1>8, <1>9, <1>10 DEF Summed, Named

(* After a summary every final event up to its end is dealt with: those it  *)
(* told, and those below it that the cursor passes with it.                 *)
LEMMA SummedAtSummary ==
    ASSUME WatcherOK, Sound, Summed, Covered(HandledEvents), PollStep, NewTypes, SummaryStep
    PROVE  Summed'
<1>1. /\ poll.at = "summary" /\ Busy /\ GoesOn(poll.batch) /\ DbSame /\ RowSame
      /\ summarised' = LastSeq(Announceable(poll.batch))
      /\ fate' = Mark(SeqsOf(Finals(poll.batch)), "told")
    BY DEF SummaryStep, Busy
<1>2. Shape /\ poll.batch \in Batches /\ poll.batch # {} /\ MaxSeq \in Nat /\ fate \in Fates
      /\ Announceable(poll.batch) \in Batches /\ Finals(poll.batch) \subseteq Announceable(poll.batch)
    BY <1>1, SoundFacts, ShapeFacts, BatchIs DEF Sound, Shape, WatcherOK
<1>3. Named /\ Announceable(poll.batch) # {}
    BY <1>1, <1>2 DEF Summed, Shape
<1>4. poll'.batch = poll.batch /\ poll'.at = "event"
    BY <1>1, <1>2, WentOn
<1>5. epoch' = epoch /\ log' = log /\ pruned' = pruned /\ host'.epoch = epoch
    BY <1>1, <1>3 DEF DbSame, RowSame, Named
<1>6. ASSUME NEW e \in poll.batch PROVE e.epoch = epoch /\ e.seq \in DOMAIN log /\ e.ev = log[e.seq]
    <2>1. host.epoch <= e.epoch /\ e.epoch <= epoch /\ e.epoch \in Nat /\ epoch \in Nat
        BY <1>1, SoundFacts
    <2>2. e.epoch = epoch
        BY <1>3, <2>1 DEF Named
    <2> QED BY <2>2, SoundFacts
<1>7. ASSUME NEW e \in poll.batch, IsFinal(e.ev) PROVE fate'[e.seq] # "open"
    <2>1. e.seq \in SeqsOf(Finals(poll.batch))
        BY <1>6, <1>7 DEF SeqsOf, Ours, Finals
    <2>2. e.seq \in Seqs
        BY SoundFacts
    <2> QED BY <1>1, <1>2, <2>1, <2>2, MarkIs
<1>8. PICK f \in Announceable(poll.batch) : f.seq = LastSeq(Announceable(poll.batch))
    BY <1>2, <1>3, LastIs
<1>9. f \in poll.batch /\ f.seq = summarised' /\ f.seq \in DOMAIN log /\ f.seq \in Nat
    BY <1>1, <1>6, <1>8, SoundFacts DEF Announceable
<1>10. summarised' <= Len(log)
    BY <1>9, SoundFacts
<1>11. ASSUME NEW s \in DOMAIN log, s <= summarised', IsFinal(log[s]) PROVE fate'[s] # "open" \/ s <= pruned
    <2>1. s \in Seqs /\ s \in Nat
        BY SeqOfLog
    <2>2. CASE s \in Owed
        <3>1. PICK e \in poll.batch : e.seq = s
            BY <2>2 DEF Owed
        <3> QED BY <1>6, <1>7, <1>11, <3>1
    <2>3. CASE s \notin Owed
        <3>1. s # f.seq
            BY <1>9, <2>3 DEF Owed
        <3>2. s < f.seq
            BY <1>9, <1>11, <2>1, <3>1
        <3>3. Reached(s)
            BY <1>1, <1>9, <3>2 DEF Reached
        <3>4. s \in HandledEvents
            BY <1>3, <2>3, <3>3 DEF Covered
        <3>5. fate[s] # "open" \/ s <= pruned
            BY <1>11, <3>4 DEF HandledEvents, Handled, IsFinal
        <3> QED BY <2>1, <3>5, FateStays
    <2> QED BY <2>2, <2>3
<1> QED BY <1>4, <1>5, <1>7, <1>10, <1>11 DEF Summed, Named

LEMMA SummedKept ==
    ASSUME WatcherOK, Sound, Whole, Summed, Covered(HandledEvents), "burst" \notin Faults, [Next]_vars
    PROVE  Summed'
<1>0. Shape
    BY DEF Sound
<1>1. CASE PollStep /\ NewTypes
    <2>1. CASE Stands
        BY <2>1 DEF Stands, DbSame, RowSame, StoreSame, Summed, Named
    <2>2. summarised # 0 => host.epoch = epoch
        BY DEF Summed, Named
    <2>3. CASE RestStep \/ BeginStep \/ PageStep \/ OverFailsStep \/ CloseStep
        <3>1. /\ DbSame /\ poll'.at \notin {"summary", "event", "send"} /\ summarised' \in {summarised, 0}
              /\ host'.epoch = host.epoch
            BY <2>3 DEF RestStep, BeginStep, PageStep, OverFailsStep, CloseStep, Rests, Resting, Begins,
                        RowSame, StoreSame
        <3> QED BY <1>1, <2>2, <3>1, SummedAtRest
    <2>4. CASE OverStep
        <3>1. /\ DbSame /\ poll'.at \notin {"summary", "event", "send"} /\ summarised' \in {summarised, 0}
              /\ host'.epoch = poll.head.epoch /\ poll.head.epoch = epoch
            BY <2>4 DEF OverStep, Begins, StoreSame, Whole
        <3> QED BY <1>1, <3>1, SummedAtRest
    <2>5. CASE LeaveStep
        <3>1. Busy /\ DbSame /\ RowSame /\ summarised' = summarised /\ GoesOn({}) /\ {} \in Batches
            BY <2>5 DEF LeaveStep, Busy, StoreSame, Batches
        <3>2. poll'.at \notin {"summary", "event", "send"}
            BY <1>0, <3>1, WentOn
        <3> QED BY <1>1, <2>2, <3>1, <3>2, SummedAtRest DEF RowSame
    <2>6. CASE ContactStep \/ AgainStep \/ NewsStep
        BY <1>1, <2>6, SummedWhenTaken
    <2>7. CASE SummaryStep
        BY <1>1, <2>7, SummedAtSummary
    <2>8. CASE SendStep
        BY <2>8 DEF SendStep, DbSame, RowSame, Summed, Named
    <2>9. CASE SaveStep
        <3> DEFINE e == First(poll.batch)
        <3>1. /\ poll.at \in {"event", "send"} /\ Busy /\ DbSame /\ summarised' = summarised
              /\ host'.epoch = host.epoch /\ GoesOn(poll.batch \ {e})
            BY <2>9 DEF SaveStep, Busy
        <3>2. poll.batch \ {e} \in Batches
            BY SoundFacts DEF Batches
        <3>3. poll'.batch = poll.batch \ {e} /\ poll'.at # "summary"
              /\ (poll'.at \in {"event", "send"} => poll'.burst = poll.burst)
            BY <1>0, <3>1, <3>2, WentOn
        <3>4. \A s \in Seqs : fate[s] # "open" => fate'[s] # "open"
            BY <1>1, FateStays
        <3>5. \A f \in poll.batch : f.seq \in Seqs
            BY SoundFacts
        <3>6. \A s \in DOMAIN log : s \in Seqs
            BY SeqOfLog
        <3> HIDE DEF e
        <3> QED BY <3>1, <3>3, <3>4, <3>5, <3>6 DEF Summed, Named, DbSame
    <2> QED BY <1>1, <2>1, <2>3, <2>4, <2>5, <2>6, <2>7, <2>8, <2>9 DEF PollStep
<1> QED BY <1>0, <1>1, SummedUnderWorker, Steps

(* The event the cursor moves over is told, given up, or was told before. *)
LEMMA HandledBySave ==
    ASSUME WatcherOK, Sound, Summed, PollStep, NewTypes, SaveStep, Named
    PROVE  First(poll.batch).seq \in HandledEvents'
<1> DEFINE e == First(poll.batch)
<1>1. /\ DbSame /\ poll.at \in {"event", "send"} /\ Busy
      /\ PassedOver(e) \/ Sent(e) \/ GivenUp(e)
    BY DEF SaveStep, Busy
<1>2. e \in poll.batch
    BY <1>1, FirstOfBatch
<1> HIDE DEF e
<1>3. host.epoch <= e.epoch /\ e.epoch <= epoch /\ e.epoch \in Nat /\ epoch \in Nat
    BY <1>1, <1>2, SoundFacts
<1>4. e.epoch = epoch
    BY <1>3 DEF Named
<1>5. e.seq \in DOMAIN log /\ e.ev = log[e.seq] /\ e.seq \in Seqs /\ fate \in Fates
    BY <1>2, <1>4, SoundFacts, ShapeFacts
<1>6. epoch' = epoch /\ log' = log /\ pruned' = pruned
    BY <1>1 DEF DbSame
<1>7. log[e.seq].kind = "told" \/ fate'[e.seq] # "open" \/ e.seq <= pruned
    <2>1. CASE PassedOver(e)
        BY <1>1, <1>2, <1>5, <2>1 DEF PassedOver, Summed
    <2>2. e.seq \in SeqsOf({e})
        BY <1>4 DEF SeqsOf, Ours
    <2>3. CASE Sent(e)
        BY <1>5, <2>2, <2>3, MarkIs DEF Sent
    <2>4. CASE GivenUp(e)
        <3> DEFINE T == {s \in SeqsOf({e}) : fate[s] = "open"}
        <3>1. fate' = Mark(T, "dropped") /\ (fate[e.seq] = "open" => e.seq \in T)
            BY <2>2, <2>4 DEF GivenUp
        <3> HIDE DEF T
        <3>2. fate'[e.seq] = IF e.seq \in T THEN "dropped" ELSE fate[e.seq]
            BY <1>5, <3>1 DEF Mark
        <3> QED BY <3>1, <3>2
    <2> QED BY <1>1, <2>1, <2>3, <2>4
<1>8. e.seq \in HandledEvents'
    BY <1>5, <1>6, <1>7 DEF HandledEvents, Handled
<1> QED BY <1>8 DEF e

LEMMA HandledAccounted ==
    ASSUME WatcherOK, Sound, Whole, Summed, PollStep, NewTypes
    PROVE  Accounts(HandledEvents, HandledEvents')
<1>1. epoch' = epoch /\ log' = log /\ pruned' = pruned
    BY DEF PollStep, Stands, RestStep, BeginStep, PageStep, ContactStep, AgainStep, CatchUpStep,
           NewsStep, OverStep, OverFailsStep, SummaryStep, LeaveStep, SendStep, SaveStep, CloseStep, DbSame
<1>2. \A s \in DOMAIN log : s \in HandledEvents => s \in HandledEvents'
    <2>1. \A s \in DOMAIN log : fate[s] # "open" => fate'[s] # "open"
        BY SeqOfLog, FateStays
    <2> QED BY <1>1, <2>1 DEF HandledEvents, Handled
<1>3. \A s \in DOMAIN log : s <= pruned => s \in HandledEvents'
    BY <1>1 DEF HandledEvents, Handled
<1>4. SaveStep /\ Named => First(poll.batch).seq \in HandledEvents'
    BY HandledBySave
<1>5. ASSUME ContactStep \/ AgainStep, Named', NEW s \in DOMAIN log,
             s <= poll.head.high \/ \E e \in Wanted : s < e.seq
      PROVE  s \in HandledEvents' \/ \E e \in Wanted : s = e.seq
    <2>1. /\ Headed /\ poll.catchUp /\ poll.head.epoch = epoch
          /\ \A t \in DOMAIN log : t <= poll.head.high =>
                fate'[t] = "history" \/ \E e \in Wanted : t = e.seq
        BY <1>5, CatchUpMarks
    <2>2. s <= poll.head.high
        <3>1. CASE s <= poll.head.high
            BY <3>1
        <3>2. CASE \E e \in Wanted : s < e.seq
            <4>1. PICK e \in Wanted : s < e.seq
                BY <3>2
            <4>2. e \in poll.batch
                BY SoundFacts
            <4>3. e.seq <= poll.head.high
                BY <2>1, <4>2 DEF Whole
            <4>4. s \in Nat /\ e.seq \in Nat /\ poll.head.high \in Nat
                BY <4>2, SeqOfLog, SoundFacts
            <4> QED BY <4>1, <4>3, <4>4
        <3> QED BY <1>5, <3>1, <3>2
    <2> QED BY <1>1, <2>1, <2>2 DEF HandledEvents, Handled
<1>6. OverFailsStep /\ Named => \A s \in DOMAIN log : s <= poll.fallback - 1 => s \in HandledEvents'
    BY <1>1, OverFailsMarks DEF HandledEvents, Handled
<1> QED BY <1>2, <1>3, <1>4, <1>5, <1>6 DEF Accounts

Dealt == Sound /\ Gaps /\ Whole /\ Summed /\ Covered(HandledEvents)

LEMMA DealtStays ==
    ASSUME WatcherOK, "unsent" \notin Faults, "burst" \notin Faults, "torn" \notin Faults, Dealt, [Next]_vars
    PROVE  Dealt'
<1>1. Sound /\ Gaps /\ Whole /\ Summed /\ Covered(HandledEvents) /\ Shape
    BY DEF Dealt, Sound
<1>2. Sound' /\ Gaps' /\ Whole' /\ Summed'
    BY <1>1, SoundKept, GapsKept, WholeKept, SummedKept
<1> PICK G : G = HandledEvents
    OBVIOUS
<1> PICK H : H = HandledEvents'
    OBVIOUS
<1>3. Covered(G) /\ (Covered(H)' => Covered(HandledEvents)')
    BY <1>1 DEF Covered
<1>4. CASE WorkerStep
    <2>1. ASSUME epoch' = epoch, NEW s \in DOMAIN log, s \in HandledEvents PROVE s \in HandledEvents'
        <3>1. pruned \in Nat /\ epoch \in Nat /\ s \in Nat /\ DOMAIN log = 1..Len(log) /\ Len(log) \in Nat
            BY <1>1, SoundFacts, SeqOfLog
        <3>2. CASE fate' = fate /\ pruned' = pruned /\ s \in DOMAIN log' /\ log'[s] = log[s]
            BY <2>1, <3>2 DEF HandledEvents, Handled
        <3>3. CASE fate' = fate /\ log' = log /\ pruned < pruned'
            <4>1. pruned' \in Nat
                BY <1>1, <1>4, <3>1, <3>3, WorkerTypes
            <4>2. s <= pruned => s <= pruned'
                BY <3>1, <3>3, <4>1
            <4> QED BY <2>1, <3>3, <4>2 DEF HandledEvents, Handled
        <3>4. epoch' # epoch + 1
            BY <2>1, <3>1
        <3>5. DOMAIN log' = 1..(Len(log) + 1) => s \in DOMAIN log'
            BY <3>1
        <3> QED BY <1>1, <1>4, <3>2, <3>3, <3>4, <3>5, WorkerEffect
    <2>2. epoch' = epoch => \A s \in DOMAIN log : s \in G => s \in H
        BY <2>1
    <2>3. Covered(H)'
        BY <1>1, <1>3, <1>4, <2>2, CoveredUnderWorker
    <2> QED BY <1>2, <1>3, <2>3 DEF Dealt
<1>5. CASE PollStep /\ NewTypes
    <2>1. Accounts(HandledEvents, HandledEvents')
        BY <1>1, <1>5, HandledAccounted
    <2>2. Accounts(G, H)
        BY <2>1 DEF Accounts
    <2>3. Covered(H)'
        BY <1>1, <1>3, <1>5, <2>2, CoveredStays
    <2> QED BY <1>2, <1>3, <2>3 DEF Dealt
<1> QED BY <1>1, <1>4, <1>5, Steps

LEMMA DealtAtFirst ==
    ASSUME WatcherOK, Init
    PROVE  Dealt
<1>1. Sound
    BY SoundAtFirst
<1>2. DOMAIN log = {} /\ poll.at = "idle" /\ poll.fallback = 0 /\ summarised = 0
    BY NoLog, RestIs DEF Init
<1>3. Gaps /\ Whole
    BY <1>2 DEF Gaps, Whole, Midway, Headed
<1>4. Summed
    BY <1>2 DEF Summed
<1>5. Covered(HandledEvents)
    BY <1>2 DEF Covered
<1> QED BY <1>1, <1>3, <1>4, <1>5 DEF Dealt

(* remote_watch.py: the cursor moves after each successful send. Below it   *)
(* nothing was passed in silence: every event of the worker's database was  *)
(* announced, told in a summary, given up after all its attempts, pruned,   *)
(* or was history. That holds however pages, prunings, sends, deaths of the *)
(* daemon and resets of the database fall, with three exceptions: a send    *)
(* that fails in a catch-up, a reset while a burst is in hand or a database *)
(* is read again, and a read torn between two of its pages.                 *)
THEOREM NothingPassedInSilence ==
    ASSUME WatcherOK, "unsent" \notin Faults, "burst" \notin Faults, "torn" \notin Faults
    PROVE  Spec => []NothingSilentlyLost
<1>1. Init => Dealt
    BY DealtAtFirst
<1>2. Dealt /\ [Next]_vars => Dealt'
    BY DealtStays
<1>3. Dealt => NothingSilentlyLost
    <2> SUFFICES ASSUME Dealt, host.epoch = epoch, NEW s \in 1..Min({host.cursor, Len(log)}) PROVE Handled(s)
        BY DEF NothingSilentlyLost
    <2>1. Min({host.cursor, Len(log)}) \in Nat
        <3>1. host.cursor \in Nat /\ Len(log) \in Nat /\ host.cursor <= Len(log)
            BY SoundFacts DEF Dealt, Named
        <3> QED BY <3>1, MinOfTwo
    <2>2. s \in Nat \ {0} /\ s <= Min({host.cursor, Len(log)})
        BY <2>1
    <2> PICK G : G = HandledEvents
        OBVIOUS
    <2>3. s \in HandledEvents
        BY <2>2, Passed DEF Dealt
    <2> QED BY <2>3 DEF HandledEvents
<1> QED BY <1>1, <1>2, <1>3, PTL DEF Spec

----------------------------------------------------------------------------
(* Types and bounds                                                        *)

(* The numbers of a poll are within the bounds of the feed. *)
HeadFits(h) == h.epoch \in 1..MaxEpoch /\ h.high \in 0..MaxSeq
Fits(p) ==
    /\ p \in Poll_ /\ HeadFits(p.head)
    /\ p.after <= MaxSeq /\ p.pages < MaxPages /\ p.fallback <= MaxSeq + 1

LEMMA FitsAtRest ==
    ASSUME WatcherOK, NEW w \in Waits
    PROVE  Fits(AtRest) /\ Fits([AtRest EXCEPT !.at = w])
<1>1. 1 \in 1..MaxEpoch /\ 0 \in 0..MaxSeq /\ 0 <= MaxSeq /\ 0 < MaxPages /\ 0 <= MaxSeq + 1
    BY DEF WatcherOK
<1>2. HeadFits(NoHeader)
    BY <1>1 DEF HeadFits, NoHeader
<1>3. AtRest \in Poll_ /\ [AtRest EXCEPT !.at = w] \in Poll_
    BY RestIs, AtRestAt
<1>4. /\ AtRest.head = NoHeader /\ AtRest.after = 0 /\ AtRest.pages = 0 /\ AtRest.fallback = 0
      /\ [AtRest EXCEPT !.at = w].head = NoHeader /\ [AtRest EXCEPT !.at = w].after = 0
      /\ [AtRest EXCEPT !.at = w].pages = 0 /\ [AtRest EXCEPT !.at = w].fallback = 0
    BY DEF AtRest
<1> QED BY <1>1, <1>2, <1>3, <1>4 DEF Fits

LEMMA FitsGoto ==
    ASSUME NEW p, Fits(p), NEW w \in Waits
    PROVE  Fits([p EXCEPT !.at = w])
<1>1. p \in Poll_
    BY DEF Fits
<1> QED BY <1>1, GotoIs DEF Fits

LEMMA FitsGoOn ==
    ASSUME WatcherOK, NEW p, Fits(p), NEW b \in Batches
    PROVE  Fits(GoOn(p, b))
<1>1. p \in Poll_
    BY DEF Fits
<1>2. CASE b # {}
    <2>1. GoOn(p, b) = [p EXCEPT !.at = "event", !.batch = b]
        BY <1>2 DEF GoOn
    <2>2. PICK q : q = GoOn(p, b)
        OBVIOUS
    <2>3. q \in Poll_ /\ q.head = p.head /\ q.after = p.after /\ q.pages = p.pages /\ q.fallback = p.fallback
        BY <1>1, <2>1, <2>2 DEF Poll_, Waits
    <2> QED BY <2>2, <2>3 DEF Fits
<1>3. CASE b = {} /\ p.catchUp
    <2>1. GoOn(p, b) = [p EXCEPT !.at = "close", !.batch = b, !.burst = FALSE]
        BY <1>3 DEF GoOn
    <2>2. PICK q : q = GoOn(p, b)
        OBVIOUS
    <2>3. q \in Poll_ /\ q.head = p.head /\ q.after = p.after /\ q.pages = p.pages /\ q.fallback = p.fallback
        BY <1>1, <2>1, <2>2 DEF Poll_, Waits
    <2> QED BY <2>2, <2>3 DEF Fits
<1>4. CASE b = {} /\ ~p.catchUp
    <2>1. GoOn(p, b) = [AtRest EXCEPT !.at = "polled"] /\ "polled" \in Waits
        BY <1>4 DEF GoOn, Waits
    <2> QED BY <2>1, FitsAtRest
<1> QED BY <1>2, <1>3, <1>4

LEMMA FitsProcess ==
    ASSUME WatcherOK, Fits(poll), NEW b \in Batches, Process(b)
    PROVE  Fits(poll')
<1>1. poll \in Poll_ /\ poll.head \in Head_
    BY Fields DEF Fits
<1>2. PICK h \in Head_ : h = (IF poll.catchUp THEN poll.head ELSE NoHeader) /\ HeadFits(h)
    <2>1. NoHeader \in Head_ /\ HeadFits(NoHeader)
        BY DEF NoHeader, Head_, HeadFits, WatcherOK
    <2> QED BY <1>1, <2>1 DEF Fits
<1> DEFINE u == Cardinality(Announceable(b)) > Burst
<1>3. u \in BOOLEAN
    OBVIOUS
<1> HIDE DEF u
<1>4. PICK p : p = [poll EXCEPT !.burst = u, !.fallback = 0, !.head = h]
    OBVIOUS
<1>5. poll' = IF u /\ Finals(b) # {} /\ summarised # LastSeq(Announceable(b))
              THEN [p EXCEPT !.at = "summary", !.batch = b] ELSE GoOn(p, b)
    BY <1>2, <1>4 DEF Process, u
<1>6. p \in Poll_ /\ p.head = h /\ p.after = poll.after /\ p.pages = poll.pages /\ p.fallback = 0
    BY <1>1, <1>3, <1>4 DEF Poll_
<1>7. Fits(p)
    BY <1>2, <1>6 DEF Fits, WatcherOK
<1>8. ASSUME poll' = [p EXCEPT !.at = "summary", !.batch = b] PROVE Fits(poll')
    <2>1. PICK q : q = [p EXCEPT !.at = "summary", !.batch = b]
        OBVIOUS
    <2>2. q \in Poll_ /\ q.head = p.head /\ q.after = p.after /\ q.pages = p.pages /\ q.fallback = p.fallback
        BY <1>6, <2>1 DEF Poll_, Waits
    <2> QED BY <1>7, <1>8, <2>1, <2>2 DEF Fits
<1> QED BY <1>5, <1>7, <1>8, FitsGoOn

LEMMA FitsRead ==
    ASSUME WatcherOK, NEW n \in 0..MaxSeq, NEW c \in BOOLEAN, NEW f \in 0..(MaxSeq + 1), Read(n, c, f)
    PROVE  Fits(poll')
<1>1. n \in Nat /\ f \in Nat /\ n <= MaxSeq /\ f <= MaxSeq + 1
    BY DEF WatcherOK
<1>2. poll' \in Poll_
    BY <1>1, ReadIs
<1>3. poll'.head = AtRest.head /\ poll'.after = n /\ poll'.pages = AtRest.pages /\ poll'.fallback = f
    BY DEF Read, AtRest
<1>4. Fits(AtRest)
    BY FitsAtRest DEF Waits
<1> QED BY <1>1, <1>2, <1>3, <1>4 DEF Fits

(* The numbers of the watcher and of the row are within those bounds, too. *)
Numbered == epoch \in 1..MaxEpoch /\ Fits(poll) /\ host.cursor <= MaxSeq /\ summarised <= MaxSeq

LEMMA FitsOnReturn ==
    ASSUME WatcherOK, NEW answered \in BOOLEAN, Return(answered)
    PROVE  Fits(poll')
<1>1. "polled" \in Waits /\ "idle" \in Waits
    BY DEF Waits
<1>2. poll' = [AtRest EXCEPT !.at = "polled"] \/ poll' = [AtRest EXCEPT !.at = "idle"]
    BY DEF Return
<1> QED BY <1>1, <1>2, FitsAtRest

LEMMA FitsOnFirstRead ==
    ASSUME WatcherOK, Shape, Numbered, FirstRead
    PROVE  Fits(poll')
<1> DEFINE n == IF host.epoch = 0 THEN 0 ELSE host.cursor
           c == host.epoch = 0
<1>1. host.cursor \in Nat /\ host.cursor <= MaxSeq
    BY ShapeFacts DEF Numbered
<1>2. n \in 0..MaxSeq /\ c \in BOOLEAN /\ 0 \in 0..(MaxSeq + 1)
    BY <1>1 DEF WatcherOK
<1>3. Read(n, c, 0)
    BY DEF FirstRead
<1> HIDE DEF n, c
<1> QED BY <1>2, <1>3, FitsRead

LEMMA FitsOnPage ==
    ASSUME WatcherOK, Shape, Numbered, PageArrives
    PROVE  Fits(poll')
<1>1. Types /\ poll \in Poll_ /\ poll.after \in Nat /\ poll.pages \in Nat /\ Fits(poll) /\ epoch \in 1..MaxEpoch
    BY ShapeFacts DEF Numbered
<1>2. poll' \in Poll_
    BY PageAction DEF NewTypes
<1>3. Feed.epoch = epoch /\ Feed.high <= Len(log) /\ Feed.high \in Nat /\ Len(log) \in Nat /\ Len(log) <= MaxSeq
      /\ DOMAIN log = 1..Len(log)
    BY <1>1, PageIs, LogFacts
<1>4. HeadFits(Feed)
    BY <1>1, <1>3 DEF HeadFits, WatcherOK
<1> DEFINE h == IF poll.pages = 0 THEN Feed ELSE poll.head
           b == poll.batch \cup EventsAfter(poll.after)
           n == poll.pages + 1
           last == From(poll.after) + Page
           got == [poll EXCEPT !.head = h, !.batch = b, !.pages = n]
<1>5. poll' = IF last \notin DOMAIN log \/ got.pages = MaxPages
              THEN [got EXCEPT !.at = "answered", !.after = 0, !.pages = 0]
              ELSE [got EXCEPT !.after = last]
    BY DEF PageArrives
<1>6. h \in Head_ /\ HeadFits(h) /\ b \in Batches /\ n \in Nat
    <2>1. Feed \in Head_ /\ EventsAfter(poll.after) \in Batches
        BY <1>1, PageIs
    <2> QED BY <1>1, <1>4, <2>1, Fields DEF Fits, Batches
<1>7. n <= MaxPages
    BY <1>1 DEF Fits, WatcherOK
<1> HIDE DEF h, b, n, last
<1>8. /\ got \in Poll_ /\ got.head = h /\ got.pages = n /\ got.fallback = poll.fallback /\ got.after = poll.after
    BY <1>1, <1>6 DEF Poll_
<1>9. PICK g : g = got
    OBVIOUS
<1> HIDE DEF got
<1>10. CASE last \notin DOMAIN log \/ got.pages = MaxPages
    <2>1. poll' = [g EXCEPT !.at = "answered", !.after = 0, !.pages = 0]
        BY <1>5, <1>9, <1>10
    <2>2. poll'.head = g.head /\ poll'.after = 0 /\ poll'.pages = 0 /\ poll'.fallback = g.fallback
        BY <1>8, <1>9, <2>1 DEF Poll_
    <2> QED BY <1>1, <1>2, <1>6, <1>8, <1>9, <2>2 DEF Fits, WatcherOK
<1>11. CASE ~(last \notin DOMAIN log \/ got.pages = MaxPages)
    <2>1. poll' = [g EXCEPT !.after = last]
        BY <1>5, <1>9, <1>11
    <2>2. poll'.head = g.head /\ poll'.after = last /\ poll'.pages = g.pages /\ poll'.fallback = g.fallback
        BY <1>8, <1>9, <2>1 DEF Poll_
    <2>3. last <= MaxSeq
        <3>1. PICK l \in Nat : l = Len(log) /\ l <= MaxSeq /\ last \in 1..l
            BY <1>3, <1>11
        <3> QED BY <3>1 DEF WatcherOK
    <2>4. n < MaxPages
        BY <1>6, <1>7, <1>8, <1>11 DEF WatcherOK
    <2> QED BY <1>1, <1>2, <1>6, <1>8, <1>9, <2>2, <2>3, <2>4 DEF Fits
<1> QED BY <1>10, <1>11

LEMMA FitsOnSave ==
    ASSUME WatcherOK, Shape, Fits(poll), SaveCursor
    PROVE  Fits(poll')
<1>1. poll.batch \ {First(poll.batch)} \in Batches
    BY ShapeFacts DEF Batches
<1> QED BY <1>1, FitsGoOn DEF SaveCursor

(* The poll's numbers, under each of its steps. *)
LEMMA FitsKept ==
    ASSUME WatcherOK, Shape, Numbered, [Next]_vars
    PROVE  Fits(poll')
<1>0. Fits(poll) /\ poll.batch \in Batches /\ {} \in Batches /\ Wanted \in Batches
    BY ShapeFacts, BatchIs DEF Numbered, Batches
<1>1. ASSUME NEW a \in BOOLEAN, Return(a) PROVE Fits(poll')
    BY <1>1, FitsOnReturn
<1>2. ASSUME poll' = AtRest \/ poll' = [AtRest EXCEPT !.at = "alert"] PROVE Fits(poll')
    <2>1. "alert" \in Waits
        BY DEF Waits
    <2> QED BY <1>2, <2>1, FitsAtRest
<1>3. CASE StartPoll
    <2>1. "probe" \in Waits
        BY DEF Waits
    <2>2. FirstRead \/ poll' = [poll EXCEPT !.at = "probe"]
        BY <1>3 DEF StartPoll, Goto
    <2> QED BY <1>0, <2>1, <2>2, FitsOnFirstRead, FitsGoto
<1>4. CASE PageArrives
    BY <1>4, FitsOnPage
<1>5. CASE FirstContact \/ StartOverAnswered
    <2>1. Process(Wanted)
        BY <1>5 DEF FirstContact, StartOverAnswered, CatchUp, Wanted
    <2> QED BY <1>0, <2>1, FitsProcess
<1>6. CASE News
    BY <1>0, <1>6, FitsProcess DEF News
<1>7. CASE StartOver
    <2>1. Read(0, TRUE, poll.head.high + 1)
        BY <1>7 DEF StartOver
    <2>2. 0 \in 0..MaxSeq /\ poll.head.high + 1 \in 0..(MaxSeq + 1)
        BY <1>0 DEF Fits, HeadFits, WatcherOK
    <2> QED BY <2>1, <2>2, FitsRead
<1>8. CASE Mismatch \/ StartOverFails \/ CatchUpCloses
    <2>1. Return(TRUE) \/ Return(FALSE)
        BY <1>8 DEF Mismatch, StartOverFails, CatchUpCloses
    <2> QED BY <1>1, <2>1
<1>9. ASSUME NEW b \in BOOLEAN, ProbeAnswers(b) \/ Unreachable(b) \/ AlertReturns(b) PROVE Fits(poll')
    <2>1. Return(FALSE) \/ FirstRead \/ poll' = [AtRest EXCEPT !.at = "alert"]
        BY <1>9 DEF ProbeAnswers, Unreachable, AlertReturns
    <2> QED BY <1>1, <1>2, <2>1, FitsOnFirstRead
<1>10. CASE NextEvent
    <2>1. "send" \in Waits
        BY DEF Waits
    <2>2. SaveCursor \/ poll' = [poll EXCEPT !.at = "send"]
        BY <1>10 DEF NextEvent, Goto
    <2> QED BY <1>0, <2>1, <2>2, FitsOnSave, FitsGoto
<1>11. ASSUME NEW ok \in BOOLEAN, SummaryReturns(ok) \/ SendReturns(ok) PROVE Fits(poll')
    <2>1. SaveCursor \/ \E b \in Batches : poll' = GoOn(poll, b)
        BY <1>0, <1>11 DEF SummaryReturns, SendReturns
    <2> QED BY <1>0, <2>1, FitsOnSave, FitsGoOn
<1>12. CASE StartPulls \/ \E keeps, arrives \in BOOLEAN : Stop(keeps, arrives)
    BY <1>2, <1>12 DEF StartPulls, Stop
<1>13. CASE poll' = poll
    BY <1>0, <1>13
<1>14. [Next]_vars =>
         \/ poll' = poll \/ StartPulls \/ Poll
         \/ \E keeps, arrives \in BOOLEAN : Stop(keeps, arrives)
    BY DEF Next, Worker, Pull, vars, memory, AddEvent, PruneEvents, ResetDatabase,
           RunQueued, PullFails, PullArrives, PullRecorded
<1> QED BY <1>3, <1>4, <1>5, <1>6, <1>7, <1>8, <1>9, <1>10, <1>11, <1>12, <1>13, <1>14 DEF Poll

LEMMA NumberedKept ==
    ASSUME WatcherOK, Shape, Numbered, [Next]_vars
    PROVE  Numbered'
<1>1. Fits(poll') /\ Fits(poll)
    BY FitsKept DEF Numbered
<1>2. CASE WorkerStep
    <2>1. UNCHANGED <<host, poll, summarised>>
        BY <1>2, WorkerTypes
    <2>2. epoch' = epoch \/ (epoch < MaxEpoch /\ epoch' = epoch + 1)
        BY <1>2 DEF WorkerStep, AddEvent, PruneEvents, ResetDatabase
    <2>3. epoch' \in 1..MaxEpoch
        BY <2>2 DEF Numbered, WatcherOK
    <2> QED BY <1>1, <2>1, <2>3 DEF Numbered
<1>3. CASE PollStep
    <2>1. epoch' = epoch
        BY <1>3 DEF PollStep, Stands, RestStep, BeginStep, PageStep, ContactStep, AgainStep, CatchUpStep,
                    NewsStep, OverStep, OverFailsStep, SummaryStep, LeaveStep, SendStep, SaveStep, CloseStep, DbSame
    <2>2. poll.at \in {"event", "send"} => First(poll.batch).seq \in Seqs
        <3>1. poll.at \in {"event", "send"} => poll.batch # {}
            BY DEF Shape
        <3>2. poll.batch # {} => First(poll.batch) \in Read_
            BY FirstIs, ShapeFacts DEF WatcherOK
        <3> QED BY <3>1, <3>2 DEF Read_
    <2>3. \/ host'.cursor \in {host.cursor, 0, poll.head.high}
          \/ (poll.at \in {"event", "send"} /\ host'.cursor = First(poll.batch).seq)
          \/ (poll.fallback > 0 /\ host'.cursor = poll.fallback - 1)
        BY <1>3 DEF PollStep, Stands, RestStep, BeginStep, PageStep, ContactStep, AgainStep, CatchUpStep,
                    NewsStep, OverStep, OverFailsStep, SummaryStep, LeaveStep, SendStep, SaveStep, CloseStep, RowSame
    <2>4. host'.cursor <= MaxSeq
        <3>1. host.cursor <= MaxSeq /\ 0 <= MaxSeq /\ poll.head.high <= MaxSeq
            BY <1>1 DEF Numbered, Fits, HeadFits, WatcherOK
        <3>2. poll.fallback - 1 <= MaxSeq
            BY <1>1, ShapeFacts DEF Fits, WatcherOK
        <3>3. \A s \in Seqs : s <= MaxSeq
            BY DEF Seqs, WatcherOK
        <3> QED BY <2>2, <2>3, <3>1, <3>2, <3>3
    <2>5. summarised' \in {summarised, 0}
          \/ (poll.at = "summary" /\ summarised' = LastSeq(Announceable(poll.batch)))
        BY <1>3 DEF PollStep, Stands, RestStep, BeginStep, PageStep, ContactStep, AgainStep, CatchUpStep,
                    NewsStep, OverStep, OverFailsStep, SummaryStep, LeaveStep, SendStep, SaveStep, CloseStep, StoreSame
    <2>6. poll.at = "summary" => LastSeq(Announceable(poll.batch)) \in Seqs
        <3>1. Announceable(poll.batch) \in Batches /\ Finals(poll.batch) \subseteq Announceable(poll.batch)
            BY ShapeFacts, BatchIs
        <3>2. poll.at = "summary" => Finals(poll.batch) # {}
            BY DEF Shape
        <3> QED BY <3>1, <3>2, LastIs DEF WatcherOK
    <2>7. summarised' <= MaxSeq
        <3>1. summarised <= MaxSeq /\ 0 <= MaxSeq
            BY DEF Numbered, WatcherOK
        <3>2. \A s \in Seqs : s <= MaxSeq
            BY DEF Seqs, WatcherOK
        <3> QED BY <2>5, <2>6, <3>1, <3>2
    <2> QED BY <1>1, <2>1, <2>4, <2>7 DEF Numbered
<1> QED BY <1>2, <1>3, Steps

(* A message is given up in the poll in which it fails for the last time. *)
Patient == fails \in [Seqs -> 0..(SendAttempts - 1)]

LEMMA PatientKept ==
    ASSUME WatcherOK, Shape, Patient, [Next]_vars
    PROVE  Patient'
<1>1. 0 \in 0..(SendAttempts - 1) /\ SendAttempts \in Nat \ {0}
    BY DEF WatcherOK
<1>2. ASSUME SaveCursor PROVE Patient'
    BY <1>1, <1>2 DEF SaveCursor, Patient
<1>3. ASSUME NEW ok \in BOOLEAN, SendReturns(ok) PROVE Patient'
    <2>1. poll.batch # {} /\ poll.batch \in Batches
        BY <1>3, ShapeFacts DEF SendReturns, Shape
    <2>2. First(poll.batch).seq \in Seqs
        BY <2>1, FirstIs DEF WatcherOK, Read_
    <2>3. PICK s \in Seqs : s = First(poll.batch).seq
        BY <2>2
    <2>4. SaveCursor \/ (~GiveUp(s) /\ fails' = [fails EXCEPT ![s] = @ + 1])
        BY <1>3, <2>3 DEF SendReturns
    <2>5. ASSUME ~GiveUp(s), fails' = [fails EXCEPT ![s] = @ + 1] PROVE Patient'
        <3>1. PICK k \in 0..(SendAttempts - 1) : k = fails[s]
            BY DEF Patient
        <3>2. k + 1 \in 0..(SendAttempts - 1)
            BY <1>1, <2>5, <3>1 DEF GiveUp
        <3>3. fails' = [fails EXCEPT ![s] = k + 1]
            BY <2>5, <3>1
        <3> QED BY <3>2, <3>3 DEF Patient
    <2> QED BY <1>2, <2>4, <2>5
<1>4. CASE NextEvent
    <2>1. SaveCursor \/ fails' = fails
        BY <1>4 DEF NextEvent
    <2> QED BY <1>2, <2>1 DEF Patient
<1>5. CASE \E keeps, arrives \in BOOLEAN : Stop(keeps, arrives)
    <2>1. fails' = fails \/ fails' = [s \in Seqs |-> 0]
        BY <1>5 DEF Stop
    <2> QED BY <1>1, <2>1 DEF Patient
<1>6. [Next]_vars =>
        \/ fails' = fails \/ NextEvent \/ \E ok \in BOOLEAN : SendReturns(ok)
        \/ \E keeps, arrives \in BOOLEAN : Stop(keeps, arrives)
    BY DEF Next, Worker, Poll, Pull, vars, memory, AddEvent, PruneEvents, ResetDatabase, StartPoll, PageArrives,
           Mismatch, FirstContact, News, StartOver, StartOverFails, StartOverAnswered,
           CatchUpCloses, ProbeAnswers, Unreachable, AlertReturns, SummaryReturns,
           StartPulls, RunQueued, PullFails, PullArrives, PullRecorded
<1> QED BY <1>3, <1>4, <1>5, <1>6 DEF Patient

(* A list without repetitions. *)
Once(q) == \A m, n \in DOMAIN q : m # n => q[m] # q[n]

LEMMA OnceTail ==
    ASSUME NEW J, NEW q \in Todos(J), q # << >>, Once(q)
    PROVE  /\ Once(Tail(q))
           /\ \A n \in DOMAIN Tail(q) : Tail(q)[n] # Head(q) /\ \E m \in DOMAIN q : Tail(q)[n] = q[m]
<1>1. q \in Seq(J)
    BY DEF Todos
<1>2. PICK k \in Nat : k = Len(q) /\ DOMAIN q = 1..k
    BY <1>1
<1>3. k # 0
    BY <1>1, <1>2
<1>4. Len(Tail(q)) = k - 1 /\ DOMAIN Tail(q) = 1..(k - 1)
    BY <1>1, <1>2, <1>3
<1>5. ASSUME NEW n \in DOMAIN Tail(q)
      PROVE  Tail(q)[n] = q[n + 1] /\ n + 1 \in DOMAIN q /\ n + 1 # 1 /\ n \in Nat
    BY <1>1, <1>2, <1>3, <1>4
<1>6. Head(q) = q[1] /\ 1 \in DOMAIN q
    BY <1>1, <1>2, <1>3
<1>7. ASSUME NEW m \in DOMAIN Tail(q), NEW n \in DOMAIN Tail(q), m # n PROVE Tail(q)[m] # Tail(q)[n]
    <2>1. m + 1 # n + 1
        BY <1>5, <1>7
    <2> QED BY <1>5, <2>1 DEF Once
<1>8. ASSUME NEW n \in DOMAIN Tail(q) PROVE Tail(q)[n] # Head(q) /\ \E m \in DOMAIN q : Tail(q)[n] = q[m]
    BY <1>5, <1>6 DEF Once
<1> QED BY <1>7, <1>8 DEF Once

LEMMA TodoOnce ==
    ASSUME NEW S, IsFiniteSet(S)
    PROVE  Once(SetToSeq(S)) /\ \A n \in DOMAIN SetToSeq(S) : SetToSeq(S)[n] \in S
<1>1. Cardinality(S) \in Nat /\ ExistsBijection(1..Cardinality(S), S)
    BY FS_CardinalityType
<1>2. PICK g : g \in Bijection(1..Cardinality(S), S)
    BY <1>1 DEF ExistsBijection
<1>3. \E f \in [1..Cardinality(S) -> S] : IsInjective(f)
    BY <1>2 DEF Bijection, Injection, Surjection, IsInjective
<1>4. PICK q \in [1..Cardinality(S) -> S] : q = SetToSeq(S) /\ IsInjective(q)
    BY <1>3 DEF SetToSeq
<1>5. Once(q)
    BY <1>4 DEF Once, IsInjective
<1> QED BY <1>4, <1>5

(* The pull task has each run once, and none whose attempts are used. *)
Attempts ==
    /\ \A r \in Runs : run[r].home <= epoch /\ run[r].tries <= PullAttempts
    /\ Once(pull.todo) /\ \A n \in DOMAIN pull.todo : run[pull.todo[n]].tries < PullAttempts

LEMMA TriesIs ==
    ASSUME NEW R \in [Runs -> [home : Nat, tries : Nat, pulled : BOOLEAN]], NEW r \in Runs, NEW n \in Nat
    PROVE  /\ LET R2 == [R EXCEPT ![r].home = n]
              IN \A q \in Runs : R2[q].tries = R[q].tries /\ R2[q].home \in {R[q].home, n}
           /\ LET R2 == [R EXCEPT ![r].tries = @ + 1]
              IN  /\ R2[r].tries = R[r].tries + 1 /\ \A q \in Runs : q # r => R2[q].tries = R[q].tries
                  /\ \A q \in Runs : R2[q].home = R[q].home
           /\ LET R2 == [R EXCEPT ![r].pulled = TRUE]
              IN \A q \in Runs : R2[q].tries = R[q].tries /\ R2[q].home = R[q].home
<1>1. PICK x \in [home : Nat, tries : Nat, pulled : BOOLEAN] : x = R[r]
    OBVIOUS
<1>2. LET R2 == [R EXCEPT ![r].home = n]
      IN \A q \in Runs : R2[q].tries = R[q].tries /\ R2[q].home \in {R[q].home, n}
    BY <1>1
<1>3. LET R2 == [R EXCEPT ![r].tries = @ + 1]
      IN  /\ R2[r].tries = R[r].tries + 1 /\ \A q \in Runs : q # r => R2[q].tries = R[q].tries
          /\ \A q \in Runs : R2[q].home = R[q].home
    BY <1>1
<1>4. LET R2 == [R EXCEPT ![r].pulled = TRUE]
      IN \A q \in Runs : R2[q].tries = R[q].tries /\ R2[q].home = R[q].home
    BY <1>1
<1> QED BY <1>2, <1>3, <1>4

LEMMA AttemptsKept ==
    ASSUME WatcherOK, Sound, Attempts, PullsStored, [Next]_vars
    PROVE  Attempts'
<1> DEFINE Table == [Runs -> [home : Nat, tries : Nat, pulled : BOOLEAN]]
<1>0. Shape /\ run \in Table /\ epoch \in Nat /\ jobs \subseteq Runs /\ PullAttempts \in Nat \ {0}
    BY ShapeFacts DEF Sound, Types, WatcherOK
<1>1. epoch' = epoch \/ epoch' = epoch + 1
    <2>1. PollStep => epoch' = epoch
        BY DEF PollStep, Stands, RestStep, BeginStep, PageStep, ContactStep, AgainStep, CatchUpStep, NewsStep,
               OverStep, OverFailsStep, SummaryStep, LeaveStep, SendStep, SaveStep, CloseStep, DbSame
    <2>2. WorkerStep => epoch' = epoch \/ epoch' = epoch + 1
        BY DEF WorkerStep, AddEvent, PruneEvents, ResetDatabase
    <2> QED BY <1>0, <2>1, <2>2, Steps
<1>2. pull.todo \in Todos(jobs)
    BY DEF PullsStored
<1>3. ASSUME run' = run PROVE \A r \in Runs : run'[r].home <= epoch' /\ run'[r].tries <= PullAttempts
    <2> SUFFICES ASSUME NEW r \in Runs PROVE run[r].home <= epoch' /\ run[r].tries <= PullAttempts
        BY <1>3
    <2>1. run[r].home \in Nat /\ run[r].home <= epoch /\ run[r].tries <= PullAttempts
        BY <1>0 DEF Attempts
    <2> QED BY <1>0, <1>1, <2>1
<1>4. CASE pull'.todo = pull.todo /\ run' = run
    BY <1>3, <1>4 DEF Attempts
<1>5. ASSUME NEW r \in Runs, RunQueued(r) PROVE Attempts'
    <2>1. run' = [run EXCEPT ![r].home = epoch] /\ pull' = pull /\ epoch' = epoch
        BY <1>5 DEF RunQueued, memory, worker
    <2>2. \A q \in Runs : run'[q].tries = run[q].tries /\ run'[q].home \in {run[q].home, epoch}
        BY <1>0, <2>1, TriesIs
    <2>3. \A n \in DOMAIN pull.todo : pull.todo[n] \in Runs
        BY <1>0, <1>2 DEF Todos
    <2> QED BY <1>0, <2>1, <2>2, <2>3 DEF Attempts
<1>6. ASSUME NEW r \in Runs, PullFails(r) PROVE Attempts'
    <2>1. /\ run' = [run EXCEPT ![r].tries = @ + 1] /\ pull' = [pull EXCEPT !.todo = Tail(@)]
          /\ pull.todo # << >> /\ r = Head(pull.todo) /\ epoch' = epoch
        BY <1>6 DEF PullFails, Pulling, worker
    <2>2. /\ run'[r].tries = run[r].tries + 1 /\ \A q \in Runs : q # r => run'[q].tries = run[q].tries
          /\ \A q \in Runs : run'[q].home = run[q].home
        BY <1>0, <2>1, TriesIs
    <2>3. PICK t : t = Tail(pull.todo)
        OBVIOUS
    <2>4. pull'.todo = t
        BY <2>1, <2>3 DEF PullsStored
    <2>5. Once(t) /\ \A n \in DOMAIN t : t[n] # r /\ \E m \in DOMAIN pull.todo : t[n] = pull.todo[m]
        BY <1>2, <2>1, <2>3, OnceTail DEF Attempts
    <2>6. \A m \in DOMAIN pull.todo : pull.todo[m] \in Runs
        BY <1>0, <1>2 DEF Todos
    <2>7. \A n \in DOMAIN t : run'[t[n]].tries < PullAttempts
        BY <2>2, <2>5, <2>6 DEF Attempts
    <2>8. run[r].tries < PullAttempts
        <3>1. 1 \in DOMAIN pull.todo /\ Head(pull.todo) = pull.todo[1]
            BY <1>2, <2>1 DEF Todos
        <3> QED BY <2>1, <3>1 DEF Attempts
    <2>9. run'[r].tries <= PullAttempts
        <3>1. run[r].tries \in Nat
            BY <1>0
        <3> QED BY <1>0, <2>2, <2>8, <3>1
    <2>10. \A q \in Runs : run'[q].home <= epoch' /\ run'[q].tries <= PullAttempts
        BY <2>1, <2>2, <2>9 DEF Attempts
    <2> QED BY <2>4, <2>5, <2>7, <2>10 DEF Attempts
<1>7. ASSUME NEW r \in Runs, PullRecorded(r) PROVE Attempts'
    <2>1. /\ run' = [run EXCEPT ![r].pulled = TRUE] /\ 0 \in Nat
          /\ pull' = [todo |-> Tail(pull.todo), arrived |-> FALSE] /\ pull.todo # << >> /\ epoch' = epoch
        BY <1>7 DEF PullRecorded, Pulling, worker
    <2>2. \A q \in Runs : run'[q].tries = run[q].tries /\ run'[q].home = run[q].home
        BY <1>0, <2>1, TriesIs
    <2>3. PICK t : t = Tail(pull.todo)
        OBVIOUS
    <2>4. pull'.todo = t
        BY <2>1, <2>3
    <2>5. Once(t) /\ \A n \in DOMAIN t : \E m \in DOMAIN pull.todo : t[n] = pull.todo[m]
        BY <1>2, <2>1, <2>3, OnceTail DEF Attempts
    <2>6. \A m \in DOMAIN pull.todo : pull.todo[m] \in Runs
        BY <1>0, <1>2 DEF Todos
    <2>7. \A n \in DOMAIN t : run'[t[n]].tries < PullAttempts
        BY <2>2, <2>5, <2>6 DEF Attempts
    <2>8. \A q \in Runs : run'[q].home <= epoch' /\ run'[q].tries <= PullAttempts
        BY <2>1, <2>2 DEF Attempts
    <2> QED BY <2>4, <2>5, <2>7, <2>8 DEF Attempts
<1>8. ASSUME NEW r \in Runs, PullArrives(r) PROVE Attempts'
    <2>1. run' = run /\ pull'.todo = pull.todo
        BY <1>8 DEF PullArrives, PullsStored
    <2> QED BY <1>4, <2>1
<1>9. CASE StartPulls
    <2>1. run' = run /\ pull' = IF pull.todo = << >> THEN [pull EXCEPT !.todo = SetToSeq(Pending)] ELSE pull
        BY <1>9 DEF StartPulls
    <2>2. IsFiniteSet(Pending)
        <3>1. Pending \subseteq Runs
            BY <1>0 DEF Pending
        <3> QED BY <3>1, FS_Subset DEF WatcherOK
    <2>3. CASE pull.todo = << >>
        <3>1. PICK q : q = SetToSeq(Pending)
            OBVIOUS
        <3>2. Once(q) /\ \A n \in DOMAIN q : q[n] \in Pending
            BY <2>2, <3>1, TodoOnce
        <3>3. pull'.todo = q
            BY <2>1, <2>3, <3>1 DEF PullsStored
        <3>4. \A n \in DOMAIN q : run'[q[n]].tries < PullAttempts
            BY <2>1, <3>2 DEF Pending
        <3> QED BY <1>3, <2>1, <3>2, <3>3, <3>4 DEF Attempts
    <2>4. CASE pull.todo # << >>
        BY <1>4, <2>1, <2>4
    <2> QED BY <2>3, <2>4
<1>10. CASE \E keeps, arrives \in BOOLEAN : Stop(keeps, arrives)
    <2>1. pull'.todo = << >> /\ run' = run
        BY <1>10 DEF Stop, NoPull
    <2>2. DOMAIN << >> = {}
        BY NoLog
    <2> QED BY <1>3, <2>1, <2>2 DEF Attempts, Once
<1>11. CASE pull' = pull /\ run' = run
    BY <1>4, <1>11
<1>12. [Next]_vars =>
        \/ pull' = pull /\ run' = run
        \/ \E r \in Runs : RunQueued(r) \/ PullFails(r) \/ PullArrives(r) \/ PullRecorded(r)
        \/ StartPulls
        \/ \E keeps, arrives \in BOOLEAN : Stop(keeps, arrives)
    BY DEF Next, Worker, Poll, Pull, vars, memory, AddEvent, PruneEvents, ResetDatabase, StartPoll, PageArrives,
           Mismatch, FirstContact, News, StartOver, StartOverFails, StartOverAnswered, NextEvent,
           CatchUpCloses, ProbeAnswers, Unreachable, AlertReturns, SummaryReturns, SendReturns
<1> QED BY <1>5, <1>6, <1>7, <1>8, <1>9, <1>10, <1>11, <1>12

(* The tarballs of a run, the events passed over and the ends of the daemon. *)
Counts == files \in [Runs -> 0..2] /\ unread \subseteq Seqs /\ stops \in 0..MaxStops

LEMMA CountsKept ==
    ASSUME WatcherOK, Sound, PullsStored, Numbered, Counts, [Next]_vars
    PROVE  Counts'
<1>1. jobs \subseteq Runs /\ pull.todo \in Todos(jobs)
    BY ShapeFacts DEF Sound, PullsStored
<1>2. ASSUME NEW r \in Runs, files[r] < 2, files' = [files EXCEPT ![r] = @ + 1] PROVE files' \in [Runs -> 0..2]
    <2>1. PICK k \in 0..2 : k = files[r]
        BY DEF Counts
    <2>2. k + 1 \in 0..2 /\ files' = [files EXCEPT ![r] = k + 1]
        BY <1>2, <2>1
    <2> QED BY <2>2 DEF Counts
<1>3. ASSUME NEW r \in Runs, PullArrives(r) PROVE Counts'
    BY <1>2, <1>3 DEF PullArrives, Counts, observers
<1>6. CASE StartOverFails
    <2>1. poll.fallback \in Nat /\ poll.fallback <= MaxSeq + 1 /\ MaxSeq \in Nat
        BY ShapeFacts DEF Sound, Numbered, Fits, WatcherOK
    <2>2. 1..(poll.fallback - 1) \subseteq Seqs
        BY <2>1 DEF Seqs
    <2> QED BY <1>6, <2>2 DEF StartOverFails, Counts
<1>7. CASE ResetDatabase
    BY <1>7 DEF ResetDatabase, Counts
<1>4. ASSUME NEW keeps \in BOOLEAN, NEW arrives \in BOOLEAN, Stop(keeps, arrives) PROVE Counts'
    <2>1. stops' \in 0..MaxStops
        BY <1>4 DEF Stop, Counts, WatcherOK
    <2>2. pull.todo # << >> => Head(pull.todo) \in Runs
        BY <1>1, TodoTail
    <2>3. files' = files \/ (pull.todo # << >> /\ files[Head(pull.todo)] < 2
                             /\ files' = [files EXCEPT ![Head(pull.todo)] = @ + 1])
        BY <1>4 DEF Stop, OnItsWay
    <2>4. files' \in [Runs -> 0..2]
        BY <1>2, <2>2, <2>3 DEF Counts
    <2>5. unread' = unread
        BY <1>4 DEF Stop
    <2> QED BY <2>1, <2>4, <2>5 DEF Counts
<1>5. [Next]_vars =>
        \/ files' = files /\ stops' = stops /\ unread' = unread
        \/ StartOverFails \/ ResetDatabase
        \/ \E r \in Runs : PullArrives(r)
        \/ \E keeps, arrives \in BOOLEAN : Stop(keeps, arrives)
    BY DEF Next, Worker, Poll, Pull, vars, observers, AddEvent, PruneEvents, StartPoll, PageArrives,
           Mismatch, FirstContact, News, StartOver, StartOverAnswered, NextEvent,
           CatchUpCloses, ProbeAnswers, Unreachable, AlertReturns, SummaryReturns, SendReturns,
           StartPulls, RunQueued, PullFails, PullRecorded
<1> QED BY <1>3, <1>4, <1>5, <1>6, <1>7 DEF Counts

Bounded == Sound /\ PullsStored /\ Numbered /\ Patient /\ Attempts /\ Counts

LEMMA BoundedAtFirst ==
    ASSUME WatcherOK, Init
    PROVE  Bounded
<1>1. Sound /\ PullsStored
    BY SoundAtFirst, KeptAtFirst DEF Kept
<1>2. Numbered
    BY FitsAtRest DEF Init, Numbered, Waits, WatcherOK
<1>3. Patient
    BY DEF Init, Patient, WatcherOK
<1>4. Attempts
    <2>1. DOMAIN << >> = {}
        BY NoLog
    <2> QED BY <2>1 DEF Init, Attempts, Once, NoPull, WatcherOK
<1>5. Counts
    BY DEF Init, Counts, WatcherOK
<1> QED BY <1>1, <1>2, <1>3, <1>4, <1>5 DEF Bounded

LEMMA BoundedIsTyped ==
    ASSUME WatcherOK, Bounded
    PROVE  TypeOK
<1>0. Shape /\ Types
    BY ShapeFacts DEF Bounded, Sound
<1>1. epoch \in 1..MaxEpoch /\ log \in Seq(Event) /\ Len(log) <= MaxSeq /\ pruned \in 0..Len(log)
    BY <1>0 DEF Bounded, Numbered, Types, Logs
<1>2. host \in [epoch : 0..MaxEpoch, cursor : 0..MaxSeq, incompatible : BOOLEAN, alerted : BOOLEAN]
    <2>1. host \in Row /\ host.epoch \in Nat /\ host.cursor \in Nat
        BY <1>0, ShapeFacts
    <2>2. host.epoch <= epoch /\ epoch \in 1..MaxEpoch /\ host.cursor <= MaxSeq
        BY SoundFacts DEF Bounded, Numbered
    <2>3. host.epoch \in 0..MaxEpoch /\ host.cursor \in 0..MaxSeq
        BY <2>1, <2>2 DEF WatcherOK
    <2> QED BY <2>1, <2>3 DEF Row
<1>3. run \in [Runs -> [home : 0..MaxEpoch, tries : 0..PullAttempts, pulled : BOOLEAN]]
    <2>1. run \in [Runs -> [home : Nat, tries : Nat, pulled : BOOLEAN]]
        BY <1>0 DEF Types
    <2>2. ASSUME NEW r \in Runs
          PROVE  run[r] \in [home : 0..MaxEpoch, tries : 0..PullAttempts, pulled : BOOLEAN]
        <3>1. PICK x \in [home : Nat, tries : Nat, pulled : BOOLEAN] : x = run[r]
            BY <2>1
        <3>2. x.home <= epoch /\ x.tries <= PullAttempts /\ epoch \in 1..MaxEpoch
            BY <3>1 DEF Bounded, Attempts, Numbered
        <3>3. x.home \in 0..MaxEpoch /\ x.tries \in 0..PullAttempts
            BY <3>2 DEF WatcherOK
        <3>4. x \in [home : 0..MaxEpoch, tries : 0..PullAttempts, pulled : BOOLEAN]
            BY <3>3
        <3> QED BY <3>1, <3>4
    <2> QED BY <2>1, <2>2
<1>4. fails \in [Seqs -> 0..(SendAttempts - 1)] /\ summarised \in 0..MaxSeq
    BY <1>0, ShapeFacts DEF Bounded, Patient, Numbered, WatcherOK
<1>5. poll.head \in Header /\ poll.after \in 0..MaxSeq /\ poll.pages \in 0..MaxPages
    <2>1. poll \in Poll_ /\ Fits(poll) /\ poll.head \in Head_ /\ poll.after \in Nat /\ poll.pages \in Nat
        BY <1>0, ShapeFacts, Fields DEF Bounded, Numbered
    <2>2. poll.head \in Header
        BY <2>1 DEF Fits, HeadFits, Header, Head_
    <2>3. poll.after \in 0..MaxSeq /\ poll.pages \in 0..MaxPages
        BY <2>1 DEF Fits, WatcherOK
    <2> QED BY <2>2, <2>3
<1>6. pull.todo \in Seq(Runs) /\ pull.arrived \in BOOLEAN
    <2>1. pull.todo \in Todos(jobs) /\ jobs \subseteq Runs /\ pull.arrived \in BOOLEAN
        BY <1>0, ShapeFacts DEF Bounded, PullsStored
    <2> QED BY <2>1, TodoMore DEF Todos
<1> QED BY <1>0, <1>1, <1>2, <1>3, <1>4, <1>5, <1>6 DEF TypeOK, Types, Fates, Bounded, Counts

(* The variables keep their types and bounds: the cursor and what was read  *)
(* stay within the feed, a message is given up after SEND_ATTEMPTS polls,   *)
(* no pull is tried more than PULL_ATTEMPTS times, whatever fails or stops  *)
(* in between (remote_watch.py `_read`, `_process`, `_pull_worker`).        *)
THEOREM WatcherTyped == ASSUME WatcherOK PROVE Spec => []TypeOK
<1>1. Init => Bounded
    BY BoundedAtFirst
<1>2. Bounded /\ [Next]_vars => Bounded'
    BY SoundKept, PullsStoredKept, NumberedKept, PatientKept, AttemptsKept, CountsKept DEF Bounded, Sound
<1>3. Bounded => TypeOK
    BY BoundedIsTyped
<1> QED BY <1>1, <1>2, <1>3, PTL DEF Spec
=============================================================================
