-------------------------- MODULE RemoteRunProofs --------------------------
(***************************************************************************)
(* Proofs about RemoteRun, for any number of runs, reruns, drivers,        *)
(* folders, jobs and losses, as long as no circumstance of Fault is let    *)
(* in: a run key makes one job in one folder, a job has the folder it was  *)
(* promised, the host's rows tell the truth, and blanked arguments are     *)
(* never used.                                                             *)
(***************************************************************************)
EXTENDS RemoteRun, TLAPS, SequenceTheorems

(* What every key, driver, command and row means.                          *)

HasJob(k) == \E j \in DOMAIN jobs : jobs[j].key = k

(* A folder that is whole, with all that was asked for.                    *)
Good(f) == f \in Folders /\ folder[f].at = "whole" /\ Ready(f)

(* Where key k has its folder, as far as anybody knows: the row, a driver,  *)
(* a command that was told of the folder or has made it, a job.            *)
CmdKnows(s) == cmd[s].what # "receive" \/ cmd[s].at = "done"

Known(k, f) ==
    /\ f # 0
    /\ \/ row[k].dir = f
       \/ \E d \in Drivers : driver[d].key = k /\ driver[d].dir = f
       \/ \E s \in Slots : cmd[s].key = k /\ CmdKnows(s) /\ cmd[s].dir = f
       \/ \E j \in DOMAIN jobs : jobs[j].key = k /\ jobs[j].dir = f

Place(k, f) ==
    /\ f \in Folders /\ folder[f].at = "whole"
    /\ k \in Runs => folder[f].key = k
    /\ k \in Reruns => Ready(f)

(* Everybody who knows a folder of a key knows the same one, and it is there. *)
KnownPlaces == \A k \in Keys : \A f : Known(k, f) => Place(k, f)
OneDir == \A k \in Keys : \A f, g : Known(k, f) /\ Known(k, g) => f = g

(* An upload under way has half a folder to itself.                        *)
Receiving ==
    /\ \A f \in Folders : folder[f].at = "free" => folder[f] = NoFolder
    /\ \A s \in Slots : Busy(s, "receive") =>
         /\ cmd[s].dir \in Folders
         /\ folder[cmd[s].dir].at = "half" /\ folder[cmd[s].dir].key = cmd[s].key
    /\ \A s, t \in Slots :
         Busy(s, "receive") /\ Busy(t, "receive") /\ cmd[s].key = cmd[t].key => s = t

Beyond == {"sent", "prepared", "queued"}

(* A row.                                                                  *)
RowOK(k) ==
    /\ row[k].state = "none" => row[k].dir = 0
    /\ row[k].state \in Beyond => row[k].dir # 0
    /\ row[k].state # "none" /\ k \in Reruns => row[k].dir # 0
    /\ row[k].state \in {"prepared", "queued"} => Good(row[k].dir)
    /\ row[k].state = "queued" => row[k].id \in DOMAIN jobs /\ jobs[row[k].id].key = k

(* A driver: what it has done by the time it is where it is.               *)
DriverOK(d) ==
    LET r == driver[d] IN
    /\ r.at = "free" <=> r.key = None
    /\ r.at = "free" => r = Free
    /\ r.at # "free" => r.state \in States
    /\ r.at \in {"save", "send"} => r.state = "created"
    /\ r.at = "prepare" => r.state = "sent" /\ r.key \in Runs
    /\ r.at = "queue" => r.state \in {"sent", "prepared"} /\ (r.key \in Runs => r.state = "prepared")
    /\ r.at = "redact" => HasJob(r.key)
    /\ r.state \in Beyond => r.dir # 0
    /\ r.key \in Reruns => r.dir # 0
    /\ r.state \in {"prepared", "queued"} => Good(r.dir)

(* A row knows of the folder once a driver does.                           *)
Follows(d) ==
    driver[d].at # "free" /\ driver[d].state \in Beyond /\ row[driver[d].key].state # "none"
    => row[driver[d].key].dir # 0

(* A command: whose it is, and what it was told.                           *)
CmdOK(s) ==
    LET c == cmd[s] IN
    /\ c.what = "none" \/ c.key = None \/ c.at = "none" => c = NoCmd
    /\ c.what \in {"receive", "prepare"} => c.key \in Runs
    /\ c.what = "update" => c.key \in Reruns
    /\ c.what # "none" /\ CmdKnows(s) => c.dir # 0
    /\ c.what = "add" \/ (c.what = "prepare" /\ c.at = "done") => Good(c.dir)
    /\ c.what = "add" /\ c.at = "done" => c.id \in DOMAIN jobs /\ jobs[c.id].key = c.key

(* A driver and its command.                                               *)
Owns(d) ==
    LET c == cmd[d] IN
    /\ c.what # "none" <=> driver[d].at = "waits"
    /\ c.what # "none" => c.key = driver[d].key
    /\ c.what \in {"receive", "update"} => driver[d].state = "created"
    /\ c.what = "prepare" => driver[d].state = "sent"
    /\ c.what = "add" => driver[d].state \in {"sent", "prepared"}

RowSteps == \A k \in Keys : RowOK(k)
DriverSteps == \A d \in Drivers : DriverOK(d) /\ Follows(d)
CmdSteps == \A s \in Slots : CmdOK(s)
Owners == cmd[Orphan].at \in {"none", "sent", "busy"} /\ \A d \in Drivers : Owns(d)

JobFolders == \A j \in DOMAIN jobs : Good(jobs[j].dir)

(* A job that left the worker's history: its key has nothing left to do.   *)
Gone(k) == \E j \in DOMAIN jobs : jobs[j].at = "gone" /\ jobs[j].key = k

AtRest(k) ==
    /\ row[k].state \in {"none", "queued"}
    /\ \A s \in Slots : cmd[s].key # k
    /\ \A d \in Drivers : driver[d].key = k => driver[d].at = "find" /\ driver[d].state = "queued"

GoneSettled == \A k \in Keys : Gone(k) => AtRest(k)

(* Arguments are blanked only when the job was made.                       *)
Redacted ==
    /\ \A k \in Keys : saved[k] = "redacted" => HasJob(k)
    /\ \A d \in Drivers : driver[d].redacted => HasJob(driver[d].key)
    /\ \A s \in Slots : cmd[s].redacted => HasJob(cmd[s].key)

RunInv ==
    /\ TypeOK
    /\ OneFolder /\ Receiving
    /\ KnownPlaces /\ OneDir
    /\ RowSteps /\ DriverSteps /\ CmdSteps /\ Owners
    /\ JobFolders /\ OneJob /\ GoneSettled
    /\ Redacted /\ NeverFromRedacted

----------------------------------------------------------------------------
(* Types                                                                   *)

LEMMA ConstantTypes ==
           /\ MaxFolders \in Nat /\ MaxJobs \in Nat /\ MaxLost \in Nat
           /\ None \notin Keys /\ Orphan \notin Drivers /\ Drivers \subseteq Slots /\ Orphan \in Slots
           /\ Runs \subseteq Keys /\ Reruns \subseteq Keys /\ Runs \cap Reruns = {}
  BY RemoteRunOK DEF RemoteRunOK, None, Keys, Orphan, Slots

LEMMA BlankRecords ==
    NoRow \in Row /\ Free \in DriverState /\ NoCmd \in CommandState /\ NoFolder \in RunFolder
  BY ConstantTypes DEF NoRow, Free, NoCmd, NoFolder, Row, DriverState, CommandState, RunFolder, States, None

LEMMA InitTyped ==
    ASSUME Init PROVE TypeOK
  BY BlankRecords, ConstantTypes DEF Init, TypeOK

(* The jobs keep their order; a new one comes last, and one may change.    *)
LEMMA JobAppended ==
    ASSUME TypeOK, NEW n \in Job, Len(jobs) < MaxJobs, jobs' = Append(jobs, n)
    PROVE  /\ jobs' \in Seq(Job) /\ Len(jobs') = Len(jobs) + 1 /\ Len(jobs') <= MaxJobs
           /\ Len(jobs') \in 0..MaxJobs /\ Len(jobs') \in DOMAIN jobs'
           /\ DOMAIN jobs' = DOMAIN jobs \cup {Len(jobs')}
           /\ jobs'[Len(jobs')] = n /\ \A j \in DOMAIN jobs : jobs'[j] = jobs[j]
  BY ConstantTypes DEF TypeOK

LEMMA JobChanged ==
    ASSUME TypeOK, NEW j \in DOMAIN jobs, NEW at \in {"queued", "ended", "gone"},
           jobs' = [jobs EXCEPT ![j].at = at]
    PROVE  /\ jobs' \in Seq(Job) /\ Len(jobs') = Len(jobs) /\ DOMAIN jobs' = DOMAIN jobs
           /\ jobs'[j] = [jobs[j] EXCEPT !.at = at]
           /\ jobs'[j].at = at /\ jobs'[j].key = jobs[j].key /\ jobs'[j].dir = jobs[j].dir
           /\ jobs'[j].redacted = jobs[j].redacted
           /\ \A i \in DOMAIN jobs \ {j} : jobs'[i] = jobs[i]
<1>1. jobs[j] \in Job
  BY DEF TypeOK
<1>2. [jobs[j] EXCEPT !.at = at] \in Job
  BY <1>1 DEF Job
<1>3. jobs' = [jobs EXCEPT ![j] = [jobs[j] EXCEPT !.at = at]]
  OBVIOUS
<1>4. j \in 1..Len(jobs) /\ jobs \in Seq(Job) /\ DOMAIN jobs = 1..Len(jobs)
  BY DEF TypeOK
<1>5. /\ jobs' \in Seq(Job) /\ Len(jobs') = Len(jobs)
      /\ \A i \in 1..Len(jobs) : jobs'[i] = IF i = j THEN [jobs[j] EXCEPT !.at = at] ELSE jobs[i]
  BY <1>2, <1>3, <1>4, ExceptSeq
<1>6. DOMAIN jobs' = DOMAIN jobs
  BY <1>4, <1>5
<1>. QED
  BY <1>1, <1>4, <1>5, <1>6 DEF Job

(* A driver or a command that is changed in some of its fields.            *)
LEMMA DriverTyped ==
    ASSUME TypeOK, NEW d \in Drivers, NEW r \in DriverState
    PROVE  [driver EXCEPT ![d] = r] \in [Drivers -> DriverState]
  BY DEF TypeOK

LEMMA Steps ==
    ASSUME TypeOK, NEW d \in Drivers,
           NEW at \in {"free", "save", "find", "send", "prepare", "queue", "waits", "redact"}
    PROVE  /\ At(d, at) => driver' \in [Drivers -> DriverState]
           /\ \A state \in States \cup {"none"}, dir \in 0..MaxFolders :
                 Goes(d, at, state, dir) => driver' \in [Drivers -> DriverState]
<1>1. driver[d] \in DriverState /\ driver \in [Drivers -> DriverState]
  BY DEF TypeOK
<1>2. [driver[d] EXCEPT !.at = at] \in DriverState
  BY <1>1 DEF DriverState
<1>3. At(d, at) => driver' = [driver EXCEPT ![d] = [driver[d] EXCEPT !.at = at]]
  BY DEF At
<1>4. ASSUME NEW state \in States \cup {"none"}, NEW dir \in 0..MaxFolders, Goes(d, at, state, dir)
      PROVE  driver' \in [Drivers -> DriverState]
  <2>1. [driver[d] EXCEPT !.at = at, !.state = state, !.dir = dir] \in DriverState
    BY <1>1 DEF DriverState
  <2>2. driver' = [driver EXCEPT ![d] = [driver[d] EXCEPT !.at = at, !.state = state, !.dir = dir]]
    BY <1>1, <1>4 DEF Goes, DriverState
  <2>. QED
    BY <1>1, <2>1, <2>2
<1>. QED
  BY <1>1, <1>2, <1>3, <1>4

LEMMA NewDrivers ==
    ASSUME TypeOK, NEW d \in Drivers, NEW k \in Keys, NEW dir \in 0..MaxFolders
    PROVE  Begins(d, k, dir) => driver' \in [Drivers -> DriverState]
<1>1. [Free EXCEPT !.at = "save", !.key = k, !.state = "created", !.dir = dir] \in DriverState
  BY BlankRecords, ConstantTypes DEF Free, DriverState, States
<1>. QED
  BY <1>1 DEF TypeOK, Begins

LEMMA Ended ==
    ASSUME TypeOK, NEW d \in Drivers, Ends(d)
    PROVE  driver' \in [Drivers -> DriverState] /\ cmd' \in [Slots -> CommandState]
  BY BlankRecords, ConstantTypes DEF TypeOK, Ends

LEMMA Answers ==
    ASSUME TypeOK, NEW s \in Slots
    PROVE  /\ \A at \in {"done", "refused"} : Answer(s, at) => cmd' \in [Slots -> CommandState]
           /\ \A dir \in 0..MaxFolders, id \in 0..MaxJobs :
                 Done(s, dir, id) => cmd' \in [Slots -> CommandState]
<1>1. cmd[s] \in CommandState /\ cmd \in [Slots -> CommandState]
  BY DEF TypeOK
<1>2. ASSUME NEW at \in {"done", "refused"} PROVE [cmd[s] EXCEPT !.at = at] \in CommandState
  BY <1>1 DEF CommandState
<1>3. ASSUME NEW dir \in 0..MaxFolders, NEW id \in 0..MaxJobs
      PROVE  [cmd[s] EXCEPT !.at = "done", !.dir = dir, !.id = id] \in CommandState
  BY <1>1 DEF CommandState
<1>. QED
  BY <1>1, <1>2, <1>3, BlankRecords DEF Answer, Done

LEMMA Rows_ ==
    ASSUME TypeOK, NEW k \in Keys, NEW new \in Row
    PROVE  Update(k, new) => row' \in [Keys -> Row]
  BY DEF TypeOK, Update

LEMMA MinOfOne ==
    ASSUME NEW S \in SUBSET Nat, NEW x \in S, \A y \in S : y = x
    PROVE  Min(S) = x
<1>1. \E y \in S : \A z \in S : y =< z
  OBVIOUS
<1>2. Min(S) \in S
  BY <1>1 DEF Min
<1>. QED
  BY <1>2

LEMMA TheFolder ==
    ASSUME TypeOK, OneFolder, NEW k \in Runs, Received(k) # {}
    PROVE  Min(Received(k)) \in Received(k)
<1>. PICK f \in Received(k) : TRUE
  OBVIOUS
<1>1. Received(k) \in SUBSET Nat /\ \A g \in Received(k) : g = f
  BY ConstantTypes DEF Received, OneFolder, Folders
<1>. QED
  BY <1>1, MinOfOne

LEMMA TheJob ==
    ASSUME TypeOK, OneJob, NEW k \in Keys, JobsOf(k) # {}
    PROVE  Min(JobsOf(k)) \in JobsOf(k)
<1>. PICK j \in JobsOf(k) : TRUE
  OBVIOUS
<1>1. JobsOf(k) \in SUBSET Nat /\ \A i \in JobsOf(k) : i = j
  BY ConstantTypes DEF JobsOf, Rows, OneJob, TypeOK
<1>. QED
  BY <1>1, MinOfOne

LEMMA Fields ==
    ASSUME TypeOK
    PROVE  /\ \A j \in DOMAIN jobs : /\ jobs[j] \in Job /\ jobs[j].key \in Keys \cup {None} /\ jobs[j].dir \in Folders
                                     /\ jobs[j].dir # 0 /\ jobs[j].dir \in 0..MaxFolders
           /\ \A k \in Keys : row[k] \in Row /\ row[k].dir \in 0..MaxFolders /\ row[k].state \in States \cup {"none"}
           /\ \A d \in Drivers : /\ driver[d] \in DriverState /\ driver[d].key \in Keys \cup {None}
                                 /\ driver[d].dir \in 0..MaxFolders /\ driver[d].state \in States \cup {"none"}
           /\ \A s \in Slots : cmd[s] \in CommandState /\ cmd[s].key \in Keys \cup {None} /\ cmd[s].dir \in 0..MaxFolders
           /\ \A f \in Folders : folder[f] \in RunFolder
<1>1. \A j \in DOMAIN jobs : jobs[j] \in Job
  BY DEF TypeOK
<1>2. \A j \in DOMAIN jobs : /\ jobs[j].key \in Keys \cup {None} /\ jobs[j].dir \in Folders
                             /\ jobs[j].dir # 0 /\ jobs[j].dir \in 0..MaxFolders
  BY <1>1, ConstantTypes DEF Job, Folders
<1>3. \A k \in Keys : row[k] \in Row /\ row[k].dir \in 0..MaxFolders /\ row[k].state \in States \cup {"none"}
  BY DEF TypeOK, Row
<1>4. \A d \in Drivers : /\ driver[d] \in DriverState /\ driver[d].key \in Keys \cup {None}
                         /\ driver[d].dir \in 0..MaxFolders /\ driver[d].state \in States \cup {"none"}
  BY DEF TypeOK, DriverState
<1>5. \A s \in Slots : cmd[s] \in CommandState /\ cmd[s].key \in Keys \cup {None} /\ cmd[s].dir \in 0..MaxFolders
  BY DEF TypeOK, CommandState
<1>6. \A f \in Folders : folder[f] \in RunFolder
  BY DEF TypeOK
<1>. QED
  BY <1>1, <1>2, <1>3, <1>4, <1>5, <1>6

----------------------------------------------------------------------------
(* What a step leaves alone                                                *)

(* Folders that are ready stay so, and jobs keep their keys and folders.    *)
Grows ==
    /\ \A f : Good(f) => Good(f)'
    /\ \A k, f : Place(k, f) => Place(k, f)'
    /\ \A j \in DOMAIN jobs : j \in DOMAIN jobs' /\ jobs'[j].key = jobs[j].key /\ jobs'[j].dir = jobs[j].dir

OnlyRow(k) == \A i \in Keys \ {k} : row'[i] = row[i]
OnlyDriver(d) == \A e \in Drivers \ {d} : driver'[e] = driver[e]
OnlyCmd(s) == \A t \in Slots \ {s} : cmd'[t] = cmd[t]

LEMMA JobsStay ==
    ASSUME Grows, NEW k, HasJob(k) PROVE HasJob(k)'
  BY DEF Grows, HasJob

LEMMA RowsKept ==
    ASSUME RowSteps, Grows, NEW k \in Keys, OnlyRow(k), RowOK(k)' PROVE RowSteps'
  BY DEF RowSteps, Grows, OnlyRow, RowOK

LEMMA RowsSame ==
    ASSUME RowSteps, Grows, UNCHANGED row PROVE RowSteps'
  BY DEF RowSteps, Grows, RowOK

(* The row of a key may only get its folder, or go.                        *)
LEMMA DriversKept ==
    ASSUME TypeOK, DriverSteps, Grows, NEW d \in Drivers, NEW k \in Keys, OnlyDriver(d), OnlyRow(k),
           row'[k].state = "none" \/ row'[k].dir # 0 \/ (row[k].state # "none" /\ row[k].dir = 0)
             \/ (\A e \in Drivers : driver[e].key # k),
           DriverOK(d)', Follows(d)'
    PROVE  DriverSteps'
<1>1. ASSUME NEW e \in Drivers \ {d} PROVE DriverOK(e)'
  <2>1. DriverOK(e) /\ driver'[e] = driver[e]
    BY DEF DriverSteps, OnlyDriver
  <2>. QED
    BY <2>1, JobsStay DEF DriverOK, Grows
<1>2. ASSUME NEW e \in Drivers \ {d} PROVE Follows(e)'
  <2>1. DriverOK(e) /\ Follows(e) /\ driver'[e] = driver[e] /\ driver[e].key \in Keys \cup {None}
    BY Fields DEF DriverSteps, OnlyDriver
  <2>. QED
    BY <2>1 DEF Follows, OnlyRow, DriverOK
<1>. QED
  BY <1>1, <1>2 DEF DriverSteps

LEMMA DriversSame ==
    ASSUME TypeOK, DriverSteps, Grows, UNCHANGED <<driver, row>> PROVE DriverSteps'
<1>1. ASSUME NEW e \in Drivers PROVE DriverOK(e)'
  BY JobsStay DEF DriverSteps, DriverOK, Grows
<1>2. ASSUME NEW e \in Drivers PROVE Follows(e)'
  BY DEF DriverSteps, Follows
<1>. QED
  BY <1>1, <1>2 DEF DriverSteps

LEMMA CmdsKept ==
    ASSUME CmdSteps, Grows, NEW s \in Slots, OnlyCmd(s), CmdOK(s)' PROVE CmdSteps'
  BY DEF CmdSteps, Grows, OnlyCmd, CmdOK, CmdKnows

LEMMA CmdsSame ==
    ASSUME CmdSteps, Grows, UNCHANGED cmd PROVE CmdSteps'
  BY DEF CmdSteps, Grows, CmdOK, CmdKnows

LEMMA OwnersKept ==
    ASSUME Owners, NEW d \in Drivers, OnlyDriver(d), OnlyCmd(d), Owns(d)' PROVE Owners'
  BY ConstantTypes DEF Owners, OnlyDriver, OnlyCmd, Owns

(* Nobody has learned of a folder.                                         *)
LessKnown == \A k \in Keys : \A f : Known(k, f)' => Known(k, f)

LEMMA PlacesKept ==
    ASSUME RunInv, LessKnown, Grows PROVE KnownPlaces' /\ OneDir'
  BY DEF RunInv, LessKnown, Grows, KnownPlaces, OneDir

(* A step of the host.                                                     *)
HostOnly ==
    /\ UNCHANGED <<folder, jobs>>
    /\ \A f \in Folders : Ready(f) => Ready(f)'

LEMMA SameAsks ==
    ASSUME UNCHANGED <<folder, jobs, asks>> PROVE HostOnly
  BY DEF HostOnly, Ready

LEMMA HostFrame ==
    ASSUME RunInv, HostOnly
    PROVE  Grows /\ OneFolder' /\ JobFolders' /\ OneJob' /\ NeverFromRedacted'
<1>1. \A f : Good(f) => Good(f)'
  BY DEF HostOnly, Good
<1>2. \A k, f : Place(k, f) => Place(k, f)'
  BY DEF HostOnly, Place
<1>. QED
  BY <1>1, <1>2 DEF HostOnly, RunInv, Grows, OneFolder, JobFolders, OneJob, NeverFromRedacted

----------------------------------------------------------------------------
(* The host                                                                *)

(* A driver d of key k, its row and its command.                           *)
LEMMA HostStep ==
    ASSUME RunInv, TypeOK', HostOnly,
           NEW d \in Drivers, NEW k \in Keys, OnlyRow(k), OnlyDriver(d), OnlyCmd(d), Gone(k) => AtRest(k)',
           driver'[d].key \in {k, None}, cmd'[d].key \in {k, None},
           KnownPlaces', OneDir', ~Busy(d, "receive")',
           RowOK(k)', DriverOK(d)', Follows(d)', CmdOK(d)', Owns(d)',
           row'[k].state = "none" \/ row'[k].dir # 0 \/ (row[k].state # "none" /\ row[k].dir = 0)
             \/ (\A e \in Drivers : driver[e].key # k),
           \A i \in Keys : saved'[i] = "redacted" => saved[i] = "redacted" \/ HasJob(i),
           driver'[d].redacted => HasJob(driver'[d].key), cmd'[d].redacted => HasJob(cmd'[d].key)
    PROVE  RunInv'
<1>1. Grows /\ OneFolder' /\ JobFolders' /\ OneJob' /\ NeverFromRedacted'
  BY HostFrame
<1>2. Receiving'
  BY DEF RunInv, Receiving, OnlyCmd, Busy, HostOnly
<1>3. RowSteps' /\ DriverSteps' /\ CmdSteps' /\ Owners'
  BY <1>1, RowsKept, DriversKept, CmdsKept, OwnersKept, ConstantTypes DEF RunInv
<1>4. GoneSettled'
  <2>. SUFFICES ASSUME NEW i \in Keys, Gone(i)' PROVE AtRest(i)'
    BY DEF GoneSettled
  <2>1. Gone(i) /\ i # None
    BY ConstantTypes DEF Gone, HostOnly
  <2>2. AtRest(i)
    BY <2>1 DEF RunInv, GoneSettled
  <2>3. CASE i = k
    BY <2>1, <2>3
  <2>4. CASE i # k
    BY <2>1, <2>2, <2>4 DEF AtRest, OnlyRow, OnlyDriver, OnlyCmd
  <2>. QED
    BY <2>3, <2>4
<1>5. Redacted'
  <2>. \A i : HasJob(i) => HasJob(i)'
    BY <1>1, JobsStay
  <2>1. \A i \in Keys : saved'[i] = "redacted" => HasJob(i)'
    BY DEF RunInv, Redacted
  <2>2. ASSUME NEW e \in Drivers PROVE (driver[e].redacted => HasJob(driver[e].key))'
    <3>1. driver'[e].redacted => HasJob(driver'[e].key)
      BY DEF RunInv, Redacted, OnlyDriver
    <3>. QED
      BY <3>1 DEF HasJob
  <2>3. ASSUME NEW s \in Slots PROVE (cmd[s].redacted => HasJob(cmd[s].key))'
    <3>1. cmd'[s].redacted => HasJob(cmd'[s].key)
      BY DEF RunInv, Redacted, OnlyCmd
    <3>. QED
      BY <3>1 DEF HasJob
  <2>. QED
    BY <2>1, <2>2, <2>3 DEF Redacted
<1>. QED
  BY <1>1, <1>2, <1>3, <1>4, <1>5 DEF RunInv

(* It tells nobody of a folder who did not know it.                        *)
LEMMA NothingLearned ==
    ASSUME RunInv, HostOnly, NEW d \in Drivers, NEW k \in Keys, OnlyRow(k), OnlyDriver(d), OnlyCmd(d),
           row'[k].dir # 0 => Known(k, row'[k].dir),
           driver'[d].key \in {k, None}, driver'[d].key = k /\ driver'[d].dir # 0 => Known(k, driver'[d].dir),
           cmd'[d].key \in {k, None},
           cmd'[d].key = k /\ CmdKnows(d)' /\ cmd'[d].dir # 0 => Known(k, cmd'[d].dir)
    PROVE  KnownPlaces' /\ OneDir'
<1>1. LessKnown
  BY ConstantTypes DEF LessKnown, Known, HostOnly, OnlyRow, OnlyDriver, OnlyCmd, CmdKnows
<1>. QED
  BY <1>1, HostFrame, PlacesKept

(* A driver that is at work.                                               *)
LEMMA Working ==
    ASSUME RunInv, NEW d \in Drivers, driver[d].at # "free"
    PROVE  /\ TypeOK /\ driver[d] \in DriverState /\ driver[d].key \in Keys /\ DriverOK(d) /\ Follows(d)
           /\ driver[d].at # "find" => ~Gone(driver[d].key)
           /\ driver[d].dir # 0 => Known(driver[d].key, driver[d].dir)
           /\ row[driver[d].key].dir # 0 => Known(driver[d].key, row[driver[d].key].dir)
           /\ RowOK(driver[d].key) /\ CmdOK(d) /\ Owns(d)
<1>1. TypeOK /\ driver[d] \in DriverState /\ driver[d].key \in Keys /\ DriverOK(d) /\ Follows(d)
  BY Fields DEF RunInv, DriverSteps, DriverOK
<1>2. driver[d].at # "find" => ~Gone(driver[d].key)
  BY <1>1 DEF RunInv, GoneSettled, AtRest
<1>3. /\ driver[d].dir # 0 => Known(driver[d].key, driver[d].dir)
      /\ row[driver[d].key].dir # 0 => Known(driver[d].key, row[driver[d].key].dir)
  BY <1>1 DEF Known
<1>. QED
  BY <1>1, <1>2, <1>3, ConstantTypes DEF RunInv, RowSteps, CmdSteps, Owners

(* A driver that ends takes what it knew with it.                          *)
LEMMA DriverEnds ==
    ASSUME RunInv, HostOnly, NEW d \in Drivers, driver[d].at # "free", driver' = [driver EXCEPT ![d] = Free],
           cmd'[d] = NoCmd, OnlyCmd(d), cmd' \in [Slots -> CommandState], UNCHANGED row,
           saved' \in [Keys -> {"none", "saved", "redacted"}], asks' \subseteq Runs, payload' \subseteq Reruns,
           gc' \subseteq Folders, lost' \in 0..MaxLost,
           \A i \in Keys : saved'[i] = "redacted" => saved[i] = "redacted" \/ HasJob(i)
    PROVE  RunInv'
<1>. USE BlankRecords, ConstantTypes
<1>1. TypeOK /\ Grows
  BY HostFrame DEF RunInv
<1>2. TypeOK'
  BY <1>1 DEF TypeOK, HostOnly
<1>3. driver'[d] = Free /\ OnlyDriver(d) /\ Free.key = None /\ NoCmd.key = None
  BY <1>1 DEF TypeOK, OnlyDriver, Free, NoCmd
<1>4. PICK k \in Keys : k = driver[d].key
  BY Working
<1>5. OnlyRow(k) /\ RowOK(k) /\ DriverOK(d)' /\ Follows(d)' /\ CmdOK(d)' /\ Owns(d)'
  BY <1>3 DEF RunInv, RowSteps, OnlyRow, DriverOK, Follows, CmdOK, CmdKnows, Owns, Free, NoCmd, Beyond
<1>6. RowOK(k)'
  BY <1>1, <1>5 DEF RowOK, Grows
<1>7. Gone(k) => AtRest(k)'
  BY <1>3 DEF RunInv, GoneSettled, AtRest, OnlyDriver, OnlyCmd
<1>8. row[k].dir # 0 => Known(k, row[k].dir)
  BY DEF Known
<1>9. KnownPlaces' /\ OneDir'
  BY <1>3, <1>5, <1>8, NothingLearned
<1>. QED
  BY <1>2, <1>3, <1>5, <1>6, <1>7, <1>9, HostStep DEF Free, NoCmd, Busy, RowOK

LEMMA SaveSpecKeeps ==
    ASSUME RunInv, NEW d \in Drivers, SaveSpec(d) PROVE RunInv'
<1>. DEFINE k == driver[d].key
<1>1. HostOnly /\ Grows
  BY SameAsks, HostFrame DEF SaveSpec, worker
<1>2. /\ TypeOK /\ driver[d].at = "save" /\ driver[d] \in DriverState /\ k \in Keys /\ DriverOK(d) /\ Follows(d)
      /\ ~Gone(k) /\ (driver[d].dir # 0 => Known(k, driver[d].dir)) /\ (row[k].dir # 0 => Known(k, row[k].dir))
      /\ RowOK(k) /\ CmdOK(d) /\ Owns(d)
  BY Working DEF SaveSpec
<1>3. TypeOK'
  BY <1>2, Steps DEF SaveSpec, TypeOK, worker
<1>4. /\ driver'[d].at = "find" /\ driver'[d].key = k /\ driver'[d].state = driver[d].state
      /\ driver'[d].dir = driver[d].dir /\ driver'[d].redacted = driver[d].redacted
      /\ OnlyDriver(d) /\ OnlyRow(k) /\ OnlyCmd(d) /\ UNCHANGED <<row, cmd>>
      /\ \A i \in Keys : saved'[i] = "redacted" => saved[i] = "redacted"
  BY <1>2 DEF SaveSpec, At, OnlyDriver, OnlyRow, OnlyCmd, TypeOK, DriverState
<1>5. cmd[d] = NoCmd
  BY <1>2 DEF CmdOK, Owns
<1>6. KnownPlaces' /\ OneDir'
  BY <1>1, <1>2, <1>4, <1>5, NothingLearned DEF NoCmd
<1>7. RowOK(k)' /\ DriverOK(d)' /\ Follows(d)' /\ CmdOK(d)' /\ Owns(d)'
  BY <1>1, <1>2, <1>4, <1>5 DEF RowOK, DriverOK, Follows, CmdOK, CmdKnows, Owns, Grows, NoCmd
<1>. QED
  BY <1>1, <1>2, <1>3, <1>4, <1>5, <1>6, <1>7, HostStep DEF RunInv, Redacted, NoCmd, Busy, RowOK

LEMMA NewRunKeeps ==
    ASSUME RunInv, NEW d \in Drivers, NEW k \in Runs, NEW files \in BOOLEAN, NewRun(d, k, files) PROVE RunInv'
<1>1. /\ k \in Keys /\ Unused(k) /\ TypeOK /\ driver[d].at = "free" /\ DriverOK(d) /\ Owns(d) /\ CmdOK(d)
      /\ driver[d] = Free /\ cmd[d] = NoCmd /\ asks' \subseteq asks \cup {k} /\ asks' \subseteq Runs
      /\ UNCHANGED <<saved, payload, cmd, folder, jobs, gc, lost>>
  BY ConstantTypes DEF NewRun, RunInv, DriverSteps, DriverOK, CmdSteps, CmdOK, Owners, Owns, TypeOK, worker
<1>2. HostOnly
  BY <1>1 DEF HostOnly, Unused, Ready
<1>3. [NoRow EXCEPT !.state = "created"] \in Row /\ [NoRow EXCEPT !.state = "created"].dir = 0
  BY BlankRecords, ConstantTypes DEF Row, NoRow, States
<1>4. row' \in [Keys -> Row] /\ row'[k].dir = 0 /\ row'[k].state = "created" /\ OnlyRow(k)
  BY <1>1, <1>3 DEF NewRun, TypeOK, NoRow, OnlyRow
<1>5. driver' \in [Drivers -> DriverState]
  BY <1>1, ConstantTypes, NewDrivers DEF NewRun
<1>6. TypeOK'
  BY <1>1, <1>4, <1>5 DEF TypeOK
<1>7. /\ driver'[d] = [at |-> "save", key |-> k, state |-> "created", dir |-> 0, redacted |-> FALSE]
      /\ OnlyDriver(d) /\ OnlyCmd(d)
  BY <1>1 DEF NewRun, Begins, Free, TypeOK, OnlyDriver, OnlyCmd
<1>8. KnownPlaces' /\ OneDir'
  BY <1>1, <1>2, <1>4, <1>7, NothingLearned DEF NoCmd
<1>9. RowOK(k)' /\ DriverOK(d)' /\ Follows(d)' /\ CmdOK(d)' /\ Owns(d)'
  BY <1>1, <1>4, <1>7, ConstantTypes DEF RowOK, DriverOK, Follows, CmdOK, CmdKnows, Owns, NoCmd, Beyond, States, Unused
<1>. QED
  BY <1>1, <1>2, <1>4, <1>6, <1>7, <1>8, <1>9, HostStep DEF Unused, Gone, NoCmd, Busy

LEMMA NewRerunKeeps ==
    ASSUME RunInv, NEW d \in Drivers, NEW k \in Reruns, NEW j \in DOMAIN jobs, NEW files \in BOOLEAN,
           NewRerun(d, k, j, files)
    PROVE  RunInv'
<1>1. /\ k \in Keys /\ k \notin Runs /\ Unused(k) /\ TypeOK /\ driver[d].at = "free" /\ DriverOK(d) /\ Owns(d)
      /\ CmdOK(d) /\ driver[d] = Free /\ cmd[d] = NoCmd /\ payload' \subseteq Reruns
      /\ UNCHANGED <<saved, asks, cmd, folder, jobs, gc, lost>>
  BY ConstantTypes DEF NewRerun, RunInv, DriverSteps, DriverOK, CmdSteps, CmdOK, Owners, Owns, TypeOK, worker
<1>2. HostOnly /\ Grows
  BY <1>1, SameAsks, HostFrame
<1>3. jobs[j].dir \in Folders /\ jobs[j].dir \in 0..MaxFolders /\ jobs[j].dir # 0 /\ Place(k, jobs[j].dir)
  BY <1>1, Fields DEF RunInv, JobFolders, Good, Place
<1>4. /\ [NoRow EXCEPT !.state = "created", !.dir = jobs[j].dir] \in Row
      /\ [NoRow EXCEPT !.state = "created", !.dir = jobs[j].dir].dir = jobs[j].dir
  BY <1>3, BlankRecords, ConstantTypes DEF Row, NoRow, States
<1>5. row' \in [Keys -> Row] /\ row'[k].dir = jobs[j].dir /\ row'[k].state = "created" /\ OnlyRow(k)
  BY <1>1, <1>4 DEF NewRerun, TypeOK, NoRow, OnlyRow
<1>6. driver' \in [Drivers -> DriverState]
  BY <1>1, <1>3, NewDrivers DEF NewRerun
<1>7. TypeOK'
  BY <1>1, <1>5, <1>6 DEF TypeOK
<1>8. /\ driver'[d] = [at |-> "save", key |-> k, state |-> "created", dir |-> jobs[j].dir, redacted |-> FALSE]
      /\ OnlyDriver(d) /\ OnlyCmd(d)
  BY <1>1 DEF NewRerun, Begins, Free, TypeOK, OnlyDriver, OnlyCmd
<1>9. KnownPlaces' /\ OneDir'
  <2>1. \A i \in Keys \ {k} : \A f : Known(i, f)' => Known(i, f)
    BY <1>1, <1>5, <1>8 DEF Known, CmdKnows, OnlyRow, OnlyDriver
  <2>2. \A f : Known(k, f)' => f = jobs[j].dir
    BY <1>1, <1>5, <1>8 DEF Known, CmdKnows, Unused, OnlyDriver
  <2>. QED
    BY <1>2, <1>3, <2>1, <2>2 DEF RunInv, KnownPlaces, OneDir, Grows
<1>10. RowOK(k)' /\ DriverOK(d)' /\ Follows(d)' /\ CmdOK(d)' /\ Owns(d)'
  BY <1>1, <1>3, <1>5, <1>8, ConstantTypes DEF RowOK, DriverOK, Follows, CmdOK, CmdKnows, Owns, NoCmd, Beyond, States, Unused
<1>. QED
  BY <1>1, <1>2, <1>5, <1>7, <1>8, <1>9, <1>10, HostStep DEF Unused, Gone, NoCmd, Busy

LEMMA FindAnswersKeeps ==
    ASSUME RunInv, NEW d \in Drivers, FindAnswers(d) PROVE RunInv'
<1>. DEFINE k == driver[d].key
<1>1. HostOnly /\ Grows
  BY SameAsks, HostFrame DEF FindAnswers, worker
<1>2. /\ TypeOK /\ driver[d].at = "find" /\ driver[d] \in DriverState /\ k \in Keys /\ DriverOK(d) /\ Follows(d)
      /\ (driver[d].dir # 0 => Known(k, driver[d].dir)) /\ (row[k].dir # 0 => Known(k, row[k].dir))
      /\ RowOK(k) /\ CmdOK(d) /\ Owns(d) /\ cmd[d] = NoCmd
      /\ UNCHANGED <<saved, asks, payload, cmd, folder, jobs, gc, lost>>
  BY Working DEF FindAnswers, CmdOK, Owns, worker
<1>3. CASE JobsOf(k) # {}
  <2>. DEFINE j == Min(JobsOf(k))
  <2>1. j \in DOMAIN jobs /\ jobs[j].key = k /\ jobs[j].at # "gone" /\ j \in 0..MaxJobs
    <3>1. j \in JobsOf(k)
      BY <1>2, <1>3, TheJob DEF RunInv
    <3>2. JobsOf(k) \subseteq {i \in DOMAIN jobs : jobs[i].key = k /\ jobs[i].at # "gone"}
      BY DEF JobsOf, Rows
    <3>3. DOMAIN jobs \subseteq 0..MaxJobs
      BY <1>2, ConstantTypes DEF RunInv, TypeOK
    <3>. QED
      BY <3>1, <3>2, <3>3
  <2>2. ~Gone(k) /\ HasJob(k) /\ Known(k, jobs[j].dir) /\ jobs[j].dir # 0 /\ jobs[j].dir \in 0..MaxFolders /\ Good(jobs[j].dir)
    BY <1>2, <2>1, Fields, ConstantTypes DEF RunInv, OneJob, Gone, HasJob, Known, JobFolders
  <2>3. FoundRow(k, j) \in Row
    BY <2>1, <2>2, ConstantTypes DEF FoundRow, Row, States
  <2>4. Update(k, FoundRow(k, j)) /\ At(d, "redact")
    BY <1>3 DEF FindAnswers
  <2>5. TypeOK'
    BY <1>2, <2>3, <2>4, Steps, Rows_ DEF TypeOK
  <2>6. /\ driver'[d].at = "redact" /\ driver'[d].key = k /\ driver'[d].state = driver[d].state
        /\ driver'[d].dir = driver[d].dir /\ driver'[d].redacted = driver[d].redacted
        /\ OnlyDriver(d) /\ OnlyRow(k) /\ OnlyCmd(d)
        /\ (row'[k] = row[k] /\ row[k].state = "none") \/ row'[k] = [state |-> "queued", dir |-> jobs[j].dir, id |-> j]
    BY <1>2, <2>4 DEF At, Update, FoundRow, OnlyDriver, OnlyRow, OnlyCmd, TypeOK, DriverState
  <2>7. KnownPlaces' /\ OneDir'
    BY <1>1, <1>2, <2>2, <2>6, NothingLearned DEF NoCmd
  <2>8. RowOK(k)' /\ DriverOK(d)' /\ Follows(d)' /\ CmdOK(d)' /\ Owns(d)'
    BY <1>1, <1>2, <2>1, <2>2, <2>6, JobsStay, SMTT(30) DEF RowOK, DriverOK, Follows, CmdOK, CmdKnows, Owns, Grows, NoCmd, Beyond
  <2>. QED
    <3>1. /\ driver'[d].key \in {k, None} /\ cmd'[d].key \in {k, None} /\ ~Busy(d, "receive")'
      BY <1>2, <2>6 DEF NoCmd, Busy
    <3>2. row'[k].state = "none" \/ row'[k].dir # 0
      BY <2>2, <2>6
    <3>3. \A i \in Keys : saved'[i] = "redacted" => saved[i] = "redacted" \/ HasJob(i)
      BY <1>2
    <3>4. /\ driver'[d].redacted => HasJob(driver'[d].key)
          /\ cmd'[d].redacted => HasJob(cmd'[d].key)
      BY <1>2, <2>6 DEF RunInv, Redacted, NoCmd
    <3>. QED
      BY <1>1, <1>2, <2>2, <2>5, <2>6, <2>7, <2>8, <3>1, <3>2, <3>3, <3>4, HostStep
<1>4. CASE JobsOf(k) = {} /\ driver[d].state # "queued"
  <2>1. ~Gone(k)
    BY <1>2, <1>4 DEF RunInv, GoneSettled, AtRest
  <2>2. PICK next \in {"send", "prepare", "queue"} :
           /\ driver' = [driver EXCEPT ![d] = [driver[d] EXCEPT !.at = next]]
           /\ next = "send" => driver[d].state = "created"
           /\ next = "prepare" => driver[d].state = "sent" /\ k \in Runs
           /\ next = "queue" => driver[d].state \in {"sent", "prepared"} /\ (k \in Runs => driver[d].state = "prepared")
    BY <1>2, <1>4 DEF FindAnswers, DriverOK, States
  <2>3. TypeOK' /\ UNCHANGED row
    BY <1>2, <1>4, <2>2, Steps DEF TypeOK, At, FindAnswers
  <2>4. /\ driver'[d].at = next /\ driver'[d].key = k /\ driver'[d].state = driver[d].state
        /\ driver'[d].dir = driver[d].dir /\ driver'[d].redacted = driver[d].redacted
        /\ OnlyDriver(d) /\ OnlyRow(k) /\ OnlyCmd(d)
    BY <1>2, <2>2, <2>3 DEF OnlyDriver, OnlyRow, OnlyCmd, TypeOK, DriverState
  <2>5. KnownPlaces' /\ OneDir'
    BY <1>1, <1>2, <2>3, <2>4, NothingLearned DEF NoCmd
  <2>6. RowOK(k)' /\ DriverOK(d)' /\ Follows(d)' /\ CmdOK(d)' /\ Owns(d)'
    BY <1>1, <1>2, <2>2, <2>3, <2>4 DEF RowOK, DriverOK, Follows, CmdOK, CmdKnows, Owns, Grows, NoCmd
  <2>. QED
    BY <1>1, <1>2, <2>1, <2>3, <2>4, <2>5, <2>6, HostStep DEF RunInv, Redacted, NoCmd, Busy, RowOK
<1>5. CASE JobsOf(k) = {} /\ driver[d].state = "queued"
  BY <1>1, <1>2, <1>5, DriverEnds, BlankRecords DEF FindAnswers, TypeOK, OnlyDriver, OnlyCmd
<1>. QED
  BY <1>2, <1>3, <1>4, <1>5

LEMMA ResumeKeeps ==
    ASSUME RunInv, NEW d \in Drivers, NEW k \in Keys, Resume(d, k) PROVE RunInv'
<1>1. HostOnly /\ Grows
  BY SameAsks, HostFrame DEF Resume, host, worker
<1>2. /\ TypeOK /\ driver[d].at = "free" /\ DriverOK(d) /\ Owns(d) /\ CmdOK(d) /\ RowOK(k)
      /\ driver[d] = Free /\ cmd[d] = NoCmd /\ row[k].state \in States /\ row[k].dir \in 0..MaxFolders
      /\ UNCHANGED <<row, saved, asks, payload, cmd, folder, jobs, gc, lost>>
  BY ConstantTypes, Fields
     DEF Resume, host, worker, RunInv, DriverSteps, DriverOK, RowSteps, CmdSteps, CmdOK, Owners, Owns
<1>3. PICK b \in BOOLEAN : /\ b <=> saved[k] = "redacted"
                           /\ driver' = [driver EXCEPT ![d] = [at |-> "find", key |-> k, state |-> row[k].state,
                                                               dir |-> row[k].dir, redacted |-> b]]
  BY DEF Resume
<1>4. TypeOK'
  <2>1. [at |-> "find", key |-> k, state |-> row[k].state, dir |-> row[k].dir, redacted |-> b] \in DriverState
    BY <1>2 DEF DriverState
  <2>. QED
    BY <1>2, <1>3, <2>1 DEF TypeOK
<1>5. /\ driver'[d].at = "find" /\ driver'[d].key = k /\ driver'[d].state = row[k].state
      /\ driver'[d].dir = row[k].dir /\ driver'[d].redacted = b
      /\ OnlyDriver(d) /\ OnlyRow(k) /\ OnlyCmd(d)
  BY <1>2, <1>3 DEF OnlyDriver, OnlyRow, OnlyCmd, TypeOK
<1>6. KnownPlaces' /\ OneDir'
  BY <1>1, <1>2, <1>5, NothingLearned DEF NoCmd, Known
<1>7. RowOK(k)' /\ DriverOK(d)' /\ Follows(d)' /\ CmdOK(d)' /\ Owns(d)'
  <2>1. RowOK(k)'
    BY <1>1, <1>2 DEF RowOK, Grows
  <2>2. /\ row[k].state \in Beyond => row[k].dir # 0
        /\ k \in Reruns => row[k].dir # 0
        /\ row[k].state \in {"prepared", "queued"} => Good(row[k].dir)'
        /\ k # None
    BY <1>1, <1>2, ConstantTypes DEF RowOK, Grows, States
  <2>3. DriverOK(d)'
    BY <1>2, <1>5, <2>2 DEF DriverOK
  <2>4. Follows(d)'
    BY <1>2, <1>5, <2>2 DEF Follows
  <2>. QED
    BY <1>2, <1>5, <2>1, <2>3, <2>4 DEF CmdOK, CmdKnows, Owns, NoCmd
<1>8. Gone(k) => AtRest(k)'
  BY <1>2, <1>5 DEF RunInv, GoneSettled, AtRest, OnlyDriver, States
<1>. QED
  BY <1>1, <1>2, <1>3, <1>4, <1>5, <1>6, <1>7, <1>8, HostStep DEF RunInv, Redacted, NoCmd, Busy, RowOK, States

LEMMA CallsKeeps ==
    ASSUME RunInv, NEW d \in Drivers, driver[d].at \in {"send", "prepare", "queue"},
           NEW what \in {"receive", "update", "prepare", "add"}, Calls(d, what), UNCHANGED asks,
           what \in {"receive", "update"} => driver[d].at = "send",
           what = "receive" => driver[d].key \in Runs, what = "update" => driver[d].key \in Reruns,
           what = "prepare" => driver[d].at = "prepare", what = "add" => driver[d].at = "queue"
    PROVE  RunInv'
<1>. DEFINE k == driver[d].key
<1>1. HostOnly /\ Grows
  BY SameAsks, HostFrame DEF Calls, worker
<1>2. /\ TypeOK /\ driver[d] \in DriverState /\ k \in Keys /\ DriverOK(d) /\ Follows(d)
      /\ ~Gone(k) /\ (driver[d].dir # 0 => Known(k, driver[d].dir)) /\ (row[k].dir # 0 => Known(k, row[k].dir))
      /\ RowOK(k) /\ CmdOK(d) /\ Owns(d) /\ UNCHANGED <<row, saved, asks, payload, folder, jobs, gc, lost>>
  BY Working DEF Calls, host, worker
<1>3. /\ driver'[d].at = "waits" /\ driver'[d].key = k /\ driver'[d].state = driver[d].state
      /\ driver'[d].dir = driver[d].dir /\ driver'[d].redacted = driver[d].redacted
      /\ OnlyDriver(d) /\ OnlyRow(k)
  BY <1>2 DEF Calls, At, OnlyDriver, OnlyRow, TypeOK, DriverState
<1>. DEFINE c == [what |-> what, at |-> "sent", key |-> k, dir |-> driver[d].dir, id |-> 0,
                  redacted |-> driver[d].redacted]
<1>4. cmd' = [cmd EXCEPT ![d] = c]
  <2>1. [NoCmd EXCEPT !.what = what, !.at = "sent", !.key = driver[d].key,
                      !.dir = driver[d].dir, !.redacted = driver[d].redacted] = c
    <3>. PICK n \in CommandState : n = NoCmd /\ n.id = 0
      BY BlankRecords DEF NoCmd
    <3>. PICK x : x = [n EXCEPT !.what = what, !.at = "sent", !.key = driver[d].key,
                               !.dir = driver[d].dir, !.redacted = driver[d].redacted]
      OBVIOUS
    <3>1. x = [what |-> what, at |-> "sent", key |-> k, dir |-> driver[d].dir, id |-> n.id,
               redacted |-> driver[d].redacted]
      BY DEF CommandState
    <3>. QED
      BY <3>1
  <2>. QED
    BY <2>1 DEF Calls
<1>5. c \in CommandState
  BY <1>2, <1>4, ConstantTypes DEF CommandState, DriverState
<1>6. TypeOK'
  BY <1>2, <1>4, <1>5, Steps DEF TypeOK, Calls
<1>7. cmd'[d] = c /\ OnlyCmd(d)
  BY <1>2, <1>4, ConstantTypes DEF TypeOK, OnlyCmd
<1>8. KnownPlaces' /\ OneDir'
  BY <1>1, <1>2, <1>3, <1>4, <1>7, NothingLearned
<1>9. what # "receive" => driver[d].dir # 0
  BY <1>2 DEF DriverOK, Beyond
<1>10. what = "add" => Good(driver[d].dir)
  <2>1. CASE k \in Runs
    BY <1>2, <2>1 DEF DriverOK
  <2>2. CASE k \in Reruns
    BY <1>2, <1>9, <2>2 DEF RunInv, KnownPlaces, Place, Good
  <2>. QED
    BY <1>2, <2>1, <2>2 DEF Keys
<1>11. RowOK(k)' /\ DriverOK(d)' /\ Follows(d)'
  BY <1>1, <1>2, <1>3 DEF RowOK, DriverOK, Follows, Grows
<1>12. CmdOK(d)' /\ Owns(d)'
  BY <1>1, <1>2, <1>3, <1>4, <1>7, <1>9, <1>10, ConstantTypes DEF DriverOK, CmdOK, CmdKnows, Owns, Grows
<1>. QED
  BY <1>1, <1>2, <1>3, <1>4, <1>6, <1>7, <1>8, <1>11, <1>12, HostStep DEF RunInv, Redacted, Busy, RowOK

(* A step that has nothing to do on the worker: the row and the driver go  *)
(* on together.                                                            *)
LEMMA GoesOnKeeps ==
    ASSUME RunInv, NEW d \in Drivers, driver[d].at \in {"send", "prepare"}, NEW state \in {"sent", "prepared"},
           Update(driver[d].key, [row[driver[d].key] EXCEPT !.state = state]),
           Goes(d, "queue", state, driver[d].dir),
           UNCHANGED <<saved, asks, payload, cmd, worker, lost>>,
           driver[d].dir # 0, driver[d].at = "send" => driver[d].key \in Reruns,
           driver[d].at = "prepare" => state = "prepared", state = "prepared" => Good(driver[d].dir)
    PROVE  RunInv'
<1>. DEFINE k == driver[d].key
<1>1. HostOnly /\ Grows
  BY SameAsks, HostFrame DEF worker
<1>2. /\ TypeOK /\ driver[d] \in DriverState /\ k \in Keys /\ DriverOK(d) /\ Follows(d)
      /\ ~Gone(k) /\ (driver[d].dir # 0 => Known(k, driver[d].dir)) /\ (row[k].dir # 0 => Known(k, row[k].dir))
      /\ RowOK(k) /\ CmdOK(d) /\ Owns(d) /\ UNCHANGED <<folder, jobs, gc>> /\ row[k] \in Row
  BY Working, Fields DEF worker
<1>3. row[k].state # "none" => row[k].dir = driver[d].dir
  <2>1. row[k].state # "none" => row[k].dir # 0
    BY <1>2, ConstantTypes DEF RowOK, Follows, DriverOK, Beyond
  <2>. QED
    BY <1>2, <2>1 DEF RunInv, OneDir
<1>4. [row[k] EXCEPT !.state = state] \in Row
  BY <1>2 DEF Row, States
<1>5. TypeOK'
  BY <1>2, <1>4, Rows_, Steps DEF TypeOK, DriverState, States
<1>6. /\ driver'[d].at = "queue" /\ driver'[d].key = k /\ driver'[d].state = state
      /\ driver'[d].dir = driver[d].dir /\ driver'[d].redacted = driver[d].redacted
      /\ OnlyDriver(d) /\ OnlyRow(k) /\ OnlyCmd(d)
  BY <1>2 DEF Goes, Update, OnlyDriver, OnlyRow, OnlyCmd, TypeOK, DriverState
<1>7. row'[k].dir = row[k].dir /\ row'[k].state = IF row[k].state = "none" THEN "none" ELSE state
  BY <1>2 DEF Update, TypeOK, Row
<1>8. cmd[d] = NoCmd
  BY <1>2 DEF CmdOK, Owns
<1>9. KnownPlaces' /\ OneDir'
  BY <1>1, <1>2, <1>6, <1>7, <1>8, NothingLearned DEF NoCmd
<1>10. RowOK(k)' /\ DriverOK(d)' /\ Follows(d)' /\ CmdOK(d)' /\ Owns(d)'
  <2>1. RowOK(k)'
    <3>1. CASE row[k].state = "none"
      BY <1>1, <1>2, <1>6, <1>7, <3>1 DEF RowOK, Grows, Beyond
    <3>2. CASE row[k].state # "none"
      BY <1>1, <1>2, <1>3, <1>6, <1>7, <3>2 DEF RowOK, Grows, Beyond
    <3>. QED
      BY <3>1, <3>2
  <2>2. DriverOK(d)' /\ Follows(d)'
    BY <1>1, <1>2, <1>3, <1>6, <1>7, ConstantTypes DEF DriverOK, Follows, Grows, Beyond, States
  <2>. QED
    BY <1>2, <1>6, <1>8, <2>1, <2>2 DEF CmdOK, CmdKnows, Owns, NoCmd
<1>. QED
  BY <1>1, <1>2, <1>3, <1>5, <1>6, <1>7, <1>8, <1>9, <1>10, HostStep, SMTT(30) DEF RunInv, Redacted, NoCmd, Busy, RowOK

(* What a driver that waits for its command has in hand.                   *)
LEMMA Waiting ==
    ASSUME RunInv, NEW d \in Drivers, cmd[d].what # "none"
    PROVE  /\ driver[d].at = "waits" /\ cmd[d].key = driver[d].key /\ cmd[d].key \in Keys /\ CmdOK(d)
           /\ cmd[d].at # "none" /\ ~Gone(cmd[d].key) /\ cmd[d] \in CommandState
           /\ CmdKnows(d) => Known(cmd[d].key, cmd[d].dir) /\ cmd[d].dir # 0
<1>1. Owns(d) /\ CmdOK(d) /\ cmd[d].key \in Keys \cup {None} /\ cmd[d] \in CommandState
  BY ConstantTypes, Fields DEF RunInv, Owners, CmdSteps
<1>2. cmd[d].key \in Keys /\ cmd[d].at # "none"
  BY <1>1 DEF CmdOK, NoCmd
<1>3. ~Gone(cmd[d].key)
  BY <1>2, ConstantTypes DEF RunInv, GoneSettled, AtRest
<1>4. CmdKnows(d) => Known(cmd[d].key, cmd[d].dir) /\ cmd[d].dir # 0
  BY <1>1, ConstantTypes DEF Known, CmdOK
<1>. QED
  BY <1>1, <1>2, <1>3, <1>4 DEF Owns

LEMMA RefusedKeeps ==
    ASSUME RunInv, NEW d \in Drivers, Refused(d) PROVE RunInv'
<1>1. cmd[d].what # "none" /\ TypeOK
  BY ConstantTypes DEF Refused, RunInv, CmdSteps, CmdOK, NoCmd
<1>2. driver[d].at # "free" /\ HostOnly
  BY <1>1, Waiting, SameAsks DEF Refused, host, worker
<1>3. cmd'[d] = NoCmd /\ OnlyCmd(d) /\ driver' = [driver EXCEPT ![d] = Free] /\ cmd' \in [Slots -> CommandState]
  BY <1>1, Ended, ConstantTypes DEF Refused, Ends, OnlyCmd, TypeOK
<1>. QED
  BY <1>1, <1>2, <1>3, DriverEnds DEF Refused, host, worker, TypeOK

LEMMA RedactKeeps ==
    ASSUME RunInv, NEW d \in Drivers, Redact(d) PROVE RunInv'
<1>. DEFINE k == driver[d].key
<1>1. TypeOK /\ driver[d].at = "redact" /\ k \in Keys /\ HasJob(k)
  BY Working DEF Redact, DriverOK
<1>2. HostOnly /\ UNCHANGED <<row, asks, gc, lost>>
  BY SameAsks DEF Redact, worker
<1>3. cmd'[d] = NoCmd /\ OnlyCmd(d) /\ driver' = [driver EXCEPT ![d] = Free] /\ cmd' \in [Slots -> CommandState]
  BY <1>1, Ended, ConstantTypes DEF Redact, Ends, OnlyCmd, TypeOK
<1>4. /\ saved' \in [Keys -> {"none", "saved", "redacted"}] /\ payload' \subseteq Reruns
      /\ \A i \in Keys : saved'[i] = "redacted" => saved[i] = "redacted" \/ HasJob(i)
  BY <1>1 DEF Redact, TypeOK
<1>. QED
  BY <1>1, <1>2, <1>3, <1>4, DriverEnds DEF TypeOK

LEMMA AnsweredKeeps ==
    ASSUME RunInv, NEW d \in Drivers, Answered(d) PROVE RunInv'
<1>1. HostOnly /\ Grows /\ UNCHANGED <<saved, asks, payload, folder, jobs, gc, lost>>
  BY SameAsks, HostFrame DEF Answered, worker
<1>2. cmd[d].what # "none" /\ cmd[d].at = "done" /\ TypeOK /\ CmdKnows(d)
  BY ConstantTypes DEF Answered, RunInv, CmdSteps, CmdOK, NoCmd, CmdKnows
<1>. PICK c \in CommandState, k \in Keys : c = cmd[d] /\ k = cmd[d].key
  BY <1>2, Waiting
<1>3. /\ driver[d].at = "waits" /\ k = driver[d].key /\ c.key = k /\ c.at = "done" /\ CmdOK(d) /\ ~Gone(k)
      /\ Known(k, c.dir) /\ c.dir # 0 /\ c.dir \in 0..MaxFolders /\ c.id \in 0..MaxJobs
      /\ c.what \in {"receive", "update", "prepare", "add"}
  BY <1>2, Waiting DEF CommandState
<1>4. /\ driver[d] \in DriverState /\ DriverOK(d) /\ Follows(d) /\ RowOK(k) /\ Owns(d)
      /\ (row[k].dir # 0 => Known(k, row[k].dir)) /\ row[k] \in Row
  BY <1>2, <1>3, Working, Fields
<1>5. row[k].state # "none" /\ c.what \in {"prepare", "add"} => row[k].dir = c.dir
  <2>. SUFFICES ASSUME row[k].state # "none", c.what \in {"prepare", "add"} PROVE row[k].dir = c.dir
    OBVIOUS
  <2>1. driver[d].state \in Beyond
    BY <1>4 DEF Owns, Beyond
  <2>2. row[k].dir # 0
    BY <1>3, <1>4, <2>1 DEF Follows
  <2>. QED
    BY <1>3, <1>4, <2>2 DEF RunInv, OneDir
<1>6. /\ c.what \in {"receive", "prepare"} => k \in Runs
      /\ c.what = "update" => k \notin Runs
      /\ c.what \in {"prepare", "add"} => Good(c.dir)
      /\ c.what = "add" => c.id \in DOMAIN jobs /\ jobs[c.id].key = k
  BY <1>3, ConstantTypes DEF CmdOK
(* The row, when there is one, and the driver go on together.              *)
<1>7. PICK st \in {"sent", "prepared", "queued"}, nx \in {"prepare", "redact", "queue"}, id \in 0..MaxJobs :
         /\ Goes(d, nx, st, c.dir)
         /\ row[k].state = "none" => row' = row
         /\ row[k].state # "none" => row' = [row EXCEPT ![k] = [state |-> st, dir |-> c.dir, id |-> id]]
         /\ nx = "prepare" => st = "sent" /\ c.what = "receive"
         /\ nx = "redact" => st = "queued"
         /\ nx = "queue" => (st = "sent" /\ c.what = "update") \/ (st = "prepared" /\ c.what = "prepare")
         /\ st = "prepared" => c.what = "prepare"
         /\ st = "queued" => c.what = "add" /\ id = c.id
  <2>. PICK r \in Row : r = row[k]
    BY <1>4
  <2>1. r.id \in 0..MaxJobs /\ r = [state |-> r.state, dir |-> r.dir, id |-> r.id]
    BY DEF Row
  <2>2. CASE c.what \in {"receive", "update"}
    <3>. PICK x : x = [r EXCEPT !.state = "sent", !.dir = c.dir]
      OBVIOUS
    <3>1. x = [state |-> "sent", dir |-> c.dir, id |-> r.id]
      BY <1>3 DEF Row, States
    <3>2. /\ Goes(d, IF c.what = "receive" THEN "prepare" ELSE "queue", "sent", c.dir)
          /\ Update(k, [state |-> "sent", dir |-> c.dir, id |-> r.id])
      BY <1>3, <2>2, <3>1 DEF Answered
    <3>. QED
      BY <2>1, <2>2, <3>2 DEF Update
  <2>3. CASE c.what = "prepare"
    <3>1. [r EXCEPT !.state = "prepared"] = [state |-> "prepared", dir |-> r.dir, id |-> r.id]
      BY <2>1
    <3>2. Goes(d, "queue", "prepared", c.dir) /\ Update(k, [state |-> "prepared", dir |-> r.dir, id |-> r.id])
      BY <1>3, <2>3, <3>1 DEF Answered
    <3>. QED
      BY <1>5, <2>1, <2>3, <3>2 DEF Update
  <2>4. CASE c.what = "add"
    <3>. PICK x : x = [r EXCEPT !.state = "queued", !.id = c.id]
      OBVIOUS
    <3>1. x = [state |-> "queued", dir |-> r.dir, id |-> c.id]
      BY <1>3 DEF Row, States
    <3>2. Goes(d, "redact", "queued", c.dir) /\ Update(k, [state |-> "queued", dir |-> r.dir, id |-> c.id])
      BY <1>3, <2>4, <3>1 DEF Answered
    <3>. QED
      BY <1>3, <1>5, <2>4, <3>2 DEF Update
  <2>. QED
    BY <1>3, <2>2, <2>3, <2>4
<1>8. cmd' = [cmd EXCEPT ![d] = NoCmd]
  BY DEF Answered
<1>9. TypeOK'
  <2>1. cmd' \in [Slots -> CommandState]
    BY <1>2, <1>8, BlankRecords DEF TypeOK
  <2>2. [state |-> st, dir |-> c.dir, id |-> id] \in Row
    BY <1>3 DEF Row, States
  <2>3. row' \in [Keys -> Row]
    BY <1>2, <1>7, <2>2 DEF TypeOK
  <2>4. driver' \in [Drivers -> DriverState]
    BY <1>2, <1>3, <1>7, Steps DEF States
  <2>. QED
    BY <1>1, <1>2, <2>1, <2>3, <2>4 DEF TypeOK
<1>10. /\ row[k].state = "none" => row'[k] = row[k]
       /\ row[k].state # "none" => row'[k].state = st /\ row'[k].dir = c.dir /\ row'[k].id = id
       /\ OnlyRow(k)
  BY <1>2, <1>7 DEF TypeOK, OnlyRow
<1>11. /\ driver'[d].at = nx /\ driver'[d].key = k /\ driver'[d].state = st
       /\ driver'[d].dir = c.dir /\ driver'[d].redacted = driver[d].redacted /\ OnlyDriver(d)
  BY <1>2, <1>3, <1>4, <1>7 DEF Goes, OnlyDriver, TypeOK, DriverState
<1>12. cmd'[d] = NoCmd /\ OnlyCmd(d)
  BY <1>2, <1>8, ConstantTypes DEF OnlyCmd, TypeOK
<1>13. KnownPlaces' /\ OneDir'
  <2>1. row'[k].dir # 0 => Known(k, row'[k].dir)
    BY <1>3, <1>4, <1>10
  <2>. QED
    BY <1>1, <1>3, <1>10, <1>11, <1>12, <2>1, NothingLearned DEF NoCmd
<1>14. (st \in {"prepared", "queued"} => Good(c.dir)') /\ (st = "queued" => HasJob(k)')
  BY <1>1, <1>6, <1>7 DEF Grows, HasJob
<1>15. RowOK(k)'
  <2>1. CASE row[k].state = "none"
    BY <1>1, <1>4, <1>10, <2>1 DEF RowOK, Beyond
  <2>2. CASE row[k].state # "none"
    BY <1>1, <1>3, <1>6, <1>7, <1>10, <1>14, <2>2 DEF RowOK
  <2>. QED
    BY <2>1, <2>2
<1>16. DriverOK(d)' /\ Follows(d)'
  <2>1. row'[k].state # "none" => row'[k].dir # 0
    BY <1>3, <1>10, <1>4 DEF RowOK
  <2>2. Follows(d)'
    BY <1>11, <2>1 DEF Follows
  <2>3. k # None /\ nx # "free" /\ st \in States
    BY ConstantTypes DEF States
  <2>4. DriverOK(d)'
    BY <1>3, <1>6, <1>7, <1>11, <1>14, <2>3 DEF DriverOK
  <2>. QED
    BY <2>2, <2>4
<1>17. CmdOK(d)' /\ Owns(d)'
  BY <1>11, <1>12 DEF CmdOK, CmdKnows, Owns, NoCmd
<1>18. row'[k].state = "none" \/ row'[k].dir # 0
  BY <1>3, <1>10
<1>. QED
  BY <1>1, <1>3, <1>9, <1>10, <1>11, <1>12, <1>13, <1>15, <1>16, <1>17, <1>18, HostStep
     DEF RunInv, Redacted, NoCmd, Busy

(* A command that goes on without its driver is the same command.          *)
LEMMA LostKeeps ==
    ASSUME RunInv, NEW d \in Drivers, NEW reaches \in BOOLEAN, Lost(d, reaches) PROVE RunInv'
<1>1. /\ TypeOK /\ driver[d].at # "free" /\ driver' = [driver EXCEPT ![d] = Free] /\ lost' \in 0..MaxLost
      /\ UNCHANGED <<row, saved, asks, payload, folder, jobs, gc>>
  BY ConstantTypes DEF Lost, RunInv, TypeOK, host, worker
<1>2. HostOnly /\ Grows
  BY <1>1, SameAsks, HostFrame
<1>3. CASE ~(cmd[d].at \in {"sent", "busy"} /\ reaches)
  <2>1. cmd' = [cmd EXCEPT ![d] = NoCmd]
    BY <1>3 DEF Lost
  <2>2. cmd'[d] = NoCmd /\ OnlyCmd(d) /\ cmd' \in [Slots -> CommandState]
    BY <1>1, <2>1, BlankRecords, ConstantTypes DEF TypeOK, OnlyCmd
  <2>. QED
    BY <1>1, <1>2, <2>2, DriverEnds DEF TypeOK
<1>4. CASE cmd[d].at \in {"sent", "busy"} /\ reaches
  <2>. USE BlankRecords, ConstantTypes
  <2>. PICK c \in CommandState : c = cmd[d]
    BY <1>1, Fields
  <2>1. cmd[Orphan] = NoCmd /\ cmd' = [cmd EXCEPT ![d] = NoCmd, ![Orphan] = c]
    BY <1>4 DEF Lost
  <2>2. /\ cmd' \in [Slots -> CommandState] /\ cmd'[d] = NoCmd /\ cmd'[Orphan] = c
        /\ \A s \in Slots \ {d, Orphan} : cmd'[s] = cmd[s]
    BY <1>1, <2>1 DEF TypeOK
  <2>3. driver'[d] = Free /\ OnlyDriver(d) /\ driver' \in [Drivers -> DriverState]
    BY <1>1 DEF TypeOK, OnlyDriver
  <2>4. TypeOK'
    BY <1>1, <2>2, <2>3 DEF TypeOK
  <2>5. \A s \in Slots : (s = Orphan /\ cmd'[s] = cmd[d]) \/ cmd'[s] = NoCmd \/ (s \notin {d, Orphan} /\ cmd'[s] = cmd[s])
    BY <2>2
  <2>6. NoCmd.key = None /\ NoCmd.what = "none" /\ NoCmd.redacted = FALSE
    BY DEF NoCmd
  <2>7. KnownPlaces' /\ OneDir'
    <3>1. ASSUME NEW k \in Keys, NEW f, Known(k, f)' PROVE Known(k, f)
      BY <1>1, <2>3, <2>5, <2>6, <3>1 DEF Known, CmdKnows, Free, OnlyDriver
    <3>. QED
      BY <1>2, <3>1, PlacesKept DEF LessKnown
  <2>8. Receiving'
    <3>1. \A s \in Slots : Busy(s, "receive")' =>
             \E t \in Slots : /\ Busy(t, "receive") /\ cmd'[s] = cmd[t]
                              /\ IF s = Orphan THEN t = d ELSE t = s /\ t # d
      BY <2>5, <2>6 DEF Busy
    <3>. QED
      BY <1>1, <3>1 DEF RunInv, Receiving
  <2>9. RowSteps' /\ CmdSteps' /\ Owners'
    <3>1. RowSteps'
      BY <1>1, <1>2, RowsSame DEF RunInv
    <3>2. ASSUME NEW s \in Slots PROVE CmdOK(s)'
      <4>1. CASE cmd'[s] = NoCmd
        BY <4>1 DEF CmdOK, CmdKnows, NoCmd
      <4>2. CASE cmd'[s] # NoCmd
        <5>1. PICK t \in Slots : cmd'[s] = cmd[t] /\ CmdOK(t)
          BY <2>5, <4>2 DEF RunInv, CmdSteps
        <5>. QED
          BY <1>2, <5>1 DEF Grows, CmdOK, CmdKnows
      <4>. QED
        BY <4>1, <4>2
    <3>3. Owners'
      BY <1>4, <2>2, <2>3 DEF RunInv, Owners, Owns, OnlyDriver, Free, NoCmd
    <3>. QED
      BY <3>1, <3>2, <3>3 DEF CmdSteps
  <2>10. DriverSteps'
    <3>1. ASSUME NEW e \in Drivers PROVE DriverOK(e)'
      <4>1. CASE e = d
        BY <2>3, <4>1 DEF DriverOK, Free, Beyond
      <4>2. CASE e # d
        BY <1>2, <2>3, <4>2, JobsStay DEF RunInv, DriverSteps, DriverOK, Grows, OnlyDriver
      <4>. QED
        BY <4>1, <4>2
    <3>2. ASSUME NEW e \in Drivers PROVE Follows(e)'
      BY <1>1, <2>3 DEF RunInv, DriverSteps, Follows, OnlyDriver, Free
    <3>. QED
      BY <3>1, <3>2 DEF DriverSteps
  <2>11. GoneSettled'
    <3>. SUFFICES ASSUME NEW k \in Keys, Gone(k)' PROVE AtRest(k)'
      BY DEF GoneSettled
    <3>1. AtRest(k)
      BY <1>1 DEF RunInv, GoneSettled, Gone
    <3>. QED
      BY <1>1, <2>3, <2>5, <2>6, <3>1 DEF AtRest, OnlyDriver, Free
  <2>12. Redacted'
    <3>1. \A k : HasJob(k) => HasJob(k)'
      BY <1>2, JobsStay
    <3>2. ASSUME NEW e \in Drivers PROVE (driver[e].redacted => HasJob(driver[e].key))'
      BY <1>1, <2>3 DEF RunInv, Redacted, OnlyDriver, Free, HasJob
    <3>3. ASSUME NEW s \in Slots PROVE (cmd[s].redacted => HasJob(cmd[s].key))'
      <4>1. cmd'[s].redacted => HasJob(cmd'[s].key)
        BY <2>5, <2>6 DEF RunInv, Redacted
      <4>. QED
        BY <1>1, <4>1 DEF HasJob
    <3>. QED
      BY <1>1, <3>1, <3>2, <3>3 DEF RunInv, Redacted
  <2>. QED
    BY <1>2, <2>4, <2>7, <2>8, <2>9, <2>10, <2>11, <2>12, HostFrame DEF RunInv
<1>. QED
  BY <1>3, <1>4

(* Files in runs/, rows and nothing else: they only go.                    *)
LEMMA HostForgets ==
    ASSUME RunInv, TypeOK', UNCHANGED <<asks, driver, cmd, worker>>, NEW k \in Keys, OnlyRow(k), row'[k] \in {row[k], NoRow},
           \A i \in Keys : saved'[i] = "redacted" => saved[i] = "redacted"
    PROVE  RunInv'
<1>1. HostOnly /\ Grows /\ UNCHANGED <<folder, jobs, gc>>
  BY SameAsks, HostFrame DEF worker
<1>2. NoRow.state = "none" /\ NoRow.dir = 0
  BY DEF NoRow
<1>3. KnownPlaces' /\ OneDir'
  <2>1. LessKnown
    BY <1>1, <1>2 DEF LessKnown, Known, OnlyRow, CmdKnows
  <2>. QED
    BY <1>1, <2>1, PlacesKept
<1>4. RowSteps'
  <2>1. RowOK(k)'
    BY <1>1, <1>2 DEF RunInv, RowSteps, RowOK, Grows, Beyond
  <2>. QED
    BY <1>1, <2>1, RowsKept DEF RunInv
<1>5. DriverSteps'
  <2>1. ASSUME NEW e \in Drivers PROVE DriverOK(e)'
    BY <1>1, JobsStay DEF RunInv, DriverSteps, DriverOK, Grows
  <2>2. ASSUME NEW e \in Drivers PROVE Follows(e)'
    <3>1. DriverOK(e) /\ Follows(e) /\ driver[e].key \in Keys \cup {None}
      BY Fields DEF RunInv, DriverSteps
    <3>. QED
      BY <1>2, <3>1 DEF DriverOK, Follows, OnlyRow
  <2>. QED
    BY <2>1, <2>2 DEF DriverSteps
<1>6. CmdSteps' /\ Owners' /\ Receiving'
  BY <1>1, CmdsSame DEF RunInv, Owners, Owns, Receiving, Busy
<1>7. GoneSettled'
  BY <1>1, <1>2 DEF RunInv, GoneSettled, Gone, AtRest, OnlyRow
<1>8. Redacted'
  BY <1>1, JobsStay DEF RunInv, Redacted, HasJob
<1>. QED
  BY <1>1, <1>3, <1>4, <1>5, <1>6, <1>7, <1>8, HostFrame DEF RunInv

LEMMA PruneRunFilesKeeps ==
    ASSUME RunInv, NEW k \in Keys, PruneRunFiles(k) PROVE RunInv'
<1>1. TypeOK' /\ OnlyRow(k) /\ row'[k] = row[k] /\ \A i \in Keys : saved'[i] = "redacted" => saved[i] = "redacted"
  BY DEF PruneRunFiles, RunInv, TypeOK, OnlyRow, worker
<1>. QED
  BY <1>1, HostForgets DEF PruneRunFiles

LEMMA ForgetRunKeeps ==
    ASSUME RunInv, NEW k \in Keys, ForgetRun(k) PROVE RunInv'
<1>1. TypeOK' /\ OnlyRow(k) /\ row'[k] = NoRow
  BY BlankRecords DEF ForgetRun, RunInv, TypeOK, OnlyRow, worker
<1>. QED
  BY <1>1, HostForgets DEF ForgetRun

(* The steps that the host takes by itself.                                *)
LEMMA DriverKeeps ==
    ASSUME RunInv, NEW d \in Drivers, Driver(d) PROVE RunInv'
<1>1. ASSUME Send(d) PROVE RunInv'
  <2>1. driver[d].at = "send" /\ driver[d].key \in Keys
    BY <1>1, Working DEF Send
  <2>2. CASE driver[d].key \in Runs
    <3>1. Calls(d, "receive") /\ UNCHANGED asks
      BY <1>1, <2>2 DEF Send, Calls, host
    <3>. QED
      BY <2>1, <2>2, <3>1, CallsKeeps
  <2>3. CASE driver[d].key \notin Runs
    <3>1. Calls(d, "update") /\ UNCHANGED asks
      BY <1>1, <2>3 DEF Send, Calls, host
    <3>2. driver[d].key \in Reruns
      BY <2>1, <2>3 DEF Keys
    <3>. QED
      BY <2>1, <3>1, <3>2, CallsKeeps
  <2>. QED
    BY <2>2, <2>3
<1>2. ASSUME NothingToSend(d) PROVE RunInv'
  <2>1. driver[d].at = "send" /\ driver[d].key \in Reruns /\ driver[d].dir # 0
    BY <1>2, Working DEF NothingToSend, DriverOK
  <2>. QED
    BY <1>2, <2>1, GoesOnKeeps DEF NothingToSend
<1>3. ASSUME Prepare(d) PROVE RunInv'
  <2>1. driver[d].at = "prepare" /\ Calls(d, "prepare") /\ UNCHANGED asks
    BY <1>3 DEF Prepare, Calls, host
  <2>. QED
    BY <2>1, CallsKeeps
<1>4. ASSUME NothingToPrepare(d) PROVE RunInv'
  <2>1. /\ driver[d].at = "prepare" /\ driver[d].key \in Runs /\ driver[d].key \notin asks
        /\ driver[d].dir # 0 /\ Known(driver[d].key, driver[d].dir)
    BY <1>4, Working DEF NothingToPrepare, DriverOK, Beyond
  <2>2. Good(driver[d].dir)
    BY <2>1, ConstantTypes DEF RunInv, KnownPlaces, Place, Good, Ready
  <2>. QED
    BY <1>4, <2>1, <2>2, GoesOnKeeps DEF NothingToPrepare
<1>5. ASSUME Queue(d) PROVE RunInv'
  <2>1. driver[d].at = "queue" /\ Calls(d, "add") /\ UNCHANGED asks
    BY <1>5 DEF Queue, Calls, host
  <2>. QED
    BY <2>1, CallsKeeps
<1>. QED
  BY <1>1, <1>2, <1>3, <1>4, <1>5, SaveSpecKeeps, NewRunKeeps, NewRerunKeeps, FindAnswersKeeps, ResumeKeeps,
     AnsweredKeeps, RefusedKeeps, RedactKeeps, LostKeeps DEF Driver

----------------------------------------------------------------------------
(* The worker                                                              *)

(* What a command leaves in its slot.                                      *)
SameCommand(s) ==
    \/ s = Orphan /\ cmd'[s] = NoCmd
    \/ /\ cmd'[s].what = cmd[s].what /\ cmd'[s].key = cmd[s].key /\ cmd'[s].redacted = cmd[s].redacted
       /\ cmd'[s].at # "none"
       /\ s = Orphan => cmd'[s].at = "busy"

(* The slot of a command that has ended, or that works on.                 *)
LEMMA Answering ==
    ASSUME TypeOK, NEW s \in Slots
    PROVE  /\ \A at \in {"done", "refused"} : Answer(s, at) =>
                 /\ cmd' \in [Slots -> CommandState] /\ OnlyCmd(s) /\ SameCommand(s)
                 /\ s # Orphan => cmd'[s].at = at /\ cmd'[s].dir = cmd[s].dir /\ cmd'[s].id = cmd[s].id
           /\ \A dir \in 0..MaxFolders, id \in 0..MaxJobs : Done(s, dir, id) =>
                 /\ cmd' \in [Slots -> CommandState] /\ OnlyCmd(s) /\ SameCommand(s)
                 /\ s # Orphan => cmd'[s].at = "done" /\ cmd'[s].dir = dir /\ cmd'[s].id = id
<1>1. cmd[s] \in CommandState /\ cmd \in [Slots -> CommandState]
  BY DEF TypeOK
<1>2. CASE s = Orphan
  BY <1>1, <1>2, Answers DEF Answer, Done, OnlyCmd, SameCommand
<1>3. CASE s # Orphan
  <2>1. ASSUME NEW at \in {"done", "refused"}, Answer(s, at)
        PROVE  /\ cmd'[s].at = at /\ cmd'[s].dir = cmd[s].dir /\ cmd'[s].id = cmd[s].id
               /\ cmd'[s].what = cmd[s].what /\ cmd'[s].key = cmd[s].key /\ cmd'[s].redacted = cmd[s].redacted
               /\ OnlyCmd(s)
    BY <1>1, <1>3, <2>1 DEF Answer, CommandState, OnlyCmd
  <2>2. ASSUME NEW dir \in 0..MaxFolders, NEW id \in 0..MaxJobs, Done(s, dir, id)
        PROVE  /\ cmd'[s].at = "done" /\ cmd'[s].dir = dir /\ cmd'[s].id = id
               /\ cmd'[s].what = cmd[s].what /\ cmd'[s].key = cmd[s].key /\ cmd'[s].redacted = cmd[s].redacted
               /\ OnlyCmd(s)
    <3>1. cmd' = [cmd EXCEPT ![s] = [cmd[s] EXCEPT !.at = "done", !.dir = dir, !.id = id]]
      BY <1>3, <2>2 DEF Done
    <3>. QED
      BY <1>1, <3>1 DEF CommandState, OnlyCmd
  <2>. QED
    BY <1>3, <2>1, <2>2, Answers DEF SameCommand
<1>. QED
  BY <1>2, <1>3

(* A step of a command s.                                                  *)
LEMMA CommandStep ==
    ASSUME RunInv, NEW s \in Slots, cmd[s].what # "none", cmd' \in [Slots -> CommandState],
           folder' \in [Folders -> RunFolder], jobs' \in Seq(Job), Len(jobs') <= MaxJobs,
           gc' \subseteq Folders, UNCHANGED <<host, driver, lost>>, OnlyCmd(s), SameCommand(s), Grows,
           (s = Orphan /\ cmd'[s] = NoCmd) \/ CmdOK(s)',
           Receiving', OneFolder', KnownPlaces', OneDir', JobFolders', OneJob', NeverFromRedacted',
           \A k \in Keys : Gone(k)' => Gone(k)
    PROVE  RunInv'
<1>. USE BlankRecords, ConstantTypes
<1>1. TypeOK' /\ UNCHANGED <<row, saved, asks, payload, driver>>
  BY DEF RunInv, TypeOK, host
<1>2. NoCmd.key = None /\ NoCmd.what = "none" /\ NoCmd.at = "none" /\ NoCmd.redacted = FALSE
  BY DEF NoCmd
<1>3. RowSteps' /\ DriverSteps'
  BY <1>1, RowsSame, DriversSame DEF RunInv
<1>4. CmdSteps'
  <2>1. CASE s = Orphan /\ cmd'[s] = NoCmd
    <3>1. CmdOK(s)'
      BY <1>2, <2>1 DEF CmdOK, CmdKnows
    <3>. QED
      BY <3>1, CmdsKept DEF RunInv
  <2>2. CASE CmdOK(s)'
    BY <2>2, CmdsKept DEF RunInv
  <2>. QED
    BY <2>1, <2>2
<1>5. Owners'
  <2>1. cmd'[Orphan].at \in {"none", "sent", "busy"}
    BY <1>2 DEF RunInv, Owners, OnlyCmd, SameCommand
  <2>2. ASSUME NEW d \in Drivers PROVE Owns(d)'
    <3>1. cmd'[d].what = cmd[d].what /\ cmd'[d].key = cmd[d].key
      BY DEF OnlyCmd, SameCommand
    <3>. QED
      BY <1>1, <3>1 DEF RunInv, Owners, Owns
  <2>. QED
    BY <2>1, <2>2 DEF Owners
<1>6. GoneSettled'
  <2>. SUFFICES ASSUME NEW k \in Keys, Gone(k)' PROVE AtRest(k)'
    BY DEF GoneSettled
  <2>1. AtRest(k)
    BY DEF RunInv, GoneSettled
  <2>2. \A t \in Slots : cmd'[t].key \in {cmd[t].key, None}
    BY <1>2 DEF OnlyCmd, SameCommand
  <2>. QED
    BY <1>1, <2>1, <2>2 DEF AtRest
<1>7. Redacted'
  <2>1. \A k : HasJob(k) => HasJob(k)'
    BY JobsStay
  <2>2. \A k \in Keys : saved'[k] = "redacted" => HasJob(k)'
    BY <1>1, <2>1 DEF RunInv, Redacted
  <2>3. ASSUME NEW d \in Drivers PROVE (driver[d].redacted => HasJob(driver[d].key))'
    BY <1>1, <2>1 DEF RunInv, Redacted, HasJob
  <2>4. ASSUME NEW t \in Slots PROVE (cmd[t].redacted => HasJob(cmd[t].key))'
    <3>1. cmd'[t].redacted => cmd[t].redacted /\ cmd'[t].key = cmd[t].key
      BY <1>2 DEF OnlyCmd, SameCommand
    <3>2. cmd'[t].redacted => HasJob(cmd[t].key)
      BY <3>1 DEF RunInv, Redacted
    <3>. QED
      BY <2>1, <3>1, <3>2 DEF HasJob
  <2>. QED
    BY <2>2, <2>3, <2>4 DEF Redacted
<1>. QED
  BY <1>1, <1>3, <1>4, <1>5, <1>6, <1>7 DEF RunInv

(* What a command has in hand.                                             *)
LEMMA AtWork ==
    ASSUME RunInv, NEW s \in Slots, cmd[s].what # "none"
    PROVE  /\ TypeOK /\ cmd[s] \in CommandState /\ cmd[s].key \in Keys /\ CmdOK(s) /\ ~Gone(cmd[s].key)
           /\ cmd[s].dir \in 0..MaxFolders /\ cmd[s].id \in 0..MaxJobs
           /\ cmd[s].what \in {"receive", "prepare"} => cmd[s].key \in Runs /\ cmd[s].key \notin Reruns
           /\ CmdKnows(s) => cmd[s].dir \in Folders /\ Known(cmd[s].key, cmd[s].dir)
<1>1. TypeOK /\ CmdOK(s) /\ cmd[s].key \in Keys \cup {None} /\ cmd[s] \in CommandState /\ cmd[s].dir \in 0..MaxFolders
  BY ConstantTypes, Fields DEF RunInv, CmdSteps
<1>2. cmd[s].key \in Keys /\ cmd[s].id \in 0..MaxJobs
  BY <1>1 DEF CmdOK, NoCmd, CommandState
<1>3. ~Gone(cmd[s].key)
  BY <1>2, ConstantTypes DEF RunInv, GoneSettled, AtRest
<1>4. CmdKnows(s) => cmd[s].dir \in Folders /\ Known(cmd[s].key, cmd[s].dir)
  BY <1>1, ConstantTypes DEF Known, CmdOK, Folders
<1>. QED
  BY <1>1, <1>2, <1>3, <1>4, ConstantTypes DEF CmdOK

(* A command that changes no folder and makes no job.                      *)
LEMMA CommandOnly ==
    ASSUME RunInv, NEW s \in Slots, cmd[s].what # "none", cmd' \in [Slots -> CommandState],
           UNCHANGED <<host, driver, worker, lost>>, OnlyCmd(s), SameCommand(s),
           (s = Orphan /\ cmd'[s] = NoCmd) \/ CmdOK(s)',
           ~Busy(s, "receive")',
           cmd'[s] # NoCmd /\ CmdKnows(s)' => Known(cmd[s].key, cmd'[s].dir)
    PROVE  RunInv'
<1>1. HostOnly /\ Grows /\ UNCHANGED <<row, saved, asks, payload, folder, jobs, gc, driver>>
  BY SameAsks, HostFrame DEF host, worker
<1>2. OneFolder' /\ JobFolders' /\ OneJob' /\ NeverFromRedacted'
  BY <1>1, HostFrame
<1>3. Receiving'
  BY <1>1 DEF RunInv, Receiving, OnlyCmd, Busy
<1>4. KnownPlaces' /\ OneDir'
  <2>1. ASSUME NEW k \in Keys, NEW f, Known(k, f)' PROVE Known(k, f)
    <3>1. cmd'[s].key = k => cmd'[s] # NoCmd /\ cmd[s].key = k
      BY ConstantTypes DEF SameCommand, NoCmd
    <3>. QED
      BY <1>1, <2>1, <3>1 DEF Known, OnlyCmd, CmdKnows
  <2>. QED
    BY <1>1, <2>1, PlacesKept DEF LessKnown
<1>. QED
  BY <1>1, <1>2, <1>3, <1>4, CommandStep DEF RunInv, TypeOK, Gone

(* The worker refuses.                                                     *)
LEMMA Refusal ==
    ASSUME RunInv, NEW s \in Slots, cmd[s].what # "none", Answer(s, "refused"), Grows
    PROVE  /\ cmd' \in [Slots -> CommandState] /\ OnlyCmd(s) /\ SameCommand(s)
           /\ (s = Orphan /\ cmd'[s] = NoCmd) \/ CmdOK(s)'
           /\ ~Busy(s, "receive")'
           /\ cmd'[s] # NoCmd /\ CmdKnows(s)' => CmdKnows(s) /\ cmd'[s].dir = cmd[s].dir
<1>1. TypeOK /\ CmdOK(s) /\ cmd[s].key \in Keys
  BY AtWork
<1>2. /\ cmd' \in [Slots -> CommandState] /\ OnlyCmd(s) /\ SameCommand(s)
      /\ s # Orphan => cmd'[s].at = "refused" /\ cmd'[s].dir = cmd[s].dir /\ cmd'[s].id = cmd[s].id
  BY <1>1, Answering
<1>3. CASE s = Orphan
  <2>1. cmd'[s] = NoCmd
    BY <1>1, <1>3 DEF Answer, TypeOK
  <2>. QED
    BY <1>2, <1>3, <2>1 DEF NoCmd, Busy
<1>4. CASE s # Orphan
  <2>1. /\ cmd'[s].what = cmd[s].what /\ cmd'[s].key = cmd[s].key /\ cmd'[s].at = "refused"
        /\ cmd'[s].dir = cmd[s].dir /\ cmd'[s].id = cmd[s].id
    BY <1>2, <1>4 DEF SameCommand
  <2>2. CmdOK(s)'
    BY <1>1, <2>1, ConstantTypes DEF CmdOK, CmdKnows, Grows, NoCmd
  <2>. QED
    BY <1>2, <2>1, <2>2 DEF CmdKnows, Busy
<1>. QED
  BY <1>3, <1>4

LEMMA RefusalKeeps ==
    ASSUME RunInv, NEW s \in Slots, cmd[s].what # "none", Answer(s, "refused"),
           UNCHANGED <<host, driver, worker, lost>>
    PROVE  RunInv'
<1>1. Grows
  BY SameAsks, HostFrame DEF host, worker
<1>. QED
  BY <1>1, Refusal, AtWork, CommandOnly

(* A command is done, in a folder that its key had already.                *)
LEMMA DoneThere ==
    ASSUME RunInv, NEW s \in Slots, cmd[s].what # "none", NEW dir \in Folders, NEW id \in 0..MaxJobs,
           Done(s, dir, id), Grows,
           cmd[s].what \in {"prepare", "add"} => Good(dir)',
           cmd[s].what = "add" => id \in DOMAIN jobs' /\ jobs'[id].key = cmd[s].key
    PROVE  /\ cmd' \in [Slots -> CommandState] /\ OnlyCmd(s) /\ SameCommand(s)
           /\ (s = Orphan /\ cmd'[s] = NoCmd) \/ CmdOK(s)'
           /\ ~Busy(s, "receive")'
           /\ cmd'[s] # NoCmd => cmd'[s].dir = dir
<1>1. TypeOK /\ CmdOK(s) /\ cmd[s].key \in Keys /\ dir \in 0..MaxFolders /\ dir # 0
  BY AtWork, ConstantTypes DEF Folders
<1>2. /\ cmd' \in [Slots -> CommandState] /\ OnlyCmd(s) /\ SameCommand(s)
      /\ s # Orphan => cmd'[s].at = "done" /\ cmd'[s].dir = dir /\ cmd'[s].id = id
  BY <1>1, Answering
<1>3. CASE s = Orphan
  <2>1. cmd'[s] = NoCmd
    BY <1>1, <1>3 DEF Done, TypeOK
  <2>. QED
    BY <1>2, <1>3, <2>1 DEF NoCmd, Busy
<1>4. CASE s # Orphan
  <2>1. /\ cmd'[s].what = cmd[s].what /\ cmd'[s].key = cmd[s].key /\ cmd'[s].at = "done"
        /\ cmd'[s].dir = dir /\ cmd'[s].id = id
    BY <1>2, <1>4 DEF SameCommand
  <2>2. CmdOK(s)'
    BY <1>1, <2>1, ConstantTypes DEF CmdOK, CmdKnows
  <2>. QED
    BY <1>2, <2>1, <2>2 DEF CmdKnows, Busy
<1>. QED
  BY <1>3, <1>4

(* `remote receive`: its folder is the one of its key, or a new one.       *)
LEMMA ReceiveStartsKeeps ==
    ASSUME RunInv, NEW s \in Slots, ReceiveStarts(s) PROVE RunInv'
<1>. PICK k \in Keys : k = cmd[s].key
  BY AtWork DEF ReceiveStarts, Arrived
<1>1. /\ TypeOK /\ cmd[s].what = "receive" /\ cmd[s].at = "sent" /\ k \in Runs /\ k \notin Reruns /\ CmdOK(s)
      /\ cmd[s] \in CommandState
      /\ UNCHANGED <<host, driver, jobs, lost>> /\ UNCHANGED asks
  BY AtWork DEF ReceiveStarts, Arrived, host
<1>2. CASE Locked(s)
  <2>1. Answer(s, "refused") /\ UNCHANGED <<folder, gc>>
    BY <1>2 DEF ReceiveStarts
  <2>. QED
    BY <1>1, <2>1, RefusalKeeps DEF worker
<1>3. CASE ~Locked(s) /\ Received(k) # {}
  <2>. PICK f \in Received(k) : f = Min(Received(k))
    BY <1>1, <1>3, TheFolder DEF RunInv
  <2>1. Done(s, f, 0) /\ UNCHANGED <<folder, jobs, gc>>
    BY <1>3 DEF ReceiveStarts
  <2>2. f \in Folders /\ folder[f].at = "whole" /\ folder[f].key = k
    BY DEF Received
  <2>3. HostOnly /\ Grows
    BY <1>1, <2>1, SameAsks, HostFrame
  <2>4. /\ cmd' \in [Slots -> CommandState] /\ OnlyCmd(s) /\ SameCommand(s)
        /\ (s = Orphan /\ cmd'[s] = NoCmd) \/ CmdOK(s)'
        /\ ~Busy(s, "receive")'
        /\ cmd'[s] # NoCmd => cmd'[s].dir = f
    BY <1>1, <2>1, <2>2, <2>3, DoneThere, ConstantTypes
  <2>5. KnownPlaces' /\ OneDir'
    <3>1. \A i \in Keys : \A g : Known(i, g)' => Known(i, g) \/ (i = k /\ g = f)
      BY <1>1, <2>1, <2>4, ConstantTypes DEF Known, OnlyCmd, SameCommand, CmdKnows, NoCmd, host
    <3>2. \A g : Known(k, g) => g = f
      BY <1>1, <2>2, ConstantTypes DEF RunInv, KnownPlaces, Place, OneFolder, None
    <3>3. Place(k, f)'
      BY <1>1, <2>1, <2>2 DEF Place
    <3>. QED
      BY <2>3, <3>1, <3>2, <3>3 DEF RunInv, KnownPlaces, OneDir, Grows
  <2>6. Receiving' /\ OneFolder' /\ JobFolders' /\ OneJob' /\ NeverFromRedacted'
    BY <2>1, <2>3, <2>4, HostFrame DEF RunInv, Receiving, OnlyCmd, Busy
  <2>. QED
    BY <1>1, <2>1, <2>3, <2>4, <2>5, <2>6, CommandStep DEF RunInv, TypeOK, Gone
<1>4. CASE ~Locked(s) /\ Received(k) = {}
  <2>. DEFINE kept == WithoutHalf(k)
  <2>1. PICK f \in Folders : /\ kept[f].at = "free"
                             /\ folder' = [kept EXCEPT ![f] = [NoFolder EXCEPT !.at = "half", !.key = k]]
                             /\ cmd' = [cmd EXCEPT ![s].at = "busy", ![s].dir = f]
                             /\ gc' = gc \ {f}
    BY <1>4 DEF ReceiveStarts
  <2>2. kept \in [Folders -> RunFolder]
    BY <1>1, BlankRecords DEF WithoutHalf, TypeOK
  <2>3. \A g \in Folders : kept[g] = IF folder[g].key = k THEN NoFolder ELSE folder[g]
    BY DEF WithoutHalf
  <2>. PICK new \in RunFolder : new.at = "half" /\ new.key = k /\ folder' = [kept EXCEPT ![f] = new]
    <3>. PICK n \in RunFolder : n = NoFolder
      BY BlankRecords
    <3>1. [n EXCEPT !.at = "half", !.key = k] \in RunFolder
      BY <1>1 DEF RunFolder
    <3>. PICK x \in RunFolder : x = [n EXCEPT !.at = "half", !.key = k]
      BY <3>1
    <3>2. x.at = "half" /\ x.key = k
      BY DEF RunFolder
    <3>. QED
      BY <2>1, <3>2
  <2>4. /\ folder' \in [Folders -> RunFolder] /\ folder'[f] = new
        /\ \A g \in Folders \ {f} : folder'[g] = IF folder[g].key = k THEN NoFolder ELSE folder[g]
    BY <2>2, <2>3
  <2>5. NoFolder.at = "free" /\ NoFolder.key = None /\ k # None
    BY ConstantTypes DEF NoFolder
  <2>6. \A g \in Folders : folder[g].at = "whole" => g # f /\ folder'[g] = folder[g]
    BY <1>4, <2>1, <2>3, <2>4, <2>5 DEF Received
  <2>7. \A g \in Folders : folder[g].at = "half" /\ folder[g].key # k => g # f /\ folder'[g] = folder[g]
    BY <2>1, <2>3, <2>4
  <2>8. Grows
    <3>1. \A g : Good(g) => Good(g)'
      BY <1>1, <2>6 DEF Good, Ready
    <3>2. \A i, g : Place(i, g) => Place(i, g)'
      BY <1>1, <2>6 DEF Place, Ready
    <3>. QED
      BY <1>1, <3>1, <3>2 DEF Grows
  <2>9. /\ cmd' \in [Slots -> CommandState] /\ OnlyCmd(s) /\ cmd'[s].at = "busy" /\ cmd'[s].dir = f
        /\ cmd'[s].what = "receive" /\ cmd'[s].key = k /\ cmd'[s].redacted = cmd[s].redacted
    <3>1. f \in 0..MaxFolders
      BY ConstantTypes DEF Folders
    <3>. QED
      BY <1>1, <2>1, <3>1 DEF TypeOK, CommandState, OnlyCmd
  <2>10. SameCommand(s) /\ CmdOK(s)' /\ ~CmdKnows(s)'
    BY <1>1, <2>5, <2>9 DEF SameCommand, CmdOK, CmdKnows
  <2>11. KnownPlaces' /\ OneDir'
    <3>1. LessKnown
      BY <1>1, <2>9, <2>10 DEF LessKnown, Known, OnlyCmd, CmdKnows, host
    <3>. QED
      BY <2>8, <3>1, PlacesKept
  <2>12. OneFolder'
    <3>1. \A g \in Folders \ {f} : folder'[g].key = None \/ (folder'[g].key = folder[g].key /\ folder[g].key # k)
      BY <2>4, <2>5
    <3>. QED
      BY <2>4, <3>1 DEF RunInv, OneFolder
  <2>13. Receiving'
    <3>1. \A g \in Folders : folder'[g].at = "free" => folder'[g] = NoFolder
      BY <2>4 DEF RunInv, Receiving
    <3>2. \A t \in Slots \ {s} : Busy(t, "receive")' => Busy(t, "receive") /\ cmd'[t] = cmd[t] /\ cmd[t].key # k
      BY <1>4, <2>9 DEF Locked, Busy, OnlyCmd
    <3>3. \A t \in Slots \ {s} : Busy(t, "receive")' =>
              /\ cmd'[t].dir \in Folders /\ folder'[cmd'[t].dir].at = "half"
              /\ folder'[cmd'[t].dir].key = cmd'[t].key
      BY <2>7, <3>2 DEF RunInv, Receiving
    <3>4. folder'[cmd'[s].dir].at = "half" /\ folder'[cmd'[s].dir].key = cmd'[s].key
      BY <2>4, <2>9
    <3>5. \A t, u \in Slots : Busy(t, "receive")' /\ Busy(u, "receive")' /\ cmd'[t].key = cmd'[u].key => t = u
      BY <2>9, <3>2 DEF RunInv, Receiving
    <3>. QED
      BY <2>9, <3>1, <3>3, <3>4, <3>5 DEF Receiving
  <2>14. JobFolders' /\ OneJob' /\ NeverFromRedacted'
    BY <1>1, <2>8 DEF RunInv, JobFolders, Grows, OneJob, NeverFromRedacted
  <2>15. gc' \subseteq Folders
    BY <1>1, <2>1 DEF TypeOK
  <2>. QED
    BY <1>1, <2>4, <2>8, <2>9, <2>10, <2>11, <2>12, <2>13, <2>14, <2>15, CommandStep DEF RunInv, TypeOK, Gone
<1>. QED
  BY <1>2, <1>3, <1>4

(* An upload under way.                                                    *)
LEMMA Uploading ==
    ASSUME RunInv, NEW s \in Slots, Busy(s, "receive")
    PROVE  /\ TypeOK /\ cmd[s].key \in Runs /\ cmd[s].key \in Keys /\ cmd[s].dir \in Folders
           /\ folder[cmd[s].dir] \in RunFolder
           /\ folder[cmd[s].dir].at = "half" /\ folder[cmd[s].dir].key = cmd[s].key
           /\ \A t \in Slots \ {s} : Busy(t, "receive") => cmd[t].dir # cmd[s].dir
           /\ \A f : ~Known(cmd[s].key, f)
<1>1. /\ TypeOK /\ cmd[s].key \in Runs /\ cmd[s].key \in Keys /\ cmd[s].dir \in Folders
      /\ folder[cmd[s].dir] \in RunFolder
      /\ folder[cmd[s].dir].at = "half" /\ folder[cmd[s].dir].key = cmd[s].key
      /\ \A t \in Slots \ {s} : Busy(t, "receive") => cmd[t].dir # cmd[s].dir
  BY AtWork, Fields DEF Busy, RunInv, Receiving
<1>2. \A f : ~Known(cmd[s].key, f)
  BY <1>1, ConstantTypes DEF RunInv, KnownPlaces, Place, OneFolder
<1>. QED
  BY <1>1, <1>2

LEMMA ReceiveEndsKeeps ==
    ASSUME RunInv, NEW s \in Slots, ReceiveEnds(s) PROVE RunInv'
<1>. PICK k \in Keys, f \in Folders : k = cmd[s].key /\ f = cmd[s].dir
  BY Uploading DEF ReceiveEnds
<1>1. /\ TypeOK /\ k \in Runs /\ k \notin Reruns /\ k # None /\ cmd[s].what = "receive" /\ Busy(s, "receive")
      /\ folder[f] \in RunFolder /\ folder[f].at = "half" /\ folder[f].key = k
      /\ \A t \in Slots \ {s} : Busy(t, "receive") => cmd[t].dir # f
      /\ \A g : ~Known(k, g)
      /\ UNCHANGED <<host, driver, jobs, gc, lost>> /\ UNCHANGED asks
  BY Uploading, ConstantTypes DEF ReceiveEnds, Busy, host
<1>2. folder' = [folder EXCEPT ![f] = [folder[f] EXCEPT !.at = "whole"]] /\ Done(s, f, 0)
  BY <1>1 DEF ReceiveEnds
<1>3. /\ folder' \in [Folders -> RunFolder] /\ folder'[f].at = "whole" /\ folder'[f].key = k
      /\ \A g \in Folders \ {f} : folder'[g] = folder[g]
  BY <1>1, <1>2 DEF TypeOK, RunFolder
<1>4. Grows
  <2>1. \A g : Good(g) => Good(g)'
    BY <1>1, <1>3 DEF Good, Ready
  <2>2. \A i, g : Place(i, g) => Place(i, g)'
    BY <1>1, <1>3 DEF Place, Ready
  <2>. QED
    BY <1>1, <2>1, <2>2 DEF Grows
<1>5. /\ cmd' \in [Slots -> CommandState] /\ OnlyCmd(s) /\ SameCommand(s)
      /\ (s = Orphan /\ cmd'[s] = NoCmd) \/ CmdOK(s)'
      /\ ~Busy(s, "receive")'
      /\ cmd'[s] # NoCmd => cmd'[s].dir = f
  BY <1>1, <1>2, <1>4, DoneThere, ConstantTypes
<1>6. KnownPlaces' /\ OneDir'
  <2>1. \A i \in Keys : \A g : Known(i, g)' => Known(i, g) \/ (i = k /\ g = f)
    BY <1>1, <1>5, ConstantTypes DEF Known, OnlyCmd, SameCommand, CmdKnows, NoCmd, host
  <2>2. Place(k, f)'
    BY <1>1, <1>3 DEF Place
  <2>. QED
    BY <1>1, <1>4, <2>1, <2>2 DEF RunInv, KnownPlaces, OneDir, Grows
<1>7. OneFolder'
  BY <1>1, <1>3 DEF RunInv, OneFolder
<1>8. Receiving'
  <2>1. \A t \in Slots : Busy(t, "receive")' => t # s /\ cmd'[t] = cmd[t] /\ Busy(t, "receive") /\ cmd[t].dir # f
    BY <1>1, <1>5 DEF OnlyCmd, Busy
  <2>2. \A g \in Folders : folder'[g].at = "free" => folder'[g] = NoFolder
    BY <1>3 DEF RunInv, Receiving
  <2>3. \A t \in Slots : Busy(t, "receive")' =>
            /\ cmd'[t].dir \in Folders /\ folder'[cmd'[t].dir].at = "half"
            /\ folder'[cmd'[t].dir].key = cmd'[t].key
    BY <1>3, <2>1 DEF RunInv, Receiving
  <2>4. \A t, u \in Slots : Busy(t, "receive")' /\ Busy(u, "receive")' /\ cmd'[t].key = cmd'[u].key => t = u
    BY <2>1 DEF RunInv, Receiving
  <2>. QED
    BY <2>2, <2>3, <2>4 DEF Receiving
<1>9. JobFolders' /\ OneJob' /\ NeverFromRedacted'
  BY <1>1, <1>4 DEF RunInv, JobFolders, Grows, OneJob, NeverFromRedacted
<1>. QED
  BY <1>1, <1>3, <1>4, <1>5, <1>6, <1>7, <1>8, <1>9, CommandStep DEF RunInv, TypeOK, Gone

(* A folder that nobody knows of goes: half an upload.                     *)
LEMMA HalfGoes ==
    ASSUME RunInv, NEW f \in Folders, folder[f].at = "half", folder' = [folder EXCEPT ![f] = NoFolder],
           UNCHANGED <<asks, jobs>>
    PROVE  /\ folder' \in [Folders -> RunFolder] /\ Grows /\ OneFolder'
           /\ JobFolders' /\ OneJob' /\ NeverFromRedacted'
           /\ \A g \in Folders : folder'[g].at = "free" => folder'[g] = NoFolder
           /\ \A g \in Folders \ {f} : folder'[g] = folder[g]
<1>1. TypeOK /\ NoFolder.key = None /\ NoFolder.at = "free"
  BY DEF RunInv, NoFolder
<1>2. /\ folder' \in [Folders -> RunFolder] /\ folder'[f] = NoFolder
      /\ \A g \in Folders \ {f} : folder'[g] = folder[g]
  BY <1>1, BlankRecords DEF TypeOK
<1>3. Grows
  <2>1. \A g : Good(g) => Good(g)'
    BY <1>2 DEF Good, Ready
  <2>2. \A i, g : Place(i, g) => Place(i, g)'
    BY <1>2 DEF Place, Ready
  <2>. QED
    BY <2>1, <2>2 DEF Grows
<1>4. OneFolder'
  BY <1>1, <1>2 DEF RunInv, OneFolder
<1>5. JobFolders' /\ OneJob' /\ NeverFromRedacted'
  BY <1>3 DEF RunInv, JobFolders, Grows, OneJob, NeverFromRedacted
<1>6. \A g \in Folders : folder'[g].at = "free" => folder'[g] = NoFolder
  BY <1>2 DEF RunInv, Receiving
<1>. QED
  BY <1>2, <1>3, <1>4, <1>5, <1>6

LEMMA ReceiveBreaksKeeps ==
    ASSUME RunInv, NEW s \in Slots, ReceiveBreaks(s) PROVE RunInv'
<1>. PICK k \in Keys, f \in Folders : k = cmd[s].key /\ f = cmd[s].dir
  BY Uploading DEF ReceiveBreaks
<1>1. /\ TypeOK /\ cmd[s].what = "receive" /\ cmd[s].at = "busy" /\ folder[f].at = "half"
      /\ \A t \in Slots \ {s} : Busy(t, "receive") => cmd[t].dir # f
      /\ UNCHANGED <<host, driver, jobs, gc, lost>> /\ UNCHANGED asks
  BY Uploading DEF ReceiveBreaks, Busy, host
<1>2. folder' = [folder EXCEPT ![f] = NoFolder] /\ Answer(s, "refused")
  BY DEF ReceiveBreaks
<1>3. /\ folder' \in [Folders -> RunFolder] /\ Grows /\ OneFolder'
      /\ JobFolders' /\ OneJob' /\ NeverFromRedacted'
      /\ \A g \in Folders : folder'[g].at = "free" => folder'[g] = NoFolder
      /\ \A g \in Folders \ {f} : folder'[g] = folder[g]
  BY <1>1, <1>2, HalfGoes
<1>4. /\ cmd' \in [Slots -> CommandState] /\ OnlyCmd(s) /\ SameCommand(s)
      /\ (s = Orphan /\ cmd'[s] = NoCmd) \/ CmdOK(s)'
      /\ ~Busy(s, "receive")'
      /\ cmd'[s] # NoCmd /\ CmdKnows(s)' => CmdKnows(s) /\ cmd'[s].dir = cmd[s].dir
  BY <1>1, <1>2, <1>3, Refusal
<1>5. ~CmdKnows(s)
  BY <1>1 DEF CmdKnows
<1>6. KnownPlaces' /\ OneDir'
  <2>1. LessKnown
    BY <1>1, <1>4, <1>5, ConstantTypes DEF LessKnown, Known, OnlyCmd, CmdKnows, NoCmd, host
  <2>. QED
    BY <1>3, <2>1, PlacesKept
<1>7. Receiving'
  <2>1. \A t \in Slots : Busy(t, "receive")' => t # s /\ cmd'[t] = cmd[t] /\ Busy(t, "receive") /\ cmd[t].dir # f
    BY <1>1, <1>4 DEF OnlyCmd, Busy
  <2>2. \A t \in Slots : Busy(t, "receive")' =>
            /\ cmd'[t].dir \in Folders /\ folder'[cmd'[t].dir].at = "half"
            /\ folder'[cmd'[t].dir].key = cmd'[t].key
    BY <1>3, <2>1 DEF RunInv, Receiving
  <2>3. \A t, u \in Slots : Busy(t, "receive")' /\ Busy(u, "receive")' /\ cmd'[t].key = cmd'[u].key => t = u
    BY <2>1 DEF RunInv, Receiving
  <2>. QED
    BY <1>3, <2>2, <2>3 DEF Receiving
<1>. QED
  BY <1>1, <1>3, <1>4, <1>6, <1>7, CommandStep DEF RunInv, TypeOK, Gone

LEMMA PrepareRunsKeeps ==
    ASSUME RunInv, NEW s \in Slots, NEW ok \in BOOLEAN, PrepareRuns(s, ok) PROVE RunInv'
<1>1. cmd[s].what = "prepare" /\ UNCHANGED <<host, driver, jobs, gc, lost>> /\ UNCHANGED asks
  BY DEF PrepareRuns, Arrived, host
<1>. PICK k \in Keys, f \in Folders : k = cmd[s].key /\ f = cmd[s].dir
  BY <1>1, AtWork DEF CmdKnows
<1>2. TypeOK /\ Known(k, f) /\ folder[f] \in RunFolder
  BY <1>1, AtWork, Fields DEF CmdKnows
<1>3. folder[f].at = "whole" /\ Usable(f)
  BY <1>2 DEF RunInv, KnownPlaces, Place, Usable
<1>4. CASE ok
  <2>1. folder' = [folder EXCEPT ![f] = [folder[f] EXCEPT !.prepared = TRUE]] /\ Done(s, f, 0)
    BY <1>3, <1>4 DEF PrepareRuns
  <2>2. /\ folder' \in [Folders -> RunFolder] /\ folder'[f].at = "whole" /\ folder'[f].key = folder[f].key
        /\ folder'[f].prepared /\ \A g \in Folders \ {f} : folder'[g] = folder[g]
    BY <1>2, <1>3, <2>1 DEF TypeOK, RunFolder
  <2>3. Grows
    <3>1. \A g : Good(g) => Good(g)'
      BY <1>1, <2>2 DEF Good, Ready
    <3>2. \A i, g : Place(i, g) => Place(i, g)'
      BY <1>1, <2>2 DEF Place, Ready
    <3>. QED
      BY <1>1, <3>1, <3>2 DEF Grows
  <2>4. Good(f)'
    BY <2>2 DEF Good, Ready
  <2>5. /\ cmd' \in [Slots -> CommandState] /\ OnlyCmd(s) /\ SameCommand(s)
        /\ (s = Orphan /\ cmd'[s] = NoCmd) \/ CmdOK(s)'
        /\ ~Busy(s, "receive")'
        /\ cmd'[s] # NoCmd => cmd'[s].dir = f
    BY <1>1, <2>1, <2>3, <2>4, DoneThere, ConstantTypes
  <2>6. KnownPlaces' /\ OneDir'
    <3>1. LessKnown
      BY <1>1, <1>2, <2>5, ConstantTypes DEF LessKnown, Known, OnlyCmd, SameCommand, CmdKnows, NoCmd, host
    <3>. QED
      BY <2>3, <3>1, PlacesKept
  <2>7. OneFolder'
    BY <2>2 DEF RunInv, OneFolder
  <2>8. Receiving'
    <3>1. \A t \in Slots : Busy(t, "receive")' => cmd'[t] = cmd[t] /\ Busy(t, "receive")
      BY <2>5 DEF OnlyCmd, Busy
    <3>2. \A g \in Folders : folder'[g].at = folder[g].at /\ folder'[g].key = folder[g].key
      BY <1>3, <2>2
    <3>3. \A g \in Folders : folder'[g].at = "free" => folder'[g] = NoFolder
      BY <2>2 DEF RunInv, Receiving
    <3>. QED
      BY <3>1, <3>2, <3>3 DEF RunInv, Receiving
  <2>9. JobFolders' /\ OneJob' /\ NeverFromRedacted'
    BY <1>1, <2>3 DEF RunInv, JobFolders, Grows, OneJob, NeverFromRedacted
  <2>. QED
    BY <1>1, <1>2, <2>2, <2>3, <2>5, <2>6, <2>7, <2>8, <2>9, CommandStep DEF TypeOK, Gone
<1>5. CASE ~ok
  <2>1. Answer(s, "refused") /\ UNCHANGED folder
    BY <1>5 DEF PrepareRuns
  <2>. QED
    BY <1>1, <2>1, RefusalKeeps DEF worker
<1>. QED
  BY <1>4, <1>5

LEMMA UpdateStartsKeeps ==
    ASSUME RunInv, NEW s \in Slots, UpdateStarts(s) PROVE RunInv'
<1>1. cmd[s].what = "update" /\ UNCHANGED <<host, driver, worker, lost>>
  BY DEF UpdateStarts, Arrived
<1>2. /\ TypeOK /\ cmd[s] \in CommandState /\ CmdOK(s) /\ CmdKnows(s) /\ Known(cmd[s].key, cmd[s].dir)
      /\ cmd[s].key \in Keys
  BY <1>1, AtWork DEF CmdKnows
<1>3. CASE cmd' = [cmd EXCEPT ![s].at = "busy"]
  <2>1. /\ cmd' \in [Slots -> CommandState] /\ OnlyCmd(s) /\ cmd'[s].at = "busy" /\ cmd'[s].what = "update"
        /\ cmd'[s].key = cmd[s].key /\ cmd'[s].dir = cmd[s].dir /\ cmd'[s].redacted = cmd[s].redacted
    <3>1. cmd' = [cmd EXCEPT ![s] = [cmd[s] EXCEPT !.at = "busy"]]
      BY <1>3
    <3>. QED
      BY <1>1, <1>2, <3>1 DEF TypeOK, CommandState, OnlyCmd
  <2>2. SameCommand(s) /\ CmdOK(s)' /\ ~Busy(s, "receive")'
    BY <1>1, <1>2, <2>1, ConstantTypes DEF SameCommand, CmdOK, CmdKnows, Busy
  <2>. QED
    BY <1>1, <1>2, <2>1, <2>2, CommandOnly
<1>4. CASE Answer(s, "refused")
  BY <1>1, <1>4, RefusalKeeps
<1>. QED
  BY <1>3, <1>4 DEF UpdateStarts

LEMMA UpdateEndsKeeps ==
    ASSUME RunInv, NEW s \in Slots, NEW ok \in BOOLEAN, UpdateEnds(s, ok) PROVE RunInv'
<1>1. cmd[s].what = "update" /\ UNCHANGED <<host, driver, worker, lost>>
  BY DEF UpdateEnds, Busy
<1>2. CmdKnows(s) /\ Known(cmd[s].key, cmd[s].dir) /\ cmd[s].dir \in Folders
  BY <1>1, AtWork DEF CmdKnows
<1>3. CASE Done(s, cmd[s].dir, 0)
  <2>. PICK f \in Folders : f = cmd[s].dir
    BY <1>2
  <2>1. Done(s, f, 0) /\ Grows
    BY <1>1, <1>3, SameAsks, HostFrame DEF host, worker
  <2>2. /\ cmd' \in [Slots -> CommandState] /\ OnlyCmd(s) /\ SameCommand(s)
        /\ (s = Orphan /\ cmd'[s] = NoCmd) \/ CmdOK(s)'
        /\ ~Busy(s, "receive")'
        /\ cmd'[s] # NoCmd => cmd'[s].dir = f
    BY <1>1, <2>1, DoneThere, ConstantTypes
  <2>. QED
    BY <1>1, <1>2, <2>2, CommandOnly
<1>4. CASE Answer(s, "refused")
  BY <1>1, <1>4, RefusalKeeps
<1>. QED
  BY <1>3, <1>4 DEF UpdateEnds

(* The history grows by a job, whose key is new or none.                   *)
LEMMA NewJobs ==
    ASSUME RunInv, NEW k \in Keys \cup {None}, k # None => ~HasJob(k), NEW dir, Good(dir),
           Len(jobs) < MaxJobs, jobs' = Append(jobs, NewJob(k, dir, FALSE)), UNCHANGED <<folder, asks>>
    PROVE  /\ jobs' \in Seq(Job) /\ Len(jobs') <= MaxJobs /\ Len(jobs') \in 0..MaxJobs /\ Len(jobs') \in DOMAIN jobs'
           /\ jobs'[Len(jobs')].key = k /\ jobs'[Len(jobs')].dir = dir
           /\ \A j \in DOMAIN jobs' : j = Len(jobs') \/ (j \in DOMAIN jobs /\ jobs'[j] = jobs[j])
           /\ Grows /\ OneFolder' /\ JobFolders' /\ OneJob' /\ NeverFromRedacted'
           /\ \A i : Gone(i)' => Gone(i)
<1>. DEFINE new == NewJob(k, dir, FALSE)
<1>0. new \in Job /\ new.key = k /\ new.dir = dir /\ new.at = "queued" /\ new.redacted = FALSE
  BY DEF NewJob, Job, Good
<1>. HIDE DEF new
<1>. PICK n \in Job : n = new /\ n.key = k /\ n.dir = dir /\ n.at = "queued" /\ n.redacted = FALSE
  BY <1>0
<1>1. /\ jobs' \in Seq(Job) /\ Len(jobs') <= MaxJobs /\ Len(jobs') \in 0..MaxJobs /\ Len(jobs') \in DOMAIN jobs'
      /\ DOMAIN jobs' = DOMAIN jobs \cup {Len(jobs')} /\ jobs'[Len(jobs')] = n
      /\ \A j \in DOMAIN jobs : jobs'[j] = jobs[j]
  BY JobAppended DEF RunInv, new
<1>2. \A j \in DOMAIN jobs' : j = Len(jobs') \/ (j \in DOMAIN jobs /\ jobs'[j] = jobs[j])
  BY <1>1
<1>3. Grows
  <2>1. \A g : Good(g) => Good(g)'
    BY DEF Good, Ready
  <2>2. \A i, g : Place(i, g) => Place(i, g)'
    BY DEF Place, Ready
  <2>. QED
    BY <1>1, <2>1, <2>2 DEF Grows
<1>4. JobFolders'
  BY <1>1, <1>2, <1>3 DEF RunInv, JobFolders, Grows
<1>5. OneJob'
  <2>. SUFFICES ASSUME NEW i \in DOMAIN jobs', NEW j \in DOMAIN jobs',
                       jobs'[i].key = jobs'[j].key, jobs'[i].key # None
                PROVE  i = j
    BY DEF OneJob
  <2>1. CASE i \in DOMAIN jobs /\ j \in DOMAIN jobs
    BY <1>1, <2>1 DEF RunInv, OneJob
  <2>2. CASE i = Len(jobs') \/ j = Len(jobs')
    <3>1. jobs'[i].key = k /\ jobs'[j].key = k /\ k # None
      BY <1>1, <2>2
    <3>2. \A h \in DOMAIN jobs : jobs'[h].key # k
      BY <1>1, <3>1 DEF HasJob
    <3>. QED
      BY <1>2, <3>1, <3>2
  <2>. QED
    BY <1>2, <2>1, <2>2
<1>6. NeverFromRedacted'
  <2>. SUFFICES ASSUME NEW j \in DOMAIN jobs' PROVE ~jobs'[j].redacted
    BY DEF NeverFromRedacted
  <2>1. CASE j = Len(jobs')
    BY <1>1, <2>1
  <2>2. CASE j \in DOMAIN jobs /\ jobs'[j] = jobs[j]
    BY <2>2 DEF RunInv, NeverFromRedacted
  <2>. QED
    BY <1>2, <2>1, <2>2
<1>7. \A i : Gone(i)' => Gone(i)
  <2>. SUFFICES ASSUME NEW i, NEW j \in DOMAIN jobs', jobs'[j].at = "gone", jobs'[j].key = i
                PROVE  \E h \in DOMAIN jobs : jobs[h].at = "gone" /\ jobs[h].key = i
    BY DEF Gone
  <2>1. j # Len(jobs')
    BY <1>1
  <2>. QED
    BY <1>2, <2>1
<1>. QED
  BY <1>1, <1>2, <1>3, <1>4, <1>5, <1>6, <1>7 DEF RunInv, OneFolder

(* `qur add --run-key` finds the job of its key, or makes it.              *)
LEMMA AddRunsKeeps ==
    ASSUME RunInv, NEW s \in Slots, NEW ok \in BOOLEAN, AddRuns(s, ok) PROVE RunInv'
<1>1. cmd[s].what = "add" /\ UNCHANGED <<host, driver, folder, gc, lost>> /\ UNCHANGED asks
  BY DEF AddRuns, Arrived, host
<1>. PICK k \in Keys, f \in Folders : k = cmd[s].key /\ f = cmd[s].dir
  BY <1>1, AtWork DEF CmdKnows
<1>2. TypeOK /\ Known(k, f) /\ CmdOK(s) /\ ~Gone(k) /\ Good(f) /\ cmd[s] \in CommandState
  BY <1>1, AtWork DEF CmdKnows, CmdOK
<1>3. ASSUME NEW id \in 0..MaxJobs, Done(s, f, id), Grows,
             jobs' \in Seq(Job), Len(jobs') <= MaxJobs,
             id \in DOMAIN jobs', jobs'[id].key = k, jobs'[id].dir = f,
             \A j \in DOMAIN jobs' : (j \in DOMAIN jobs /\ jobs'[j] = jobs[j]) \/ (jobs'[j].key = k /\ jobs'[j].dir = f),
             OneFolder', JobFolders', OneJob', NeverFromRedacted', \A i : Gone(i)' => Gone(i)
      PROVE  RunInv'
  <2>1. Good(f)'
    BY <1>2, <1>3 DEF Grows
  <2>2. /\ cmd' \in [Slots -> CommandState] /\ OnlyCmd(s) /\ SameCommand(s)
        /\ (s = Orphan /\ cmd'[s] = NoCmd) \/ CmdOK(s)'
        /\ ~Busy(s, "receive")'
        /\ cmd'[s] # NoCmd => cmd'[s].dir = f
    BY <1>1, <1>3, <2>1, DoneThere
  <2>3. KnownPlaces' /\ OneDir'
    <3>1. LessKnown
      BY <1>1, <1>2, <1>3, <2>2, ConstantTypes DEF LessKnown, Known, OnlyCmd, SameCommand, CmdKnows, NoCmd, host
    <3>. QED
      BY <1>3, <3>1, PlacesKept
  <2>4. Receiving'
    <3>1. \A t \in Slots : Busy(t, "receive")' => cmd'[t] = cmd[t] /\ Busy(t, "receive")
      BY <2>2 DEF OnlyCmd, Busy
    <3>. QED
      BY <1>1, <3>1 DEF RunInv, Receiving
  <2>. QED
    BY <1>1, <1>2, <1>3, <2>2, <2>3, <2>4, CommandStep DEF TypeOK
<1>4. CASE ~ok
  <2>1. Answer(s, "refused") /\ UNCHANGED jobs
    BY <1>4 DEF AddRuns
  <2>. QED
    BY <1>1, <2>1, RefusalKeeps DEF worker
<1>5. CASE ok /\ JobsOf(k) # {}
  <2>. PICK j \in JobsOf(k) : j = Min(JobsOf(k))
    BY <1>2, <1>5, TheJob DEF RunInv
  <2>1. Done(s, f, j) /\ UNCHANGED jobs
    BY <1>2, <1>5 DEF AddRuns, Existing, Good, Usable
  <2>2. j \in DOMAIN jobs /\ jobs[j].key = k /\ j \in 0..MaxJobs
    BY <1>2, ConstantTypes DEF JobsOf, Rows, TypeOK
  <2>3. jobs[j].dir = f
    <3>1. Known(k, jobs[j].dir)
      BY <1>2, <2>2, Fields DEF Known
    <3>. QED
      BY <1>2, <3>1 DEF RunInv, OneDir
  <2>4. Grows /\ OneFolder' /\ JobFolders' /\ OneJob' /\ NeverFromRedacted'
    BY <1>1, <2>1, SameAsks, HostFrame
  <2>5. \A i : Gone(i)' => Gone(i)
    BY <2>1 DEF Gone
  <2>. QED
    BY <1>2, <1>3, <2>1, <2>2, <2>3, <2>4, <2>5 DEF TypeOK
<1>6. CASE ok /\ JobsOf(k) = {}
  <2>1. ~HasJob(k)
    BY <1>2, <1>6 DEF HasJob, JobsOf, Rows, Gone
  <2>2. cmd[s].redacted = FALSE
    BY <1>2, <2>1 DEF RunInv, Redacted, CommandState
  <2>3. Len(jobs) < MaxJobs /\ jobs' = Append(jobs, NewJob(k, f, FALSE)) /\ Done(s, f, Len(jobs'))
    BY <1>2, <1>6, <2>2 DEF AddRuns, Existing, Good, Usable
  <2>4. /\ jobs' \in Seq(Job) /\ Len(jobs') <= MaxJobs /\ Len(jobs') \in 0..MaxJobs /\ Len(jobs') \in DOMAIN jobs'
        /\ jobs'[Len(jobs')].key = k /\ jobs'[Len(jobs')].dir = f
        /\ \A j \in DOMAIN jobs' : j = Len(jobs') \/ (j \in DOMAIN jobs /\ jobs'[j] = jobs[j])
        /\ Grows /\ OneFolder' /\ JobFolders' /\ OneJob' /\ NeverFromRedacted'
        /\ \A i : Gone(i)' => Gone(i)
    BY <1>1, <1>2, <2>1, <2>3, NewJobs
  <2>5. \A j \in DOMAIN jobs' : (j \in DOMAIN jobs /\ jobs'[j] = jobs[j]) \/ (jobs'[j].key = k /\ jobs'[j].dir = f)
    BY <2>4
  <2>. QED
    BY <1>3, <2>3, <2>4, <2>5
<1>. QED
  BY <1>4, <1>5, <1>6

(* A command that never reached the worker.                                *)
LEMMA OrphanVanishesKeeps ==
    ASSUME RunInv, OrphanVanishes PROVE RunInv'
<1>1. cmd[Orphan].at = "sent" /\ cmd' = [cmd EXCEPT ![Orphan] = NoCmd] /\ Orphan \in Slots /\ TypeOK
      /\ UNCHANGED <<host, driver, worker, lost>>
  BY ConstantTypes DEF OrphanVanishes, RunInv
<1>2. cmd[Orphan].what # "none"
  BY <1>1 DEF RunInv, CmdSteps, CmdOK, NoCmd
<1>3. cmd' \in [Slots -> CommandState] /\ cmd'[Orphan] = NoCmd /\ OnlyCmd(Orphan)
  BY <1>1, BlankRecords DEF TypeOK, OnlyCmd
<1>4. SameCommand(Orphan) /\ ~Busy(Orphan, "receive")'
  BY <1>3 DEF SameCommand, Busy, NoCmd
<1>. QED
  BY <1>1, <1>2, <1>3, <1>4, CommandOnly

(* A step of the worker's queue and history.                               *)
LEMMA HistoryStep ==
    ASSUME RunInv, UNCHANGED <<host, driver, cmd, folder, lost>>, gc' \subseteq Folders,
           jobs' \in Seq(Job), Len(jobs') <= MaxJobs,
           \A j \in DOMAIN jobs : j \in DOMAIN jobs' /\ jobs'[j].key = jobs[j].key /\ jobs'[j].dir = jobs[j].dir,
           \A k \in Keys : \A j \in DOMAIN jobs' : jobs'[j].key = k =>
              \E i \in DOMAIN jobs : jobs[i].key = k /\ jobs[i].dir = jobs'[j].dir,
           JobFolders', OneJob', NeverFromRedacted',
           \A k \in Keys : Gone(k)' => AtRest(k)
    PROVE  RunInv'
<1>1. TypeOK' /\ UNCHANGED <<row, saved, asks, payload, driver, cmd, folder>>
  BY DEF RunInv, TypeOK, host
<1>2. Grows
  <2>1. \A g : Good(g) => Good(g)'
    BY <1>1 DEF Good, Ready
  <2>2. \A i, g : Place(i, g) => Place(i, g)'
    BY <1>1 DEF Place, Ready
  <2>. QED
    BY <2>1, <2>2 DEF Grows
<1>3. KnownPlaces' /\ OneDir'
  <2>1. LessKnown
    BY <1>1 DEF LessKnown, Known, CmdKnows
  <2>. QED
    BY <1>2, <2>1, PlacesKept
<1>4. RowSteps' /\ DriverSteps' /\ CmdSteps'
  BY <1>1, <1>2, RowsSame, DriversSame, CmdsSame DEF RunInv
<1>5. Owners' /\ Receiving' /\ OneFolder'
  BY <1>1 DEF RunInv, Owners, Owns, Receiving, Busy, OneFolder
<1>6. GoneSettled'
  BY <1>1 DEF GoneSettled, AtRest
<1>7. Redacted'
  BY <1>1, <1>2, JobsStay DEF RunInv, Redacted, HasJob
<1>. QED
  BY <1>1, <1>3, <1>4, <1>5, <1>6, <1>7 DEF RunInv

(* A job ends, or its row goes.                                            *)
LEMMA HistoryChanges ==
    ASSUME RunInv, UNCHANGED <<host, driver, cmd, folder, gc, lost>>, NEW j \in DOMAIN jobs,
           NEW at \in {"queued", "ended", "gone"}, jobs' = [jobs EXCEPT ![j].at = at],
           at = "gone" /\ jobs[j].key \in Keys => AtRest(jobs[j].key)
    PROVE  RunInv'
<1>1. /\ jobs' \in Seq(Job) /\ Len(jobs') <= MaxJobs /\ DOMAIN jobs' = DOMAIN jobs
      /\ jobs'[j].at = at /\ jobs'[j].key = jobs[j].key /\ jobs'[j].dir = jobs[j].dir
      /\ jobs'[j].redacted = jobs[j].redacted
      /\ \A i \in DOMAIN jobs \ {j} : jobs'[i] = jobs[i]
  BY JobChanged DEF RunInv, TypeOK
<1>2. \A i \in DOMAIN jobs' : /\ i \in DOMAIN jobs /\ jobs'[i].key = jobs[i].key /\ jobs'[i].dir = jobs[i].dir
                              /\ jobs'[i].redacted = jobs[i].redacted
  BY <1>1
<1>3. JobFolders'
  <2>1. \A g : Good(g) => Good(g)'
    BY DEF Good, Ready, host
  <2>. QED
    BY <1>2, <2>1 DEF RunInv, JobFolders
<1>4. OneJob' /\ NeverFromRedacted'
  BY <1>2 DEF RunInv, OneJob, NeverFromRedacted
<1>5. ASSUME NEW k \in Keys, Gone(k)' PROVE AtRest(k)
  <2>1. PICK i \in DOMAIN jobs' : jobs'[i].at = "gone" /\ jobs'[i].key = k
    BY <1>5 DEF Gone
  <2>2. CASE i = j
    BY <1>1, <2>1, <2>2
  <2>3. CASE i # j
    BY <1>1, <2>1, <2>3 DEF RunInv, GoneSettled, Gone
  <2>. QED
    BY <2>2, <2>3
<1>. QED
  BY <1>1, <1>2, <1>3, <1>4, <1>5, HistoryStep DEF RunInv, TypeOK

LEMMA JobEndsKeeps ==
    ASSUME RunInv, NEW j \in DOMAIN jobs, JobEnds(j) PROVE RunInv'
  BY HistoryChanges DEF JobEnds

LEMMA PrunedKeeps ==
    ASSUME RunInv, Faults = {}, NEW j \in DOMAIN jobs, Pruned(j) PROVE RunInv'
<1>1. jobs[j].key \in Keys => Settled(jobs[j].key)
  BY DEF Pruned
<1>2. jobs[j].key \in Keys => AtRest(jobs[j].key)
  BY <1>1 DEF Settled, AtRest
<1>. QED
  BY <1>2, HistoryChanges DEF Pruned

LEMMA RequeueKeeps ==
    ASSUME RunInv, NEW j \in DOMAIN jobs, Requeue(j) PROVE RunInv'
<1>1. /\ Len(jobs) < MaxJobs /\ jobs' = Append(jobs, NewJob(None, jobs[j].dir, FALSE))
      /\ UNCHANGED <<host, driver, cmd, folder, gc, lost>> /\ UNCHANGED asks
  BY DEF Requeue, RequeuedJob, host
<1>2. Good(jobs[j].dir)
  BY DEF RunInv, JobFolders
<1>3. /\ jobs' \in Seq(Job) /\ Len(jobs') <= MaxJobs
      /\ jobs'[Len(jobs')].key = None
      /\ \A i \in DOMAIN jobs' : i = Len(jobs') \/ (i \in DOMAIN jobs /\ jobs'[i] = jobs[i])
      /\ Grows /\ JobFolders' /\ OneJob' /\ NeverFromRedacted'
      /\ \A i : Gone(i)' => Gone(i)
  BY <1>1, <1>2, NewJobs
<1>4. \A k \in Keys : \A i \in DOMAIN jobs' : jobs'[i].key = k => i \in DOMAIN jobs /\ jobs'[i] = jobs[i]
  BY <1>3, ConstantTypes
<1>5. \A k \in Keys : Gone(k)' => AtRest(k)
  BY <1>3 DEF RunInv, GoneSettled
<1>. QED
  BY <1>1, <1>3, <1>4, <1>5, HistoryStep DEF Grows, RunInv, TypeOK

(* A step that changes neither a job nor a folder.                         *)
LEMMA NothingMoves ==
    ASSUME RunInv, gc' \subseteq Folders, UNCHANGED <<host, driver, cmd, folder, jobs, lost>>
    PROVE  RunInv'
<1>1. \A g : Good(g) => Good(g)'
  BY DEF Good, Ready, host
<1>2. JobFolders' /\ OneJob' /\ NeverFromRedacted'
  BY <1>1 DEF RunInv, JobFolders, OneJob, NeverFromRedacted
<1>3. \A k \in Keys : Gone(k)' => AtRest(k)
  BY DEF RunInv, GoneSettled, Gone
<1>. QED
  BY <1>2, <1>3, HistoryStep DEF RunInv, TypeOK

LEMMA GcStartsKeeps ==
    ASSUME RunInv, GcStarts PROVE RunInv'
<1>1. gc' \subseteq Folders
  BY DEF GcStarts, RunInv, TypeOK
<1>. QED
  BY <1>1, NothingMoves DEF GcStarts

(* A sweep takes half a folder that nobody fills.                          *)
LEMMA LeftoverGoes ==
    ASSUME RunInv, gc' \subseteq Folders, NEW f \in Folders, folder[f].at = "half", ~Filling(f),
           folder' = [folder EXCEPT ![f] = NoFolder], UNCHANGED <<host, driver, cmd, jobs, lost>>
    PROVE  RunInv'
<1>1. /\ TypeOK /\ UNCHANGED <<row, saved, asks, payload>>
      /\ \A s \in Slots : Busy(s, "receive") => cmd[s].dir # f
  BY DEF Filling, host, RunInv
<1>2. /\ folder' \in [Folders -> RunFolder] /\ Grows /\ OneFolder'
      /\ JobFolders' /\ OneJob' /\ NeverFromRedacted'
      /\ \A g \in Folders : folder'[g].at = "free" => folder'[g] = NoFolder
      /\ \A g \in Folders \ {f} : folder'[g] = folder[g]
  BY <1>1, HalfGoes
<1>3. KnownPlaces' /\ OneDir'
  <2>1. LessKnown
    BY <1>1 DEF LessKnown, Known, CmdKnows
  <2>. QED
    BY <1>2, <2>1, PlacesKept
<1>4. RowSteps' /\ DriverSteps' /\ CmdSteps' /\ Owners'
  BY <1>1, <1>2, RowsSame, DriversSame, CmdsSame DEF RunInv, Owners, Owns
<1>5. Receiving'
  <2>1. \A s \in Slots : Busy(s, "receive")' => Busy(s, "receive") /\ cmd'[s] = cmd[s] /\ cmd[s].dir # f
    BY <1>1 DEF Busy
  <2>. QED
    BY <1>2, <2>1 DEF RunInv, Receiving
<1>6. GoneSettled' /\ Redacted'
  BY <1>1 DEF RunInv, GoneSettled, Gone, AtRest, Redacted, HasJob
<1>. QED
  BY <1>1, <1>2, <1>3, <1>4, <1>5, <1>6 DEF RunInv, TypeOK

LEMMA GcLooksKeeps ==
    ASSUME RunInv, Faults = {}, NEW f \in Folders, NEW old \in BOOLEAN, GcLooks(f, old) PROVE RunInv'
<1>1. gc' \subseteq Folders /\ UNCHANGED <<host, driver, cmd, jobs, lost>>
  BY DEF GcLooks, RunInv, TypeOK
<1>2. CASE folder' = folder
  BY <1>1, <1>2, NothingMoves
<1>3. CASE old /\ folder[f].at = "half" /\ ~Filling(f)
  <2>1. folder' = [folder EXCEPT ![f] = NoFolder]
    BY <1>3 DEF GcLooks, Swept
  <2>. QED
    BY <1>1, <1>3, <2>1, LeftoverGoes
<1>4. CASE old /\ ~(folder[f].at = "half" /\ ~Filling(f))
  <2>1. Swept(f) = folder[f]
    BY <1>4 DEF Swept
  <2>2. folder' = folder
    BY <1>4, <2>1 DEF GcLooks, RunInv, TypeOK
  <2>. QED
    BY <1>1, <2>2, NothingMoves
<1>. QED
  BY <1>2, <1>3, <1>4 DEF GcLooks

(* Commands and their drivers end with the machine.                        *)
LEMMA WorkerDiesKeeps ==
    ASSUME RunInv, WorkerDies PROVE RunInv'
<1>. USE BlankRecords, ConstantTypes
<1>1. /\ TypeOK /\ lost' \in 0..MaxLost /\ UNCHANGED <<host, worker>>
      /\ UNCHANGED <<row, saved, asks, payload, folder, jobs, gc>>
      /\ driver' = [d \in Drivers |-> IF cmd[d].at \in {"sent", "busy"} THEN Free ELSE driver[d]]
      /\ cmd' = [s \in Slots |-> IF cmd[s].at \in {"sent", "busy"} THEN NoCmd ELSE cmd[s]]
  BY DEF WorkerDies, RunInv, TypeOK, host, worker
<1>2. HostOnly /\ Grows /\ OneFolder' /\ JobFolders' /\ OneJob' /\ NeverFromRedacted'
  BY <1>1, SameAsks, HostFrame
<1>3. \A s \in Slots : cmd'[s] = IF cmd[s].at \in {"sent", "busy"} THEN NoCmd ELSE cmd[s]
  BY <1>1
<1>4. \A d \in Drivers : driver'[d] = IF cmd[d].at \in {"sent", "busy"} THEN Free ELSE driver[d]
  BY <1>1
<1>5. TypeOK'
  BY <1>1 DEF TypeOK
<1>6. /\ NoCmd.key = None /\ NoCmd.what = "none" /\ NoCmd.at = "none" /\ NoCmd.redacted = FALSE
      /\ Free.key = None /\ Free.redacted = FALSE
  BY DEF NoCmd, Free
<1>7. KnownPlaces' /\ OneDir'
  <2>1. LessKnown
    BY <1>1, <1>3, <1>4, <1>6 DEF LessKnown, Known, CmdKnows
  <2>. QED
    BY <1>2, <2>1, PlacesKept
<1>8. Receiving'
  BY <1>1, <1>3, <1>6 DEF RunInv, Receiving, Busy
<1>9. RowSteps'
  BY <1>1, <1>2, RowsSame DEF RunInv
<1>10. ASSUME NEW s \in Slots PROVE CmdOK(s)'
  <2>1. CASE cmd'[s] = NoCmd
    BY <2>1 DEF CmdOK, CmdKnows, NoCmd
  <2>2. CASE cmd'[s] = cmd[s]
    BY <1>2, <2>2 DEF RunInv, CmdSteps, Grows, CmdOK, CmdKnows
  <2>. QED
    BY <1>3, <2>1, <2>2
<1>11. ASSUME NEW d \in Drivers PROVE DriverOK(d)' /\ Follows(d)' /\ Owns(d)'
  <2>1. CASE driver'[d] = Free /\ cmd'[d] = NoCmd
    BY <2>1 DEF DriverOK, Follows, Owns, Free, NoCmd, Beyond
  <2>2. CASE driver'[d] = driver[d] /\ cmd'[d] = cmd[d]
    <3>1. DriverOK(d)'
      BY <1>2, <2>2, JobsStay DEF RunInv, DriverSteps, DriverOK, Grows
    <3>2. Follows(d)' /\ Owns(d)'
      BY <1>1, <2>2 DEF RunInv, DriverSteps, Follows, Owners, Owns
    <3>. QED
      BY <3>1, <3>2
  <2>. QED
    BY <1>3, <1>4, <2>1, <2>2
<1>12. cmd'[Orphan].at \in {"none", "sent", "busy"}
  BY <1>3, <1>6 DEF RunInv, Owners
<1>13. GoneSettled'
  BY <1>1, <1>3, <1>4, <1>6 DEF RunInv, GoneSettled, Gone, AtRest
<1>14. Redacted'
  <2>1. ASSUME NEW d \in Drivers PROVE (driver[d].redacted => HasJob(driver[d].key))'
    BY <1>1, <1>4, <1>6 DEF RunInv, Redacted, HasJob
  <2>2. ASSUME NEW s \in Slots PROVE (cmd[s].redacted => HasJob(cmd[s].key))'
    BY <1>1, <1>3, <1>6 DEF RunInv, Redacted, HasJob
  <2>. QED
    BY <1>1, <2>1, <2>2 DEF RunInv, Redacted, HasJob
<1>. QED
  BY <1>2, <1>5, <1>7, <1>8, <1>9, <1>10, <1>11, <1>12, <1>13, <1>14 DEF RunInv, DriverSteps, CmdSteps, Owners

----------------------------------------------------------------------------
(* The theorems                                                            *)

LEMMA InitHolds ==
    ASSUME Init PROVE RunInv
<1>1. TypeOK
  BY InitTyped
<1>2. /\ \A k \in Keys : row[k].state = "none" /\ row[k].dir = 0 /\ saved[k] = "none"
      /\ \A d \in Drivers : driver[d] = Free
      /\ \A s \in Slots : cmd[s] = NoCmd
      /\ \A f \in Folders : folder[f] = NoFolder
      /\ DOMAIN jobs = {}
      /\ NoFolder.key = None /\ NoCmd.key = None /\ Free.key = None
  BY DEF Init, NoRow, NoFolder, NoCmd, Free
<1>3. KnownPlaces /\ OneDir
  BY <1>2, ConstantTypes DEF KnownPlaces, OneDir, Known, NoCmd, Free
<1>4. OneFolder /\ Receiving
  BY <1>2 DEF OneFolder, Receiving, Busy, NoCmd
<1>5. RowSteps
  BY <1>2 DEF RowSteps, RowOK, Beyond
<1>6. DriverSteps
  <2>. SUFFICES ASSUME NEW d \in Drivers PROVE DriverOK(d) /\ Follows(d)
    BY DEF DriverSteps
  <2>1. driver[d] = Free /\ Free.key \notin Keys /\ Free.key = None
    BY <1>2, ConstantTypes
  <2>. QED
    BY <2>1, ConstantTypes DEF DriverOK, Follows, Free, Beyond
<1>7. CmdSteps /\ Owners
  <2>1. CmdSteps
    <3>. SUFFICES ASSUME NEW s \in Slots PROVE CmdOK(s)
      BY DEF CmdSteps
    <3>1. cmd[s] = NoCmd
      BY <1>2
    <3>. QED
      BY <3>1 DEF CmdOK, CmdKnows, NoCmd
  <2>2. \A d \in Drivers : Owns(d)
    BY <1>2, ConstantTypes DEF Owns, NoCmd, Free
  <2>. QED
    BY <1>2, <2>1, <2>2, ConstantTypes DEF Owners, NoCmd
<1>8. JobFolders /\ OneJob /\ GoneSettled /\ NeverFromRedacted
  BY <1>2 DEF JobFolders, OneJob, GoneSettled, Gone, NeverFromRedacted
<1>9. Redacted
  BY <1>2 DEF Redacted, Free, NoCmd
<1>. QED
  BY <1>1, <1>3, <1>4, <1>5, <1>6, <1>7, <1>8, <1>9 DEF RunInv

LEMMA NextKeeps ==
    ASSUME RunInv, Faults = {}, [Next]_vars PROVE RunInv'
<1>1. ASSUME UNCHANGED vars PROVE RunInv'
  BY <1>1, NothingMoves DEF vars, worker, RunInv, TypeOK
<1>2. ASSUME NEW s \in Slots, Command(s) PROVE RunInv'
  BY <1>2, ReceiveStartsKeeps, ReceiveEndsKeeps, ReceiveBreaksKeeps, PrepareRunsKeeps, UpdateStartsKeeps,
     UpdateEndsKeeps, AddRunsKeeps DEF Command
<1>3. ASSUME NEW j \in DOMAIN jobs, JobEnds(j) \/ Pruned(j) \/ Requeue(j) PROVE RunInv'
  BY <1>3, JobEndsKeeps, PrunedKeeps, RequeueKeeps
<1>. QED
  BY <1>1, <1>2, <1>3, DriverKeeps, PruneRunFilesKeeps, ForgetRunKeeps, GcStartsKeeps, GcLooksKeeps,
     OrphanVanishesKeeps,
     WorkerDiesKeeps DEF Next

(* Every reachable state has the invariant, whatever is lost or dies, as    *)
(* long as no circumstance of Fault is let in.                              *)
THEOREM RunsInvariant ==
    ASSUME Faults = {} PROVE Spec => []RunInv
<1>1. Init => RunInv
  BY InitHolds
<1>2. RunInv /\ [Next]_vars => RunInv'
  BY NextKeeps
<1>. QED
  BY <1>1, <1>2, PTL DEF Spec

(* Rows, drivers, commands, folders and jobs are well typed.               *)
THEOREM RunTypeCorrect ==
    ASSUME Faults = {} PROVE Spec => []TypeOK
<1>1. RunInv => TypeOK
  BY DEF RunInv
<1>. QED
  BY <1>1, RunsInvariant, PTL

(* A run key makes one job in one folder (remote_run.py:3), however many    *)
(* drivers take it up at once, and whichever answers are lost.              *)
THEOREM RunsMadeOnce ==
    ASSUME Faults = {} PROVE Spec => []MadeOnce
<1>1. RunInv => MadeOnce
  BY DEF RunInv, MadeOnce
<1>. QED
  BY <1>1, RunsInvariant, PTL

(* A job waits in a folder that was received whole and has what its run     *)
(* asked for (remote_worker.py: receive, prepare; `qur add`).               *)
THEOREM JobFoldersWhole ==
    ASSUME Faults = {} PROVE Spec => []JobFolderWhole
<1>1. RunInv => JobFolderWhole
  BY DEF RunInv, JobFolders, Good, JobFolderWhole
<1>. QED
  BY <1>1, RunsInvariant, PTL

(* What the host has recorded of a run is what the worker has.             *)
THEOREM RowsAreTrue ==
    ASSUME Faults = {} PROVE Spec => []RowsTrue
<1>1. ASSUME RunInv PROVE RowsTrue
  <2>. SUFFICES ASSUME NEW k \in Keys
       PROVE  /\ row[k].state \in {"sent", "prepared"} => folder[row[k].dir].at = "whole"
              /\ row[k].state = "prepared" => folder[row[k].dir].at = "whole" /\ Ready(row[k].dir)
              /\ row[k].state = "queued" =>
                   /\ row[k].id \in DOMAIN jobs
                   /\ jobs[row[k].id].key = k /\ jobs[row[k].id].dir = row[k].dir
    BY DEF RowsTrue
  <2>1. RowOK(k) /\ TypeOK
    BY <1>1 DEF RunInv, RowSteps
  <2>2. row[k].state \in Beyond => Known(k, row[k].dir)
    BY <2>1 DEF RowOK, Known
  <2>3. row[k].state \in {"sent", "prepared"} => folder[row[k].dir].at = "whole"
    BY <1>1, <2>2 DEF RunInv, KnownPlaces, Place, Beyond
  <2>4. row[k].state = "prepared" => Ready(row[k].dir)
    BY <2>1 DEF RowOK, Good
  <2>5. row[k].state = "queued" => row[k].id \in DOMAIN jobs /\ jobs[row[k].id].key = k
    BY <2>1 DEF RowOK
  <2>6. row[k].state = "queued" => Known(k, jobs[row[k].id].dir)
    BY <2>1, <2>5, Fields DEF Known
  <2>. QED
    BY <1>1, <2>2, <2>3, <2>4, <2>5, <2>6 DEF RunInv, OneDir, Beyond
<1>2. RunInv => RowsTrue
  BY <1>1
<1>. QED
  BY <1>2, RunsInvariant, PTL

(* Blanked arguments are never needed again (remote_run.py:286).           *)
THEOREM RunsNeverFromRedacted ==
    ASSUME Faults = {} PROVE Spec => []NeverFromRedacted
<1>1. RunInv => NeverFromRedacted
  BY DEF RunInv
<1>. QED
  BY <1>1, RunsInvariant, PTL

=============================================================================
