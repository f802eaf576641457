--------------------------- MODULE EditLockProofs ---------------------------
(***************************************************************************)
(* Proofs about module EditLock, for every number of jobs, processes,      *)
(* editors, edits and restarts and for every LockSecs: nothing changes     *)
(* under an open editor, no edit overwrites another unseen, and a job runs *)
(* with its last settings.                                                 *)
(***************************************************************************)
EXTENDS EditLock, TLAPS

(* An editor knows which job it is for. *)
EditorsHaveJobs == \A p \in Pids : editor[p].at # "off" => editor[p].job \in Jobs

(* A process that asks for a lock has asked for nothing else, and one that  *)
(* has its editor open waits for no answer.                                 *)
OneAsked ==
    /\ \A r, s \in requests : r.what = "lock" /\ s.pid = r.pid => s = r
    /\ \A r \in requests : /\ editor[r.pid].at # "open"
                           /\ r.what = "lock" => editor[r.pid].at \in {"off", "locks"}

(* While an editor has time left, its lock has at least as much: the job    *)
(* waits, with the settings the editor was shown.                           *)
Promised(p) ==
    LET j == editor[p].job
    IN  /\ lock[j].pid = p /\ lock[j].left >= editor[p].left
        /\ status[j] = "queued" /\ starting # j /\ version[j] = editor[p].base

PromisesKept == \A p \in Pids : editor[p].at = "open" /\ editor[p].left > 0 => Promised(p)

Holds(p, j) == lock[j].pid = p /\ lock[j].left > 0

(* Whoever holds the lock knows the settings: in an open editor, and in an  *)
(* edit that is on its way.                                                 *)
HoldersKnow ==
    /\ \A p \in Pids : editor[p].at = "open" /\ Holds(p, editor[p].job) => version[editor[p].job] = editor[p].base
    /\ \A r \in requests : r.what = "edit" /\ Holds(r.pid, r.job) => version[r.job] = r.base

(* The job whose process is being created is queued, and made from its last *)
(* settings.                                                                *)
StartsAsEdited == starting # None => status[starting] = "queued" /\ ran[starting] = version[starting]

EditInv ==
    /\ TypeOK /\ EditorsHaveJobs /\ OneAsked /\ PromisesKept /\ HoldersKnow /\ StartsAsEdited /\ RunsAsEdited

(* Nothing is locked, open or asked for at the start.                       *)
LEMMA EditInitially == ASSUME Init PROVE EditInv
<1>1. TypeOK
  BY EditOK DEF EditOK, Init, TypeOK, Editor, Off, NoLock, None
<1> QED
  BY <1>1 DEF Init, EditInv, EditorsHaveJobs, OneAsked, PromisesKept, HoldersKnow, StartsAsEdited, RunsAsEdited, Off, None

----------------------------------------------------------------------------
(* The editors' steps                                                      *)

(* Whoever has the ids of dead editors.                                     *)
LEMMA IdsChange ==
    ASSUME EditInv, reused' \subseteq Pids, UNCHANGED <<jobs, lock, editor, requests>> PROVE EditInv'
BY DEF EditInv, TypeOK, EditorsHaveJobs, OneAsked, PromisesKept, Promised, HoldersKnow, Holds,
       StartsAsEdited, RunsAsEdited, jobs

(* A lock may go when nothing is promised to an editor of that job.         *)
NotPromised(j) == \A p \in Pids : editor[p].at = "open" /\ editor[p].left > 0 => editor[p].job # j

LockMayGo(j) == lock' = lock \/ (NotPromised(j) /\ lock' = [lock EXCEPT ![j] = NoLock])

(* No promise rests on a lock that does not count.                          *)
LEMMA Lapsed == ASSUME EditInv, NEW j \in Jobs, ~Live(lock[j]) PROVE NotPromised(j)
BY EditOK DEF EditOK, EditInv, TypeOK, Editor, PromisesKept, Promised, NotPromised, Live, PidAlive, None

(* No promise rests on the lock of a process that still waits for an answer. *)
LEMMA Answered == ASSUME EditInv, NEW r \in requests, lock[r.job].pid = r.pid PROVE NotPromised(r.job)
BY DEF EditInv, OneAsked, PromisesKept, Promised, NotPromised

(* So a lock that is cleared was nobody's who lives.                        *)
LEMMA ClearedMayGo == ASSUME EditInv, NEW j \in Jobs, lock' = lock \/ lock' = Cleared(j) PROVE LockMayGo(j)
BY Lapsed DEF Cleared, LockMayGo

(* Fewer processes hold a lock once one has gone.                           *)
LEMMA LockGoes ==
    ASSUME EditInv, NEW j \in Jobs, LockMayGo(j)
    PROVE  /\ lock' \in [Jobs -> [pid : Pids \cup {None}, left : 0..LockSecs]]
           /\ \A i \in Jobs, p \in Pids : Holds(p, i)' => Holds(p, i)
BY EditOK DEF EditOK, EditInv, TypeOK, LockMayGo, NoLock, None, Holds

(* At most one editor ends.                                                 *)
EditorMayEnd == editor' = editor \/ \E p \in Pids : editor' = [editor EXCEPT ![p] = Off]

(* The other editors are as they were.                                      *)
LEMMA EditorEnds ==
    ASSUME EditInv, EditorMayEnd
    PROVE  /\ editor' \in [Pids -> Editor]
           /\ \A p \in Pids : editor'[p] = editor[p] \/ editor'[p].at = "off"
<1>1. Off \in Editor /\ Off.at = "off"
  BY EditOK DEF EditOK, Off, Editor, None
<1> QED
  BY <1>1 DEF EditInv, TypeOK, EditorMayEnd

(* A lock that goes, requests that are answered, an editor that ends.       *)
LEMMA LockOrEditorGoes ==
    ASSUME EditInv, NEW j \in Jobs, LockMayGo(j), EditorMayEnd, requests' \subseteq requests, UNCHANGED <<jobs, reused>>
    PROVE  EditInv'
<1>1. TypeOK' /\ EditorsHaveJobs' /\ OneAsked'
  BY LockGoes, EditorEnds DEF EditInv, TypeOK, EditorsHaveJobs, OneAsked, jobs
<1>2. PromisesKept'
  BY EditorEnds DEF EditInv, TypeOK, EditorsHaveJobs, PromisesKept, Promised, NotPromised, LockMayGo, jobs
<1>3. HoldersKnow'
  BY LockGoes, EditorEnds DEF EditInv, TypeOK, EditorsHaveJobs, HoldersKnow, jobs
<1>4. StartsAsEdited' /\ RunsAsEdited'
  BY DEF EditInv, StartsAsEdited, RunsAsEdited, jobs
<1> QED
  BY <1>1, <1>2, <1>3, <1>4 DEF EditInv

(* What an editor asks for is a request, if it has a job.                   *)
LEMMA RequestTyped ==
    ASSUME EditInv, NEW p \in Pids, editor[p].at # "off", NEW what \in {"lock", "edit", "unlock"}
    PROVE  Request(what, p) \in [what : {"lock", "edit", "unlock"}, pid : Pids, job : Jobs, base : Nat]
BY DEF EditInv, TypeOK, Editor, EditorsHaveJobs, Request

(* A new editor's process has asked for nothing before.                     *)
LEMMA OpensEditorKeeps == ASSUME EditInv, NEW p \in Pids, NEW j \in Jobs, OpensEditor(p, j) PROVE EditInv'
<1>1. [Off EXCEPT !.at = "locks", !.job = j] \in Editor
  <2>1. Off \in Editor
    BY EditOK DEF EditOK, Off, Editor
  <2> QED
    BY <2>1 DEF Editor
<1>2. TypeOK' /\ EditorsHaveJobs'
  BY <1>1 DEF EditInv, TypeOK, EditorsHaveJobs, OpensEditor, Off, jobs
<1>3. OneAsked'
  BY DEF EditInv, TypeOK, OneAsked, OpensEditor, Off
<1>4. PromisesKept' /\ HoldersKnow'
  BY DEF EditInv, TypeOK, PromisesKept, Promised, HoldersKnow, Holds, OpensEditor, Off, jobs
<1>5. StartsAsEdited' /\ RunsAsEdited'
  BY DEF EditInv, StartsAsEdited, RunsAsEdited, OpensEditor, jobs
<1> QED
  BY <1>2, <1>3, <1>4, <1>5 DEF EditInv

(* An open editor knows the settings if its process holds the lock, and so  *)
(* does the edit it sends.                                                  *)
LEMMA SavesKeeps == ASSUME EditInv, NEW p \in Pids, Saves(p) PROVE EditInv'
<1>1. Request("edit", p) \in [what : {"lock", "edit", "unlock"}, pid : Pids, job : Jobs, base : Nat]
  BY RequestTyped DEF Saves
<1>2. TypeOK' /\ EditorsHaveJobs'
  BY <1>1 DEF EditInv, TypeOK, Editor, EditorsHaveJobs, Saves, Sends, EditorAt, jobs
<1>3. OneAsked'
  BY DEF EditInv, TypeOK, Editor, OneAsked, Saves, Sends, EditorAt, Request
<1>4. PromisesKept' /\ HoldersKnow'
  BY DEF EditInv, TypeOK, Editor, PromisesKept, Promised, HoldersKnow, Holds, Saves, Sends, EditorAt, Request, jobs
<1>5. StartsAsEdited' /\ RunsAsEdited'
  BY DEF EditInv, StartsAsEdited, RunsAsEdited, Saves, jobs
<1> QED
  BY <1>2, <1>3, <1>4, <1>5 DEF EditInv

(* An editor that is done, or whose edit was given up or refused, wants to  *)
(* unlock.                                                                  *)
LEMMA WantsUnlock ==
    ASSUME EditInv, NEW p \in Pids, editor[p].at \in {"open", "saves"}, EditorAt(p, "unlocks"),
           requests' \subseteq requests \cup {Request("unlock", p)},
           NEW j \in Jobs, LockMayGo(j), UNCHANGED <<jobs, reused>>
    PROVE  EditInv'
<1>1. Request("unlock", p) \in [what : {"lock", "edit", "unlock"}, pid : Pids, job : Jobs, base : Nat]
  BY RequestTyped
<1>2. editor' \in [Pids -> Editor] /\ EditorsHaveJobs'
  BY DEF EditInv, TypeOK, Editor, EditorsHaveJobs, EditorAt
<1>3. TypeOK'
  BY <1>1, <1>2, LockGoes DEF EditInv, TypeOK, jobs
<1>4. OneAsked'
  BY DEF EditInv, TypeOK, Editor, OneAsked, EditorAt, Request
<1>5. PromisesKept'
  BY DEF EditInv, TypeOK, Editor, EditorsHaveJobs, PromisesKept, Promised, NotPromised, LockMayGo, EditorAt, jobs
<1>6. HoldersKnow'
  BY <1>1, LockGoes DEF EditInv, TypeOK, Editor, EditorsHaveJobs, HoldersKnow, EditorAt, Request, jobs
<1>7. StartsAsEdited' /\ RunsAsEdited'
  BY DEF EditInv, StartsAsEdited, RunsAsEdited, jobs
<1> QED
  BY <1>2, <1>3, <1>4, <1>5, <1>6, <1>7 DEF EditInv

(* Every step of an editor, and of what becomes of its process id.          *)
LEMMA EditorStep ==
    ASSUME EditInv, NEW p \in Pids,
           \/ \E j \in Jobs : OpensEditor(p, j)
           \/ Saves(p) \/ Abandons(p) \/ TimesOut(p) \/ Dies(p) \/ PidTaken(p) \/ PidFreed(p)
    PROVE  EditInv'
<1>1. CASE \E j \in Jobs : OpensEditor(p, j)
  BY <1>1, OpensEditorKeeps
<1>2. CASE Saves(p)
  BY <1>2, SavesKeeps
<1>3. CASE PidTaken(p) \/ PidFreed(p)
  BY <1>3, IdsChange DEF PidTaken, PidFreed, EditInv, TypeOK
<1>4. CASE Abandons(p) \/ TimesOut(p) \/ Dies(p)
  <2>1. editor[p].job \in Jobs /\ LockMayGo(editor[p].job) /\ UNCHANGED <<jobs, reused>>
    BY <1>4 DEF EditInv, EditorsHaveJobs, Abandons, TimesOut, Dies, LockMayGo
  <2>2. CASE editor' = [editor EXCEPT ![p] = Off] /\ UNCHANGED requests
    BY <2>1, <2>2, LockOrEditorGoes DEF EditorMayEnd
  <2>3. CASE editor[p].at \in {"open", "saves"} /\ EditorAt(p, "unlocks") /\ Sends("unlock", p)
    BY <2>1, <2>3, WantsUnlock DEF Sends
  <2> QED
    BY <1>4, <2>2, <2>3 DEF Abandons, TimesOut, Dies
<1> QED
  BY <1>1, <1>2, <1>3, <1>4

----------------------------------------------------------------------------
(* The daemon's answers                                                    *)

(* A lock that is given was free or its holder's own; no editor of another  *)
(* process and no edit under way counts on it.                              *)
LEMMA LockGiven ==
    ASSUME EditInv, NEW r \in requests, r.what = "lock", Editable(r.job), requests' = requests \ {r},
           ~Live(lock[r.job]) \/ lock[r.job].pid = r.pid,
           lock' = [lock EXCEPT ![r.job] = LockRow(r.job, r.pid)],
           IF Waits(r, "locks")
           THEN editor' = [editor EXCEPT ![r.pid].at = "open", ![r.pid].base = version[r.job],
                                         ![r.pid].left = LockSecs]
           ELSE editor' = editor,
           UNCHANGED <<jobs, reused>>
    PROVE  EditInv'
<1>1. r.pid \in Pids /\ r.job \in Jobs
  BY DEF EditInv, TypeOK
<1>2. \A s \in requests' : s.pid # r.pid
  BY DEF EditInv, OneAsked
<1>3. \A p \in Pids \ {r.pid} : editor'[p] = editor[p]
  BY <1>1 DEF EditInv, TypeOK
<1>4. \A j \in Jobs \ {r.job} : lock'[j] = lock[j]
  BY <1>1 DEF EditInv, TypeOK
<1>5. lock'[r.job] = [pid |-> r.pid, left |-> LockSecs]
  BY <1>1 DEF EditInv, TypeOK, LockRow
<1>6. TypeOK'
  <2>1. lock' \in [Jobs -> [pid : Pids \cup {None}, left : 0..LockSecs]]
    BY <1>1, EditOK DEF EditOK, EditInv, TypeOK, LockRow
  <2>2. editor' \in [Pids -> Editor]
    <3>1. LockSecs \in 0..LockSecs /\ version[r.job] \in Nat
      BY <1>1, EditOK DEF EditOK, EditInv, TypeOK
    <3> QED
      BY <1>1, <3>1 DEF EditInv, TypeOK, Editor
  <2> QED
    BY <2>1, <2>2 DEF EditInv, TypeOK, jobs
<1>7. CASE Waits(r, "locks")
  <2>1. /\ editor'[r.pid].at = "open" /\ editor'[r.pid].job = r.job
        /\ editor'[r.pid].base = version[r.job] /\ editor'[r.pid].left = LockSecs
    BY <1>1, <1>7 DEF EditInv, TypeOK, Editor, Waits
  <2>2. EditorsHaveJobs'
    BY <1>1, <1>3, <2>1 DEF EditInv, EditorsHaveJobs
  <2>3. OneAsked'
    BY <1>2, <1>3 DEF EditInv, TypeOK, OneAsked
  <2>4. Promised(r.pid)'
    BY <1>1, <1>5, <2>1, EditOK DEF EditOK, Promised, Editable, jobs
  <2>5. PromisesKept'
    <3> SUFFICES ASSUME NEW p \in Pids \ {r.pid}, editor'[p].at = "open", editor'[p].left > 0 PROVE Promised(p)'
      BY <2>4 DEF PromisesKept
    <3>1. Promised(p) /\ editor[p].job \in Jobs
      BY <1>3 DEF EditInv, PromisesKept, EditorsHaveJobs
    <3>2. editor[p].job # r.job
      BY <1>3, <3>1, EditOK DEF EditOK, EditInv, TypeOK, Editor, Promised, Live, PidAlive, None
    <3> QED
      BY <1>3, <1>4, <3>1, <3>2 DEF Promised, jobs
  <2>6. HoldersKnow'
    BY <1>1, <1>2, <1>3, <1>4, <1>5, <2>1 DEF EditInv, TypeOK, EditorsHaveJobs, HoldersKnow, Holds, jobs
  <2> QED
    BY <1>6, <2>2, <2>3, <2>5, <2>6 DEF EditInv, StartsAsEdited, RunsAsEdited, jobs
<1>8. CASE ~Waits(r, "locks")
  <2>1. EditorsHaveJobs' /\ OneAsked'
    BY <1>8 DEF EditInv, EditorsHaveJobs, OneAsked
  <2>2. editor[r.pid].at # "open"
    BY DEF EditInv, OneAsked
  <2>3. PromisesKept'
    <3> SUFFICES ASSUME NEW p \in Pids \ {r.pid}, editor'[p].at = "open", editor'[p].left > 0 PROVE Promised(p)'
      BY <1>8, <2>2 DEF PromisesKept
    <3>1. Promised(p) /\ editor[p].job \in Jobs
      BY <1>3 DEF EditInv, PromisesKept, EditorsHaveJobs
    <3>2. editor[p].job # r.job
      BY <1>3, <3>1, EditOK DEF EditOK, EditInv, TypeOK, Editor, Promised, Live, PidAlive, None
    <3> QED
      BY <1>3, <1>4, <3>1, <3>2 DEF Promised, jobs
  <2>4. HoldersKnow'
    BY <1>1, <1>2, <1>4, <1>5, <1>8, <2>2 DEF EditInv, TypeOK, EditorsHaveJobs, HoldersKnow, Holds, jobs
  <2> QED
    BY <1>6, <2>1, <2>3, <2>4 DEF EditInv, StartsAsEdited, RunsAsEdited, jobs
<1> QED
  BY <1>7, <1>8

(* A lock is given, or refused: then a stale one may go.                     *)
LEMMA ServeLockKeeps == ASSUME EditInv, NEW r \in requests, ServeLock(r) PROVE EditInv'
<1> DEFINE got == Editable(r.job) /\ (~Live(lock[r.job]) \/ lock[r.job].pid = r.pid) /\ PidAlive(r.pid)
<1>1. r.pid \in Pids /\ r.job \in Jobs
  BY DEF EditInv, TypeOK
<1>2. CASE got
  BY <1>2, LockGiven DEF ServeLock
<1>3. CASE ~got
  <2>1. LockMayGo(r.job)
    BY <1>1, <1>3, ClearedMayGo DEF ServeLock
  <2> QED
    BY <1>1, <1>3, <2>1, LockOrEditorGoes DEF ServeLock, EditorMayEnd
<1> QED
  BY <1>2, <1>3

(* Who asks to unlock has no editor open.                                   *)
LEMMA ServeUnlockKeeps == ASSUME EditInv, NEW r \in requests, ServeUnlock(r) PROVE EditInv'
<1>1. r.pid \in Pids /\ r.job \in Jobs
  BY DEF EditInv, TypeOK
<1>2. LockMayGo(r.job)
  BY Answered DEF ServeUnlock, LockMayGo
<1> QED
  BY <1>1, <1>2, LockOrEditorGoes DEF ServeUnlock, EditorMayEnd

(* An edit that is accepted, with the lock that goes with it: nobody else   *)
(* can count on the settings it replaces.                                   *)
LEMMA Edited ==
    ASSUME EditInv, NEW j \in Jobs, Editable(j), NotPromised(j),
           version' = [version EXCEPT ![j] = @ + 1], lock' = [lock EXCEPT ![j] = NoLock],
           requests' \subseteq requests, EditorMayEnd, UNCHANGED <<status, starting, ran, reused>>
    PROVE  EditInv'
<1>1. LockMayGo(j)
  BY DEF LockMayGo
<1>2. TypeOK' /\ EditorsHaveJobs' /\ OneAsked'
  BY <1>1, LockGoes, EditorEnds DEF EditInv, TypeOK, EditorsHaveJobs, OneAsked
<1>3. \A i \in Jobs \ {j} : lock'[i] = lock[i] /\ version'[i] = version[i]
  BY DEF EditInv, TypeOK
<1>4. PromisesKept'
  BY <1>3, EditorEnds DEF EditInv, EditorsHaveJobs, PromisesKept, Promised, NotPromised
<1>5. \A p \in Pids : ~Holds(p, j)'
  BY DEF EditInv, TypeOK, Holds, NoLock
<1>6. HoldersKnow'
  BY <1>1, <1>3, <1>5, LockGoes, EditorEnds DEF EditInv, TypeOK, EditorsHaveJobs, HoldersKnow
<1>7. StartsAsEdited' /\ RunsAsEdited'
  BY DEF EditInv, TypeOK, StartsAsEdited, RunsAsEdited, Editable
<1> QED
  BY <1>2, <1>4, <1>6, <1>7 DEF EditInv

(* An edit is applied, or refused and its editor told.                      *)
LEMMA ServeEditKeeps == ASSUME EditInv, NEW r \in requests, ServeEdit(r) PROVE EditInv'
<1>1. r.pid \in Pids /\ r.job \in Jobs
  BY DEF EditInv, TypeOK
<1>2. CASE Editable(r.job) /\ HoldsLock(r)
  <2>1. NotPromised(r.job)
    BY <1>2, Answered DEF HoldsLock
  <2> QED
    BY <1>1, <1>2, <2>1, Edited DEF ServeEdit, EditorMayEnd
<1>3. CASE ~(Editable(r.job) /\ HoldsLock(r))
  <2>1. LockMayGo(r.job)
    BY <1>1, <1>3, ClearedMayGo DEF ServeEdit
  <2>2. CASE ~Waits(r, "saves")
    BY <1>1, <1>3, <2>1, <2>2, LockOrEditorGoes DEF ServeEdit, EditorMayEnd, jobs
  <2>3. CASE Waits(r, "saves")
    BY <1>1, <1>3, <2>1, <2>3, WantsUnlock DEF ServeEdit, Waits, jobs
  <2> QED
    BY <2>2, <2>3
<1> QED
  BY <1>2, <1>3

(* An edit by flags finds no live lock.                                     *)
LEMMA FlaggedEditKeeps == ASSUME EditInv, NEW j \in Jobs, FlaggedEdit(j) PROVE EditInv'
<1>1. NotPromised(j)
  BY Lapsed DEF FlaggedEdit, NotLocked
<1> QED
  BY <1>1, Edited DEF FlaggedEdit, EditorMayEnd

(* Taking promises back changes nothing else of an editor.                  *)
LEMMA UnpromisedTyped ==
    ASSUME EditInv, NEW S
    PROVE  /\ Unpromised(S) \in [Pids -> Editor]
           /\ \A p \in Pids : /\ Unpromised(S)[p].at = editor[p].at /\ Unpromised(S)[p].job = editor[p].job
                              /\ Unpromised(S)[p].base = editor[p].base
                              /\ Unpromised(S)[p].left = IF editor[p].job \in S THEN 0 ELSE editor[p].left
<1>1. 0 \in 0..LockSecs
  BY EditOK DEF EditOK
<1> QED
  BY <1>1 DEF EditInv, TypeOK, Editor, Unpromised

(* Whoever removes a job takes the promise back.                            *)
LEMMA RemovedKeeps == ASSUME EditInv, NEW j \in Jobs, Removed(j) PROVE EditInv'
<1>1. TypeOK' /\ EditorsHaveJobs'
  BY UnpromisedTyped, EditOK DEF EditOK, EditInv, TypeOK, EditorsHaveJobs, Removed, NoLock, None
<1>2. OneAsked'
  BY DEF EditInv, TypeOK, Editor, OneAsked, Removed, Unpromised
<1>3. PromisesKept'
  BY DEF EditInv, TypeOK, Editor, EditorsHaveJobs, PromisesKept, Promised, Removed, Unpromised
<1>4. HoldersKnow'
  BY EditOK DEF EditOK, EditInv, TypeOK, Editor, EditorsHaveJobs, HoldersKnow, Holds, Removed, Unpromised, NoLock, None
<1>5. StartsAsEdited' /\ RunsAsEdited'
  BY DEF EditInv, TypeOK, StartsAsEdited, RunsAsEdited, Removed, Editable
<1> QED
  BY <1>1, <1>2, <1>3, <1>4, <1>5 DEF EditInv

(* A look clears a stale lock only.                                         *)
LEMMA LookedKeeps == ASSUME EditInv, NEW j \in Jobs, Looked(j) PROVE EditInv'
BY ClearedMayGo, LockOrEditorGoes DEF Looked, EditorMayEnd

----------------------------------------------------------------------------
(* The worker, time and restarts                                           *)

(* A job that starts is under no editor's live lock.                        *)
LEMMA StartsKeeps == ASSUME EditInv, NEW j \in Jobs, Starts(j) PROVE EditInv'
<1>1. status[j] = "queued" /\ starting = None /\ LockMayGo(j) /\ NotPromised(j)
  BY ClearedMayGo, Lapsed DEF Starts, Busy, IsHead, Queued, MayStart
<1>2. TypeOK' /\ EditorsHaveJobs' /\ OneAsked'
  BY <1>1, LockGoes DEF EditInv, TypeOK, EditorsHaveJobs, OneAsked, Starts
<1>3. PromisesKept'
  BY <1>1 DEF EditInv, TypeOK, EditorsHaveJobs, PromisesKept, Promised, NotPromised, LockMayGo, Starts
<1>4. HoldersKnow'
  BY <1>1, LockGoes DEF EditInv, TypeOK, EditorsHaveJobs, HoldersKnow, Starts
<1>5. StartsAsEdited' /\ RunsAsEdited'
  BY <1>1 DEF EditInv, TypeOK, StartsAsEdited, RunsAsEdited, Starts
<1> QED
  BY <1>2, <1>3, <1>4, <1>5 DEF EditInv

(* The job whose process was made is under no promise.                      *)
LEMMA StartedKeeps == ASSUME EditInv, NEW ok \in BOOLEAN, Started(ok) PROVE EditInv'
<1>1. starting \in Jobs /\ status[starting] = "queued" /\ ran[starting] = version[starting]
  BY DEF EditInv, TypeOK, StartsAsEdited, Started
<1>2. NotPromised(starting) /\ LockMayGo(starting)
  BY DEF EditInv, PromisesKept, Promised, NotPromised, LockMayGo, Started
<1>3. TypeOK' /\ EditorsHaveJobs' /\ OneAsked'
  BY <1>1, <1>2, LockGoes DEF EditInv, TypeOK, EditorsHaveJobs, OneAsked, Started
<1>4. PromisesKept'
  BY <1>1, <1>2, EditOK DEF EditOK, EditInv, TypeOK, EditorsHaveJobs, PromisesKept, Promised, NotPromised, LockMayGo,
                            None, Started
<1>5. HoldersKnow'
  BY <1>1, <1>2, LockGoes DEF EditInv, TypeOK, EditorsHaveJobs, HoldersKnow, Started
<1>6. StartsAsEdited' /\ RunsAsEdited'
  BY <1>1 DEF EditInv, TypeOK, StartsAsEdited, RunsAsEdited, Started
<1> QED
  BY <1>3, <1>4, <1>5, <1>6 DEF EditInv

(* A job that runs has no editor with time left.                            *)
LEMMA EndsKeeps == ASSUME EditInv, NEW j \in Jobs, Ends(j) PROVE EditInv'
BY DEF EditInv, TypeOK, EditorsHaveJobs, OneAsked, PromisesKept, Promised, HoldersKnow, Holds, StartsAsEdited,
       RunsAsEdited, Ends

(* Locks and promises run down together.                                    *)
LEMMA TickKeeps == ASSUME EditInv, Tick PROVE EditInv'
<1>1. \A n \in 0..LockSecs : Less(n) \in 0..LockSecs /\ (Less(n) > 0 => n > 0)
  BY EditOK DEF EditOK, Less
<1>2. \A m, n \in 0..LockSecs : m >= n => Less(m) >= Less(n)
  BY EditOK DEF EditOK, Less
<1>3. UNCHANGED <<status, version, starting, ran, reused, requests>>
  BY DEF Tick, jobs
<1>4. /\ lock' \in [Jobs -> [pid : Pids \cup {None}, left : 0..LockSecs]]
      /\ \A j \in Jobs : lock'[j].pid = lock[j].pid /\ lock'[j].left = Less(lock[j].left)
  BY <1>1 DEF EditInv, TypeOK, Tick
<1>5. /\ editor' \in [Pids -> Editor]
      /\ \A p \in Pids : /\ editor'[p].at = editor[p].at /\ editor'[p].job = editor[p].job
                         /\ editor'[p].base = editor[p].base /\ editor'[p].left = Less(editor[p].left)
  BY <1>1, ZenonT(30) DEF EditInv, TypeOK, Editor, Tick
<1>6. TypeOK' /\ EditorsHaveJobs' /\ OneAsked'
  BY <1>3, <1>4, <1>5 DEF EditInv, TypeOK, EditorsHaveJobs, OneAsked
<1>7. PromisesKept'
  <2> SUFFICES ASSUME NEW p \in Pids, editor'[p].at = "open", editor'[p].left > 0 PROVE Promised(p)'
    BY DEF PromisesKept
  <2>1. editor[p].left \in 0..LockSecs /\ editor[p].job \in Jobs /\ Promised(p)
    BY <1>1, <1>5 DEF EditInv, TypeOK, Editor, EditorsHaveJobs, PromisesKept
  <2>2. lock[editor[p].job].left \in 0..LockSecs
    BY <2>1 DEF EditInv, TypeOK
  <2> QED
    BY <1>2, <1>3, <1>4, <1>5, <2>1, <2>2 DEF Promised
<1>8. HoldersKnow'
  <2>1. \A j \in Jobs, p \in Pids : Holds(p, j)' => Holds(p, j)
    BY <1>1, <1>4 DEF EditInv, TypeOK, Holds
  <2> QED
    BY <1>3, <1>5, <2>1 DEF EditInv, TypeOK, EditorsHaveJobs, HoldersKnow
<1>9. StartsAsEdited' /\ RunsAsEdited'
  BY <1>3 DEF EditInv, StartsAsEdited, RunsAsEdited
<1> QED
  BY <1>6, <1>7, <1>8, <1>9 DEF EditInv

(* A restart leaves no lock, no request and no promise.                     *)
LEMMA RestartsKeeps == ASSUME EditInv, Restarts PROVE EditInv'
<1>1. /\ editor' \in [Pids -> Editor]
      /\ \A p \in Pids : /\ editor'[p].at = editor[p].at /\ editor'[p].job = editor[p].job
                         /\ editor[p].at # "off" => editor'[p].left = 0
  BY UnpromisedTyped DEF EditInv, EditorsHaveJobs, Restarts
<1>2. TypeOK'
  <2>1. lock' \in [Jobs -> [pid : Pids \cup {None}, left : 0..LockSecs]]
    BY EditOK DEF EditOK, Restarts, NoLock, None
  <2>2. status' \in [Jobs -> {"queued", "running", "ended"}] /\ ran' \in [Jobs -> Nat]
    BY DEF EditInv, TypeOK, Restarts
  <2> QED
    BY <1>1, <2>1, <2>2 DEF EditInv, TypeOK, Restarts
<1>3. EditorsHaveJobs' /\ OneAsked'
  <2>1. EditorsHaveJobs'
    BY <1>1 DEF EditInv, EditorsHaveJobs
  <2>2. OneAsked'
    BY DEF OneAsked, Restarts
  <2> QED
    BY <2>1, <2>2
<1>4. PromisesKept'
  <2> SUFFICES ASSUME NEW p \in Pids, editor'[p].at = "open", editor'[p].left > 0 PROVE FALSE
    BY DEF PromisesKept
  <2>1. editor'[p].left = 0
    BY <1>1
  <2> QED
    BY <2>1
<1>5. \A p \in Pids, j \in Jobs : ~Holds(p, j)'
  BY DEF Restarts, Holds, NoLock
<1>6. HoldersKnow'
  BY <1>2, <1>3, <1>5 DEF TypeOK, EditorsHaveJobs, HoldersKnow, Restarts
<1>7. StartsAsEdited' /\ RunsAsEdited'
  BY DEF EditInv, TypeOK, StartsAsEdited, RunsAsEdited, Restarts
<1> QED
  BY <1>2, <1>3, <1>4, <1>6, <1>7 DEF EditInv

----------------------------------------------------------------------------
(* EditInv is inductive.                                                    *)
LEMMA EditStep == ASSUME EditInv, [Next]_vars PROVE EditInv'
<1>1. CASE \E p \in Pids : \/ \E j \in Jobs : OpensEditor(p, j)
                           \/ Saves(p) \/ Abandons(p) \/ TimesOut(p) \/ Dies(p)
                           \/ PidTaken(p) \/ PidFreed(p)
  BY <1>1, EditorStep
<1>2. CASE \E r \in requests : Serve(r)
  BY <1>2, ServeLockKeeps, ServeEditKeeps, ServeUnlockKeeps DEF Serve
<1>3. CASE \E j \in Jobs : FlaggedEdit(j) \/ Removed(j) \/ Looked(j) \/ Ends(j)
  BY <1>3, FlaggedEditKeeps, RemovedKeeps, LookedKeeps, EndsKeeps
<1>4. CASE \E j \in Jobs : Starts(j)
  BY <1>4, StartsKeeps
<1>5. CASE \E ok \in BOOLEAN : Started(ok)
  BY <1>5, StartedKeeps
<1>6. CASE Tick \/ Restarts
  BY <1>6, TickKeeps, RestartsKeeps
<1>7. CASE UNCHANGED vars
  BY <1>7, IdsChange DEF vars, jobs, EditInv, TypeOK
<1> QED
  BY <1>1, <1>2, <1>3, <1>4, <1>5, <1>6, <1>7 DEF Next

(* Every state is of its types, for any jobs, processes and bounds.         *)
THEOREM EditTypeCorrect == Spec => []TypeOK
<1>1. EditInv => TypeOK
  BY DEF EditInv
<1> QED
  BY <1>1, EditInitially, EditStep, PTL DEF Spec

(* README.md:577: while an editor is open and its lock has not run out, its *)
(* job does not start and no other edit changes it.                         *)
THEOREM NothingChangesUnderAnEditor == Spec => []EditorUndisturbed
<1>1. EditInv => EditorUndisturbed
  BY DEF EditInv, PromisesKept, Promised, EditorUndisturbed
<1> QED
  BY <1>1, EditInitially, EditStep, PTL DEF Spec

(* daemon.py:2247: a job runs with its last settings, whenever the edits    *)
(* came and whatever died in between.                                       *)
THEOREM LastEditRuns == Spec => []RunsAsEdited
<1>1. EditInv => RunsAsEdited
  BY DEF EditInv
<1> QED
  BY <1>1, EditInitially, EditStep, PTL DEF Spec

(* An edit that is served and changes something was made from the settings  *)
(* it replaces.                                                             *)
LEMMA EditKnows ==
    ASSUME EditInv, [Next]_vars, NEW r \in requests, r.what = "edit", r \notin requests', version' # version
    PROVE  r.base = version[r.job] \/ version'[r.job] = version[r.job]
<1>1. CASE ServeEdit(r)
  BY <1>1 DEF EditInv, TypeOK, HoldersKnow, Holds, ServeEdit, HoldsLock, Live
<1>2. CASE ~ServeEdit(r)
  <2>1. \E s \in requests : s # r /\ ServeEdit(s)
    BY <1>2 DEF Next, vars, jobs, bounds, Serve, ServeLock, ServeUnlock, OpensEditor, Saves, Abandons, TimesOut, Dies,
         PidTaken, PidFreed, FlaggedEdit, Removed, Looked, Ends, Starts, Started, Tick, Restarts
  <2> QED
    BY <2>1 DEF ServeEdit
<1> QED
  BY <1>1, <1>2

(* db.py:1567: no edit overwrites another one unseen.                       *)
THEOREM NoEditIsLost == Spec => NoLostUpdate
<1>1. EditInv /\ [Next]_vars
      => [\A r \in requests : r.what = "edit" /\ r \notin requests' /\ version' # version
                             => r.base = version[r.job] \/ version'[r.job] = version[r.job]]_vars
  BY EditKnows
<1> QED
  BY <1>1, EditInitially, EditStep, PTL DEF Spec, NoLostUpdate

=============================================================================
