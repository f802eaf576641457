---------------------------- MODULE SerialQueue ----------------------------
(***************************************************************************)
(* What one channel promises the people who queue jobs in it: jobs are     *)
(* worked on one at a time, in the order they came; an express (`--now`)   *)
(* job goes before the normal ones, suspending the one that is worked on,  *)
(* which goes on when no express job is left; nothing that is over comes   *)
(* back.  How a daemon does it is the subject of module Channel, which     *)
(* implements this module.                                                 *)
(***************************************************************************)
EXTENDS Naturals

CONSTANT Jobs   \* a set of numbers: jobs are numbered in the order they come

VARIABLES
    stage,   \* where each job is
    express  \* the jobs that were submitted with `--now`

vars == <<stage, express>>

InHand == {"working", "suspended", "closing"}  \* "closing": told to end, or ended and not yet written down
Stages == InHand \cup {"absent", "waiting", "over", "lost"}  \* "lost": its daemon died

Init == stage = [j \in Jobs |-> "absent"] /\ express = {}

In(s) == {j \in Jobs : stage[j] = s}

(* Jobs are numbered as they come. *)
Comes(j) == stage[j] = "absent" /\ \A i \in Jobs : i < j => stage[i] # "absent"

(* No job of its lane has waited longer. *)
FirstOfLane(j) ==
    stage[j] = "waiting" /\ \A i \in In("waiting") : i < j => (i \in express) # (j \in express)

Submit(j) ==
    /\ Comes(j)
    /\ stage' = [stage EXCEPT ![j] = "waiting"]
    /\ UNCHANGED express

(* The normal job that is worked on makes way for an express job. *)
SubmitExpress(j) ==
    /\ Comes(j)
    /\ express' = express \cup {j}
    /\ \/ stage' = [stage EXCEPT ![j] = "waiting"]
       \/ \E i \in In("working") \ express :
            stage' = [stage EXCEPT ![j] = "waiting", ![i] = "suspended"]

(* Work begins on a normal job when nobody else is in hand and no express   *)
(* job waits; on an express job when no other job is worked on.             *)
Begin(j) ==
    /\ FirstOfLane(j)
    /\ \A i \in Jobs \ {j} :
         IF j \in express THEN stage[i] # "working" /\ (i \in express => stage[i] \notin InHand)
         ELSE stage[i] \notin InHand /\ (i \in express => stage[i] # "waiting")
    /\ stage' = [stage EXCEPT ![j] = "working"]
    /\ UNCHANGED express

(* The suspended job goes on when no express job is left. *)
Continue(j) ==
    /\ stage[j] = "suspended"
    /\ \A i \in Jobs : stage[i] # "working" /\ (i \in express => stage[i] \notin InHand \cup {"waiting"})
    /\ stage' = [stage EXCEPT ![j] = "working"]
    /\ UNCHANGED express

(* Only these jobs move, and this way. *)
Move(from, to) ==
    /\ stage' \in [Jobs -> Stages]
    /\ \A j \in Jobs : stage'[j] # stage[j] => stage[j] \in from /\ stage'[j] = to
    /\ UNCHANGED express

(* Jobs in hand end or are told to end, and a job that was about to begin   *)
(* when the daemon was stopped is.                                          *)
Close == Move({"working", "suspended", "waiting"}, "closing")

(* The outcome is written down; a retry is a new normal job. *)
Finish(j) ==
    /\ stage[j] \in {"closing", "waiting"}
    /\ \/ stage' = [stage EXCEPT ![j] = "over"]
       \/ \E k \in Jobs : Comes(k) /\ stage' = [stage EXCEPT ![j] = "over", ![k] = "waiting"]
    /\ UNCHANGED express

(* The daemon ends with jobs in hand ... *)
Die == (\A j \in Jobs : stage'[j] \notin InHand) /\ Move(InHand, "lost")

(* ... and the next one writes down what it finds of them. *)
Recover == Move({"lost"}, "over")

Next ==
    \/ \E j \in Jobs : Submit(j) \/ SubmitExpress(j) \/ Begin(j) \/ Continue(j) \/ Finish(j)
    \/ Close \/ Die \/ Recover

(* Most steps of the daemon do not show here. *)
Seen == UNCHANGED vars \/ Next

Spec == Init /\ [][Seen]_vars

=============================================================================
