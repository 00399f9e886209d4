----------------------------- MODULE JobLedger ------------------------------
(* What the jobs table and the running-jobs quota promise of a job, without *)
(* RQ, without workers, without the steps in between: a job is recorded,    *)
(* takes a slot, ends once, gives the slot back, and may then be recorded   *)
(* again.  A slot is never held by a job that is not recorded, an end is    *)
(* never recorded for a job that was not counted, and a slot never comes    *)
(* back before the end is recorded (queue.py header LIFECYCLE).             *)
EXTENDS Naturals

CONSTANT Job

VARIABLES
  status,  \* the job's status in the table; "lost" once nothing is promised
  slot     \* the jobs that hold a slot

vars == <<status, slot>>

End == {"finished", "failed", "cancelled"}

Init == status = [j \in Job |-> "none"] /\ slot = {}

Record(j) ==
  /\ status[j] \in {"none"} \cup End /\ j \notin slot
  /\ status' = [status EXCEPT ![j] = "queued"]
  /\ UNCHANGED slot

Take(j) ==
  /\ status[j] = "queued" /\ j \notin slot
  /\ slot' = slot \cup {j}
  /\ UNCHANGED status

Finish(j) ==
  /\ status[j] = "queued" /\ j \in slot
  /\ \E s \in End : status' = [status EXCEPT ![j] = s]
  /\ UNCHANGED slot

Return(j) ==
  /\ status[j] \in End /\ j \in slot
  /\ slot' = slot \ {j}
  /\ UNCHANGED status

Lose(j) ==
  /\ status' = [status EXCEPT ![j] = "lost"]
  /\ slot' = slot \ {j}

Next == \E j \in Job : Record(j) \/ Take(j) \/ Finish(j) \/ Return(j) \/ Lose(j)

Spec == Init /\ [][Next]_vars
=============================================================================
