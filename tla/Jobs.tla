-------------------------------- MODULE Jobs --------------------------------
(***************************************************************************)
(* The life of background jobs, as te_platform/jobs/queue.py, tasks.py,    *)
(* worker.py, db/repo.py (jobs table) and security/quotas.py run it, for   *)
(* the jobs of ONE principal (jobs, rows and counters of two principals    *)
(* share nothing: the principal is part of every id and key).              *)
(*                                                                         *)
(* Three stores are involved and no transaction spans two of them:         *)
(*   - RQ's job hash and queue, in Redis           (rq, queue)             *)
(*   - the jobs table, in PostgreSQL               (row)                   *)
(*   - the quota counters and the released markers, in Redis               *)
(*                                                 (running, today,        *)
(*                                                  released)              *)
(* Callers are threads of the API and MCP processes executing a tool       *)
(* (sim.*, report.render_pdf, jobs.cancel); workers are RQ workers.  One   *)
(* action is one round trip to one store, so every gap between two round   *)
(* trips is a point where another actor may run.                           *)
(***************************************************************************)
EXTENDS Integers, Sequences, FiniteSets

CONSTANTS
  Seeded,         \* ids derived from the request's content (_job_id)
  Fresh,          \* random ids: unseeded runs and reports
  Callers,        \* threads that run enqueue_job and cancel_job
  Workers,        \* RQ workers
  MaxConcurrent,  \* settings.max_concurrent_jobs
  MaxPerDay,      \* settings.max_jobs_per_day (the model spans one UTC day)
  Cancelling,     \* TRUE: users also cancel jobs
  FaultKinds,     \* which of {"worker", "api", "outage"} may happen
  MaxFaults,      \* how many of them, altogether (bounds the model)
  NoJob

Job    == Seeded \cup Fresh
Actors == Callers \cup Workers

ASSUME JobsAssumption ==
  /\ MaxConcurrent \in Nat \ {0}
  /\ MaxPerDay \in Nat \ {0}
  /\ MaxFaults \in Nat
  /\ Cancelling \in BOOLEAN
  /\ NoJob \notin Job
  /\ Seeded \cap Fresh = {}
  /\ Callers \cap Workers = {}
  /\ IsFiniteSet(Callers)

VARIABLES
  rq,        \* RQ's status of each job id ("none": no such hash)
  queue,     \* ids in the RQ queue, oldest first
  row,       \* status column of the jobs table ("none": no row)
  released,  \* ids whose te:jobs:released marker is set
  running,   \* te:jobs:running:<principal>
  today,     \* te:jobs:day:<principal>:<date>
  act,       \* what each caller and worker is doing
  stops,     \* stop-job commands on their way to a worker
  faults,    \* faults that have happened so far
  tainted    \* history: ids that met one of the windows listed below

vars == <<rq, queue, row, released, running, today, act, stops, faults, tainted>>
redis == <<rq, queue>>
quota == <<running, today>>

RqStatus  == {"none", "queued", "started", "finished", "failed", "stopped", "canceled"}
Final     == {"finished", "failed", "cancelled"}
RowStatus == {"none", "queued"} \cup Final
Settling  == {"read_row", "write_row", "mark", "decr", "clamp"}
CallerAt  == {"idle", "lookup", "delete", "record_read", "record_write", "rearm",
              "count", "push", "cancel", "stop"} \cup Settling
WorkerAt  == {"idle", "popped", "running", "end"} \cup Settling

(* One actor: where it is, the job it holds, the outcome it is recording,  *)
(* the row status it has read, and, for a worker, whether the work horse   *)
(* (the child process) or the parent executes the step.                    *)
Activity == [at : CallerAt \cup WorkerAt, job : Job \cup {NoJob},
             outcome : Final \cup {"none"}, saw : RowStatus, by : {"horse", "parent"}]

Idle == [at |-> "idle", job |-> NoJob, outcome |-> "none", saw |-> "none", by |-> "parent"]

At(a, p)   == act[a].at = p
Goto(a, p) == act' = [act EXCEPT ![a].at = p]
Rest(a)    == act' = [act EXCEPT ![a] = Idle]
Holders(j) == {a \in Actors : act[a].job = j}
Queued(j)  == \E i \in DOMAIN queue : queue[i] = j

(* LREM key 1 id: removes the first occurrence, if any. *)
Without(j) ==
  LET first == CHOOSE i \in DOMAIN queue : /\ queue[i] = j
                                           /\ \A k \in 1 .. i - 1 : queue[k] # j
  IN  IF ~Queued(j) THEN queue
      ELSE [i \in 1 .. Len(queue) - 1 |-> IF i < first THEN queue[i] ELSE queue[i + 1]]

Init ==
  /\ rq = [j \in Job |-> "none"]
  /\ queue = << >>
  /\ row = [j \in Job |-> "none"]
  /\ released = {}
  /\ running = 0
  /\ today = 0
  /\ act = [a \in Actors |-> Idle]
  /\ stops = {}
  /\ faults = 0
  /\ tainted = {}

-----------------------------------------------------------------------------
(* The windows.  A job id is tainted when                                  *)
(*   W1  cancel_job cancels it after a worker has taken it off the queue   *)
(*       (RQ still says "queued" until the work horse starts);             *)
(*   W2  enqueue_job decides to run it while another call or worker is     *)
(*       still busy with the same id;                                      *)
(*   W3  a process is lost between the released marker and the DECR;       *)
(*   W4  a caller is lost between the jobs-table row and RQ's queue, or a  *)
(*       worker between RQ's queue and RQ's "started";                     *)
(*   W5  a store refuses a step of settle_job that nothing retries.        *)
(* Properties below speak of the other ids, and so say that nothing else   *)
(* in the code can break them.                                             *)
Taint(j, hit) == tainted' = IF hit THEN tainted \cup {j} ELSE tainted

-----------------------------------------------------------------------------
(* enqueue_job, preceded by the pipeline's job_quota_available check.      *)

(* The precondition only READS the counters; a refused call changes        *)
(* nothing.  A random id is new; a content id may exist already.           *)
\* Mutant: the precondition does not look at the daily counter.
RequestUnlimited(c, j) ==
  /\ At(c, "idle") /\ running < MaxConcurrent
  /\ j \in Fresh => row[j] = "none" /\ Holders(j) = {}
  /\ act' = [act EXCEPT ![c] = [Idle EXCEPT !.job = j,
                                !.at = IF j \in Seeded THEN "lookup" ELSE "record_read"]]
  /\ UNCHANGED <<redis, row, released, quota, stops, faults, tainted>>

Request(c, j) ==
  /\ At(c, "idle")
  /\ running < MaxConcurrent /\ today < MaxPerDay
  /\ j \in Fresh => row[j] = "none" /\ Holders(j) = {}
  /\ act' = [act EXCEPT ![c] = [Idle EXCEPT !.job = j,
                                !.at = IF j \in Seeded THEN "lookup" ELSE "record_read"]]
  /\ UNCHANGED <<redis, row, released, quota, stops, faults, tainted>>

(* Job.fetch and _status: an identical job that is queued, running or      *)
(* finished is the answer.                                                 *)
Reuse(c) ==
  /\ At(c, "lookup") /\ rq[act[c].job] \in {"queued", "started", "finished"}
  /\ Rest(c)
  /\ UNCHANGED <<redis, row, released, quota, stops, faults, tainted>>

RunAnew(c) ==
  LET j == act[c].job IN
  /\ At(c, "lookup") /\ rq[j] \in {"none", "failed", "stopped", "canceled"}
  /\ Goto(c, IF rq[j] = "none" THEN "record_read" ELSE "delete")
  /\ Taint(j, Holders(j) # {c})
  /\ UNCHANGED <<redis, row, released, quota, stops, faults>>

DeleteOld(c) ==
  LET j == act[c].job IN
  /\ At(c, "delete")
  /\ rq' = [rq EXCEPT ![j] = "none"]
  /\ queue' = Without(j)
  /\ Goto(c, "record_read")
  /\ UNCHANGED <<row, released, quota, stops, faults, tainted>>

(* record_job: SELECT, then INSERT or UPDATE at commit.                    *)
RecordRead(c) ==
  /\ At(c, "record_read")
  /\ act' = [act EXCEPT ![c].at = "record_write", ![c].saw = row[act[c].job]]
  /\ UNCHANGED <<redis, row, released, quota, stops, faults, tainted>>

\* Mutant: a reused id keeps its old row.
RecordWriteOnce(c) ==
  LET j == act[c].job IN
  /\ At(c, "record_write")
  /\ row' = [row EXCEPT ![j] = IF @ = "none" THEN "queued" ELSE @]
  /\ act' = [act EXCEPT ![c].at = "rearm", ![c].saw = "none"]
  /\ UNCHANGED <<redis, released, quota, stops, faults, tainted>>

RecordWrite(c) ==
  LET j == act[c].job IN
  /\ At(c, "record_write")
  /\ \/ /\ act[c].saw = "none" /\ row[j] # "none"   \* duplicate key: the call fails
        /\ Rest(c)
        /\ UNCHANGED row
     \/ /\ act[c].saw = "none" => row[j] = "none"
        /\ row' = [row EXCEPT ![j] = IF act[c].saw = "queued" THEN @ ELSE "queued"]
        /\ act' = [act EXCEPT ![c].at = "rearm", ![c].saw = "none"]
  /\ UNCHANGED <<redis, released, quota, stops, faults, tainted>>

Rearm(c) ==
  /\ At(c, "rearm")
  /\ released' = released \ {act[c].job}
  /\ Goto(c, "count")
  /\ UNCHANGED <<redis, row, quota, stops, faults, tainted>>

(* job_started_sync: one MULTI/EXEC. *)
Count(c) ==
  /\ At(c, "count")
  /\ running' = running + 1 /\ today' = today + 1
  /\ Goto(c, "push")
  /\ UNCHANGED <<redis, row, released, stops, faults, tainted>>

Push(c) ==
  LET j == act[c].job IN
  /\ At(c, "push")
  /\ rq' = [rq EXCEPT ![j] = "queued"]
  /\ queue' = Append(queue, j)
  /\ Rest(c)
  /\ UNCHANGED <<row, released, quota, stops, faults, tainted>>

(* Redis refuses the job: settle_job(job_id, "failed"), then re-raise. *)
PushRefused(c) ==
  /\ At(c, "push")
  /\ act' = [act EXCEPT ![c].at = "read_row", ![c].outcome = "failed"]
  /\ UNCHANGED <<redis, row, released, quota, stops, faults, tainted>>

-----------------------------------------------------------------------------
(* cancel_job.                                                             *)

CancelLook(c, j) ==
  /\ Cancelling /\ At(c, "idle")
  /\ rq[j] \in {"queued", "started"}
  /\ act' = [act EXCEPT ![c] = [Idle EXCEPT !.job = j,
                                !.at = IF rq[j] = "queued" THEN "cancel" ELSE "stop"]]
  /\ UNCHANGED <<redis, row, released, quota, stops, faults, tainted>>

(* job.cancel() then settle "cancelled"; RQ raises if already canceled.    *)
CancelQueued(c) ==
  LET j == act[c].job IN
  /\ At(c, "cancel")
  /\ IF rq[j] = "canceled"
     THEN Rest(c) /\ UNCHANGED <<redis, tainted>>
     ELSE /\ rq' = [rq EXCEPT ![j] = "canceled"]
          /\ queue' = Without(j)
          /\ act' = [act EXCEPT ![c].at = "read_row", ![c].outcome = "cancelled"]
          /\ Taint(j, ~Queued(j))
  /\ UNCHANGED <<row, released, quota, stops, faults>>

(* send_stop_job_command addresses the worker executing the job; RQ's      *)
(* refusal when none does is suppressed.                                   *)
StopRunning(c) ==
  LET j == act[c].job IN
  /\ At(c, "stop")
  /\ stops' = stops \cup {<<w, j>> : w \in {x \in Workers : act[x].job = j /\ ~At(x, "popped")}}
  /\ Rest(c)
  /\ UNCHANGED <<redis, row, released, quota, faults, tainted>>

-----------------------------------------------------------------------------
(* The RQ worker (external): pop, fork a work horse, start, run the        *)
(* callback, only then store the final status.                             *)

Pop(w) ==
  /\ At(w, "idle") /\ queue # << >>
  /\ queue' = Tail(queue)
  /\ act' = IF rq[Head(queue)] = "none" THEN act   \* the hash was deleted: skipped
            ELSE [act EXCEPT ![w] = [Idle EXCEPT !.at = "popped", !.job = Head(queue),
                                                 !.by = "horse"]]
  /\ UNCHANGED <<rq, row, released, quota, stops, faults, tainted>>

Start(w) ==
  /\ At(w, "popped")
  /\ rq' = [rq EXCEPT ![act[w].job] = "started"]
  /\ Goto(w, "running")
  /\ UNCHANGED <<queue, row, released, quota, stops, faults, tainted>>

(* on_job_success, or on_job_failure when the task raised or timed out. *)
Complete(w, outcome) ==
  /\ At(w, "running") /\ outcome \in {"finished", "failed"}
  /\ act' = [act EXCEPT ![w].at = "read_row", ![w].outcome = outcome]
  /\ UNCHANGED <<redis, row, released, quota, stops, faults, tainted>>

(* The horse is gone; the parent runs the handler that settles the job.    *)
LoseHorse(w, outcome) ==
  /\ act' = [act EXCEPT ![w] = [@ EXCEPT !.at = "read_row", !.outcome = outcome,
                                         !.saw = "none", !.by = "parent"]]
  /\ Taint(act[w].job, act[w].at \in {"decr", "clamp"})

\* Mutant: the worker is started without work_horse_killed_handler.
HorseDiesUnhandled(w) ==
  /\ act[w].by = "horse"
  /\ act' = [act EXCEPT ![w] = [@ EXCEPT !.at = "end", !.outcome = "failed", !.by = "parent"]]
  /\ Taint(act[w].job, act[w].at \in {"decr", "clamp"})
  /\ UNCHANGED <<redis, row, released, quota, stops, faults>>

HorseDies(w) ==   \* on_work_horse_killed
  /\ act[w].by = "horse"
  /\ LoseHorse(w, "failed")
  /\ UNCHANGED <<redis, row, released, quota, stops, faults>>

\* Mutant: on_job_stopped passes RQ's name of the status on.
StopArrivesRqName(w, j) ==
  /\ <<w, j>> \in stops
  /\ stops' = stops \ {<<w, j>>}
  /\ IF act[w].job = j /\ act[w].by = "horse"
     THEN LoseHorse(w, "stopped")
     ELSE UNCHANGED <<act, tainted>>
  /\ UNCHANGED <<redis, row, released, quota, faults>>

StopArrives(w, j) ==   \* on_job_stopped, if that job's horse is still alive
  /\ <<w, j>> \in stops
  /\ stops' = stops \ {<<w, j>>}
  /\ IF act[w].job = j /\ act[w].by = "horse"
     THEN LoseHorse(w, "cancelled")
     ELSE UNCHANGED <<act, tainted>>
  /\ UNCHANGED <<redis, row, released, quota, faults>>

(* RQ stores the final status after the callback. *)
End(w) ==
  LET status == [finished |-> "finished", failed |-> "failed", cancelled |-> "stopped"] IN
  /\ At(w, "end")
  /\ rq' = [rq EXCEPT ![act[w].job] = status[act[w].outcome]]
  /\ Rest(w)
  /\ UNCHANGED <<queue, row, released, quota, stops, faults, tainted>>

(* RQ's registry cleanup: a started job nobody executes any more is given  *)
(* to on_job_failure by the worker doing the cleanup.                      *)
Abandoned(w, j) ==
  /\ At(w, "idle") /\ rq[j] = "started"
  /\ \A x \in Workers : act[x].job # j
  /\ act' = [act EXCEPT ![w] = [Idle EXCEPT !.at = "read_row", !.job = j,
                                            !.outcome = "failed"]]
  /\ UNCHANGED <<redis, row, released, quota, stops, faults, tainted>>

-----------------------------------------------------------------------------
(* settle_job, executed by a worker callback or by a caller.               *)

(* update_job: the row is read and, if not final, written at commit.       *)
SettleRead(a) ==
  /\ At(a, "read_row")
  /\ act' = [act EXCEPT ![a].at = "write_row", ![a].saw = row[act[a].job]]
  /\ UNCHANGED <<redis, row, released, quota, stops, faults, tainted>>

\* Mutant: update_job does not look at the status it has read.
SettleWriteAlways(a) ==
  /\ At(a, "write_row")
  /\ row' = [row EXCEPT ![act[a].job] = act[a].outcome]
  /\ act' = [act EXCEPT ![a].at = "mark", ![a].saw = "none"]
  /\ UNCHANGED <<redis, released, quota, stops, faults, tainted>>

SettleWrite(a) ==
  /\ At(a, "write_row")
  /\ row' = [row EXCEPT ![act[a].job] = IF act[a].saw \in Final THEN @ ELSE act[a].outcome]
  /\ act' = [act EXCEPT ![a].at = "mark", ![a].saw = "none"]
  /\ UNCHANGED <<redis, released, quota, stops, faults, tainted>>

(* After the last step of settle_job. *)
Settled(a) == IF a \in Workers THEN Goto(a, "end") ELSE Rest(a)

\* Mutant: SET without NX, every report of an end gives a slot back.
MarkEveryTime(a) ==
  /\ At(a, "mark")
  /\ released' = released \cup {act[a].job}
  /\ Goto(a, "decr")
  /\ UNCHANGED <<redis, row, quota, stops, faults, tainted>>

Mark(a) ==   \* SET released NX
  LET j == act[a].job IN
  /\ At(a, "mark")
  /\ released' = released \cup {j}
  /\ IF j \in released THEN Settled(a) ELSE Goto(a, "decr")
  /\ UNCHANGED <<redis, row, quota, stops, faults, tainted>>

Decr(a) ==   \* job_finished_sync
  /\ At(a, "decr")
  /\ running' = running - 1
  /\ IF running' < 0 THEN Goto(a, "clamp") ELSE Settled(a)
  /\ UNCHANGED <<redis, row, released, today, stops, faults, tainted>>

Clamp(a) ==
  /\ At(a, "clamp")
  /\ running' = 0
  /\ Settled(a)
  /\ UNCHANGED <<redis, row, released, today, stops, faults, tainted>>

-----------------------------------------------------------------------------
(* Faults.                                                                 *)

Fault(kind) == /\ kind \in FaultKinds /\ faults < MaxFaults
               /\ faults' = faults + 1

(* A worker container dies; RQ's cleanup finds only jobs marked started. *)
WorkerDies(w) ==
  /\ Fault("worker")
  /\ ~At(w, "idle")
  /\ Rest(w)
  /\ Taint(act[w].job, act[w].at \in {"decr", "clamp"} \/ rq[act[w].job] # "started")
  /\ UNCHANGED <<redis, row, released, quota, stops>>

(* An API process dies in the middle of a call. *)
CallerDies(c) ==
  /\ Fault("api")
  /\ ~At(c, "idle")
  /\ Rest(c)
  /\ Taint(act[c].job, act[c].at \in {"rearm", "count", "push"} \cup Settling)
  /\ UNCHANGED <<redis, row, released, quota, stops>>

(* PostgreSQL or Redis refuses a step of settle_job.  A success callback   *)
(* that raises makes RQ take the failure path; any other is given up.      *)
SettleRefused(a) ==
  LET retried == act[a].by = "horse" /\ act[a].outcome = "finished" IN
  /\ Fault("outage")
  /\ act[a].at \in Settling
  /\ IF retried THEN act' = [act EXCEPT ![a] = [@ EXCEPT !.at = "read_row", !.saw = "none",
                                                         !.outcome = "failed"]]
                ELSE Settled(a)
  /\ Taint(act[a].job, ~retried \/ act[a].at \in {"decr", "clamp"})
  /\ UNCHANGED <<redis, row, released, quota, stops>>

-----------------------------------------------------------------------------
Settle(a) == SettleRead(a) \/ SettleWrite(a) \/ Mark(a) \/ Decr(a) \/ Clamp(a)

Enqueue(c) == \/ Reuse(c) \/ RunAnew(c) \/ DeleteOld(c) \/ RecordRead(c) \/ RecordWrite(c)
              \/ Rearm(c) \/ Count(c) \/ Push(c) \/ PushRefused(c)

Cancel(c) == CancelQueued(c) \/ StopRunning(c)

CallerStep(c) == Enqueue(c) \/ Cancel(c) \/ Settle(c)

Work(w) == \/ Pop(w) \/ Start(w) \/ End(w) \/ Settle(w)
           \/ \E o \in {"finished", "failed"} : Complete(w, o)

Next ==
  \/ \E c \in Callers : \/ \E j \in Job : Request(c, j) \/ CancelLook(c, j)
                        \/ CallerStep(c) \/ CallerDies(c)
  \/ \E w \in Workers : \/ Work(w) \/ HorseDies(w) \/ WorkerDies(w)
                        \/ \E j \in Job : StopArrives(w, j) \/ Abandoned(w, j)
  \/ \E a \in Actors : SettleRefused(a)

(* Every call runs to its end (sync code on a thread), workers block on    *)
(* the queue and run what they pop (tasks have a job_timeout), and RQ      *)
(* repeats its registry cleanup.                                           *)
Fairness ==
  /\ \A c \in Callers : WF_vars(CallerStep(c))
  /\ \A w \in Workers : WF_vars(Work(w))
  /\ \A w \in Workers, j \in Job : WF_vars(Abandoned(w, j))

Spec     == Init /\ [][Next]_vars
FairSpec == Spec /\ Fairness

-----------------------------------------------------------------------------
(* Properties.                                                             *)

(* Every variable keeps its type; the counter may dip to the value the     *)
(* clamp of job_finished_sync repairs, hence Int.                          *)
TypeOK ==
  /\ rq \in [Job -> RqStatus]
  /\ queue \in Seq(Job)
  /\ row \in [Job -> RowStatus]
  /\ released \in SUBSET Job
  /\ running \in Int
  /\ today \in Nat
  /\ act \in [Actors -> Activity]
  /\ stops \in SUBSET (Workers \X Job)
  /\ faults \in Nat
  /\ tainted \in SUBSET Job

(* The quota check and the count are two steps, so the limit can be        *)
(* overshot, but by no more than one job per concurrent caller: whatever   *)
(* races and faults occur, quotas.py never lets more slots be counted.     *)
OvershootBounded ==
  /\ running <= MaxConcurrent - 1 + Cardinality(Callers)
  /\ today <= MaxPerDay - 1 + Cardinality(Callers)

(* The ids whose quota slot is taken: counted by job_started_sync and not  *)
(* yet given back by job_finished_sync.                                    *)
Counting(j)  == \E c \in Callers : act[c].job = j /\ act[c].at \in {"rearm", "count"}
Returning(j) == \E a \in Actors : act[a].job = j /\ At(a, "decr")
SlotTaken == {j \in Job : \/ row[j] # "none" /\ j \notin released /\ ~Counting(j)
                          \/ Returning(j)}

(* The running-jobs counter is exactly the number of slots taken, at every *)
(* step of every operation, as long as no window was hit: settling twice,  *)
(* stopping, killing, re-running under the same id never loses a slot or   *)
(* gives one back twice.                                                   *)
SlotsExact == tainted = {} => running = Cardinality(SlotTaken)

(* The two records of an untouched job agree: a result that enqueue_job    *)
(* answers a later identical request with (RQ "finished") is also in the   *)
(* jobs table, where the session state and the reports look for it.        *)
ReusedResultIsStored ==
  \A j \in Job \ tainted : rq[j] = "finished" /\ Holders(j) \subseteq Workers
                              => row[j] = "finished"

(* Copies of a job: waiting in the queue or in a worker's hands. *)
Copies(j) == Cardinality({i \in DOMAIN queue : queue[i] = j})
             + Cardinality({w \in Workers : act[w].job = j})

(* A job is never computed twice at the same time. *)
OneRunAtATime == \A j \in Job \ tainted : Copies(j) <= 1

(* The three records of an untouched job agree: the slots with the rows,   *)
(* the reusable results with the rows, the queue with the workers.         *)
RecordsAgree == SlotsExact /\ ReusedResultIsStored /\ OneRunAtATime

(* A row in a final status is left alone by every later report of an end;  *)
(* only record_job, for a new run of the same id, takes it back to queued. *)
FinalRowStays ==
  [][\A j \in Job \ tainted' : row[j] \in Final /\ row'[j] # row[j]
        => row'[j] = "queued" /\ \E c \in Callers : At(c, "record_write") /\ act[c].job = j]_vars

(* Every recorded job reaches a final row, in spite of dying workers. *)
EveryJobSettles ==
  \A j \in Job : row[j] = "queued" ~> (row[j] # "queued" \/ j \in tainted)

(* The same guarantees as the repository states them, without regard to    *)
(* the windows.                                                            *)

(* repo.py update_job: "the FIRST report wins, so a row never flips        *)
(* between final states".                                                  *)
FirstReportWins == [][\A j \in Job : row[j] \in Final => row'[j] \in {row[j], "queued"}]_vars

(* test_cancelled_queued_job_never_runs; cancel_job: "it will never run". *)
CancelledNeverRuns == [][\A j \in Job : rq[j] = "canceled" => rq'[j] # "started"]_vars

(* test_platform_jobs.py: "however a job ends, its slot comes back, and    *)
(* only once".                                                             *)
EverySlotComesBack ==
  (\A a \in Actors : At(a, "idle")) /\ queue = << >> /\ (\A j \in Job : rq[j] # "started")
     => running = 0

(* queue.py RESULT REUSE: identical simulations are not computed again     *)
(* while one is queued, running or finished.                               *)
IdenticalRequestsShare == \A j \in Seeded : Copies(j) <= 1

(* tool_policy.yaml job_quota_available: at most max_concurrent_jobs.      *)
QuotaRespected == running <= MaxConcurrent
=============================================================================
