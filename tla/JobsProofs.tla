----------------------------- MODULE JobsProofs -----------------------------
(* Theorems about Jobs, for any number of callers, workers and job ids,    *)
(* any limits and any number of faults.                                    *)
EXTENDS JobsRefinement, FiniteSetTheorems, TLAPS

-----------------------------------------------------------------------------
(* Type correctness.  TypeOK alone is not inductive: the later steps of an *)
(* operation use the job and the outcome that its earlier steps stored.    *)

StoresOK ==
  /\ rq \in [Job -> RqStatus]
  /\ queue \in Seq(Job)
  /\ row \in [Job -> RowStatus]
  /\ released \in SUBSET Job
  /\ running \in Int
  /\ today \in Nat
  /\ stops \in SUBSET (Workers \X Job)
  /\ faults \in Nat
  /\ tainted \in SUBSET Job

Sound(r) == /\ r \in Activity
            /\ r.at # "idle" => r.job \in Job
            /\ r.by = "horse" => r.at # "idle"
            /\ r.at \in Settling \cup {"end"} => r.outcome \in Final

ActOK == act \in [Actors -> Activity] /\ \A a \in Actors : Sound(act[a])

TypeInv == StoresOK /\ ActOK

(* LREM keeps a sequence of jobs a sequence of jobs. *)
LEMMA WithoutType ==
  ASSUME NEW j, queue \in Seq(Job)
  PROVE  Without(j) \in Seq(Job)
<1>1. CASE ~Queued(j)
  BY <1>1 DEF Without
<1>2. CASE Queued(j)
  <2> DEFINE first == CHOOSE i \in DOMAIN queue : /\ queue[i] = j
                                                  /\ \A k \in 1 .. i - 1 : queue[k] # j
             rest == [i \in 1 .. Len(queue) - 1 |-> IF i < first THEN queue[i] ELSE queue[i + 1]]
  <2>1. Len(queue) \in Nat /\ DOMAIN queue = 1 .. Len(queue) /\ Len(queue) # 0
    BY <1>2 DEF Queued
  <2>2. \A i \in 1 .. Len(queue) - 1 : rest[i] \in Job
    BY <2>1
  <2>3. rest \in Seq(Job)
    BY <2>1, <2>2
  <2> QED
    BY <1>2, <2>3 DEF Without
<1> QED
  BY <1>1, <1>2

(* A step that moves one actor to a sound activity keeps the invariant. *)
LEMMA Become ==
  ASSUME TypeInv, StoresOK', NEW a \in Actors, NEW r, Sound(r),
         act' = [act EXCEPT ![a] = r] \/ UNCHANGED act
  PROVE  TypeInv'
BY DEF TypeInv, ActOK, Sound

(* The ways a step of settle_job moves on. *)
LEMMA LeaveSettling ==
  ASSUME TypeInv, StoresOK', NEW a \in Actors, act[a].at \in Settling,
         \/ act' = [act EXCEPT ![a].at = "end"]
         \/ act' = [act EXCEPT ![a].at = "decr"]
         \/ act' = [act EXCEPT ![a].at = "clamp"]
         \/ act' = [act EXCEPT ![a] = Idle]
  PROVE  TypeInv'
<1>1. Sound(act[a]) /\ act \in [Actors -> Activity]
  BY DEF TypeInv, ActOK
<1>2. Sound(Idle)
  BY DEF Sound, Idle, Activity, CallerAt, Settling, Final, RowStatus
<1>3. ASSUME NEW p \in {"end", "decr", "clamp"}
      PROVE  Sound([act[a] EXCEPT !.at = p])
  BY <1>1 DEF Sound, Activity, WorkerAt, Settling
<1>4. CASE act' = [act EXCEPT ![a] = Idle]
  BY <1>2, <1>4, Become
<1>5. ASSUME NEW p \in {"end", "decr", "clamp"}, act' = [act EXCEPT ![a].at = p]
      PROVE  TypeInv'
  <2> DEFINE r == [act[a] EXCEPT !.at = p]
  <2>1. Sound(r) /\ act' = [act EXCEPT ![a] = r]
    BY <1>3, <1>5
  <2> QED
    BY <2>1, Become
<1> QED
  BY <1>4, <1>5

LEMMA TypeInit == Init => TypeInv
<1> SUFFICES ASSUME Init PROVE TypeInv
  OBVIOUS
<1>1. Sound(Idle)
  BY DEF Sound, Idle, Activity, CallerAt, Settling, Final, RowStatus
<1>2. ActOK
  BY <1>1 DEF Init, ActOK, Sound
<1>3. StoresOK
  BY DEF Init, StoresOK, RqStatus, RowStatus
<1> QED
  BY <1>2, <1>3 DEF TypeInv

LEMMA TypeNext == TypeInv /\ [Next]_vars => TypeInv'
<1> SUFFICES ASSUME TypeInv, [Next]_vars PROVE TypeInv'
  OBVIOUS
<1>a. StoresOK /\ \A a \in Actors : Sound(act[a])
  BY DEF TypeInv, ActOK
<1>b. act \in [Actors -> Activity]
  BY DEF TypeInv, ActOK
<1>c. Callers \subseteq Actors /\ Workers \subseteq Actors
  BY DEF Actors
<1> USE <1>a DEF At, Goto, Rest
<1>1. ASSUME NEW c \in Callers, NEW j \in Job, Request(c, j) PROVE TypeInv'
  <2> DEFINE r == [Idle EXCEPT !.job = j,
                         !.at = IF j \in Seeded THEN "lookup" ELSE "record_read"]
  <2>1. Sound(r) /\ act' = [act EXCEPT ![c] = r]
    BY <1>1, <1>a, <1>b, <1>c DEF Request, Sound, Activity, CallerAt, Settling, Idle, Final, RowStatus
  <2>2. StoresOK'
    BY <1>1, <1>a DEF Request, StoresOK, redis, quota
  <2> QED
    BY <2>1, <2>2, <1>c, Become
<1>2. ASSUME NEW c \in Callers, NEW j \in Job, CancelLook(c, j) PROVE TypeInv'
  <2> DEFINE r == [Idle EXCEPT !.job = j,
                         !.at = IF rq[j] = "queued" THEN "cancel" ELSE "stop"]
  <2>1. Sound(r) /\ act' = [act EXCEPT ![c] = r]
    BY <1>2, <1>a, <1>b, <1>c DEF CancelLook, Sound, Activity, CallerAt, Settling, Idle, Final, RowStatus
  <2>2. StoresOK'
    BY <1>2, <1>a DEF CancelLook, StoresOK, redis, quota
  <2> QED
    BY <2>1, <2>2, <1>c, Become
<1>3. ASSUME NEW c \in Callers, Reuse(c) PROVE TypeInv'
  <2> DEFINE r == Idle
  <2>1. Sound(r) /\ act' = [act EXCEPT ![c] = r]
    BY <1>3, <1>a, <1>b, <1>c DEF Reuse, Sound, Activity, CallerAt, Settling, Idle, Final, RowStatus
  <2>2. StoresOK'
    BY <1>3, <1>a DEF Reuse, StoresOK, redis, quota
  <2> QED
    BY <2>1, <2>2, <1>c, Become
<1>4. ASSUME NEW c \in Callers, RunAnew(c) PROVE TypeInv'
  <2> DEFINE r == [act[c] EXCEPT
                    !.at = IF rq[act[c].job] = "none" THEN "record_read" ELSE "delete"]
  <2>1. Sound(r) /\ act' = [act EXCEPT ![c] = r] /\ act[c].job \in Job
    BY <1>4, <1>a, <1>b, <1>c DEF RunAnew, Sound, Activity, CallerAt, Settling
  <2>2. StoresOK'
    BY <1>4, <1>a, <2>1 DEF RunAnew, StoresOK, redis, quota, Taint
  <2> QED
    BY <2>1, <2>2, <1>c, Become
<1>5. ASSUME NEW c \in Callers, DeleteOld(c) PROVE TypeInv'
  <2> DEFINE r == [act[c] EXCEPT !.at = "record_read"]
  <2>1. Sound(r) /\ act' = [act EXCEPT ![c] = r]
    BY <1>5, <1>a, <1>b, <1>c DEF DeleteOld, Sound, Activity, CallerAt, Settling
  <2>2. StoresOK'
    BY <1>5, <1>a, WithoutType DEF DeleteOld, StoresOK, redis, quota, RqStatus
  <2> QED
    BY <2>1, <2>2, <1>c, Become
<1>6. ASSUME NEW c \in Callers, RecordRead(c) PROVE TypeInv'
  <2> DEFINE r == [act[c] EXCEPT !.at = "record_write", !.saw = row[act[c].job]]
  <2>1. Sound(r) /\ act' = [act EXCEPT ![c] = r]
    BY <1>6, <1>a, <1>b, <1>c DEF RecordRead, Sound, Activity, CallerAt, Settling, StoresOK
  <2>2. StoresOK'
    BY <1>6, <1>a DEF RecordRead, StoresOK, redis, quota
  <2> QED
    BY <2>1, <2>2, <1>c, Become
<1>7. ASSUME NEW c \in Callers, RecordWrite(c) PROVE TypeInv'
  <2> DEFINE r == [act[c] EXCEPT !.at = "rearm", !.saw = "none"]
  <2>0. Sound(act[c]) /\ act[c].at = "record_write"
    BY <1>7, <1>a, <1>c DEF RecordWrite
  <2>1. Sound(Idle) /\ Sound(r)
    BY <2>0 DEF Sound, Activity, CallerAt, Settling, Idle, Final, RowStatus
  <2>2. act' = [act EXCEPT ![c] = Idle] \/ act' = [act EXCEPT ![c] = r]
    BY <1>7, <1>b, <1>c DEF RecordWrite
  <2>3. StoresOK'
    BY <1>7 DEF RecordWrite, StoresOK, redis, quota, RowStatus
  <2> QED
    BY <2>1, <2>2, <2>3, <1>c, Become
<1>8. ASSUME NEW c \in Callers, Rearm(c) PROVE TypeInv'
  <2> DEFINE r == [act[c] EXCEPT !.at = "count"]
  <2>1. Sound(r) /\ act' = [act EXCEPT ![c] = r]
    BY <1>8, <1>a, <1>b, <1>c DEF Rearm, Sound, Activity, CallerAt, Settling
  <2>2. StoresOK'
    BY <1>8, <1>a DEF Rearm, StoresOK, redis, quota
  <2> QED
    BY <2>1, <2>2, <1>c, Become
<1>9. ASSUME NEW c \in Callers, Count(c) PROVE TypeInv'
  <2> DEFINE r == [act[c] EXCEPT !.at = "push"]
  <2>1. Sound(r) /\ act' = [act EXCEPT ![c] = r]
    BY <1>9, <1>a, <1>b, <1>c DEF Count, Sound, Activity, CallerAt, Settling
  <2>2. StoresOK'
    BY <1>9, <1>a DEF Count, StoresOK, redis, quota
  <2> QED
    BY <2>1, <2>2, <1>c, Become
<1>10. ASSUME NEW c \in Callers, Push(c) PROVE TypeInv'
  <2> DEFINE r == Idle
  <2>1. Sound(r) /\ act' = [act EXCEPT ![c] = r] /\ act[c].job \in Job
    BY <1>10, <1>a, <1>b, <1>c DEF Push, Sound, Activity, CallerAt, Settling, Idle, Final, RowStatus
  <2>2. StoresOK'
    BY <1>10, <1>a, <2>1 DEF Push, StoresOK, redis, quota, RqStatus
  <2> QED
    BY <2>1, <2>2, <1>c, Become
<1>11. ASSUME NEW c \in Callers, PushRefused(c) PROVE TypeInv'
  <2> DEFINE r == [act[c] EXCEPT !.at = "read_row", !.outcome = "failed"]
  <2>1. Sound(r) /\ act' = [act EXCEPT ![c] = r]
    BY <1>11, <1>a, <1>b, <1>c DEF PushRefused, Sound, Activity, CallerAt, Settling, Final
  <2>2. StoresOK'
    BY <1>11, <1>a DEF PushRefused, StoresOK, redis, quota
  <2> QED
    BY <2>1, <2>2, <1>c, Become
<1>12. ASSUME NEW c \in Callers, CancelQueued(c) PROVE TypeInv'
  <2> DEFINE r == [act[c] EXCEPT !.at = "read_row", !.outcome = "cancelled"]
  <2>1. Sound(Idle) /\ Sound(r) /\ act[c].job \in Job
    BY <1>12, <1>a, <1>c, ZenonT(40) DEF CancelQueued, Sound, Activity, CallerAt, Settling, Idle, Final, RowStatus
  <2>2. act' = [act EXCEPT ![c] = Idle] \/ act' = [act EXCEPT ![c] = r]
    BY <1>12, <1>b, <1>c DEF CancelQueued
  <2>3. StoresOK'
    BY <1>12, <2>1, WithoutType DEF CancelQueued, StoresOK, redis, quota, RqStatus, Taint
  <2> QED
    BY <2>1, <2>2, <2>3, <1>c, Become
<1>13. ASSUME NEW c \in Callers, StopRunning(c) PROVE TypeInv'
  <2>1. Sound(Idle) /\ act' = [act EXCEPT ![c] = Idle] /\ act[c].job \in Job
    BY <1>13, <1>a, <1>c DEF StopRunning, Sound, Activity, CallerAt, Idle, Settling, Final, RowStatus
  <2>2. StoresOK'
    BY <1>13, <2>1 DEF StopRunning, StoresOK, redis, quota
  <2> QED
    BY <2>1, <2>2, <1>c, Become
<1>14. ASSUME NEW w \in Workers, Pop(w) PROVE TypeInv'
  <2> DEFINE r == [Idle EXCEPT !.at = "popped", !.job = Head(queue), !.by = "horse"]
  <2>1. Head(queue) \in Job /\ queue' \in Seq(Job)
    BY <1>14 DEF Pop, StoresOK
  <2>2. Sound(r)
    BY <2>1 DEF Sound, Activity, WorkerAt, Settling, Idle, Final, RowStatus
  <2>3. UNCHANGED act \/ act' = [act EXCEPT ![w] = r]
    BY <1>14 DEF Pop
  <2>4. StoresOK'
    BY <1>14, <2>1 DEF Pop, StoresOK, quota
  <2>5. CASE act' = [act EXCEPT ![w] = r]
    BY <2>2, <2>4, <2>5, <1>c, Become
  <2>6. CASE UNCHANGED act
    BY <2>4, <2>6, <1>a, <1>c, Become
  <2> QED
    BY <2>3, <2>5, <2>6
<1>15. ASSUME NEW w \in Workers, Start(w) PROVE TypeInv'
  <2> DEFINE r == [act[w] EXCEPT !.at = "running"]
  <2>1. Sound(r) /\ act' = [act EXCEPT ![w] = r]
    BY <1>15, <1>a, <1>b, <1>c DEF Start, Sound, Activity, WorkerAt, Settling
  <2>2. StoresOK'
    BY <1>15, <1>a DEF Start, StoresOK, redis, quota, RqStatus
  <2> QED
    BY <2>1, <2>2, <1>c, Become
<1>16. ASSUME NEW w \in Workers, NEW o \in {"finished", "failed"}, Complete(w, o) PROVE TypeInv'
  <2> DEFINE r == [act[w] EXCEPT !.at = "read_row", !.outcome = o]
  <2>1. Sound(r) /\ act' = [act EXCEPT ![w] = r]
    BY <1>16, <1>a, <1>b, <1>c DEF Complete, Sound, Activity, WorkerAt, Settling, Final
  <2>2. StoresOK'
    BY <1>16 DEF Complete, StoresOK, redis, quota
  <2> QED
    BY <2>1, <2>2, <1>c, Become
<1>17. ASSUME NEW w \in Workers, HorseDies(w) PROVE TypeInv'
  <2> DEFINE r == [act[w] EXCEPT !.at = "read_row", !.outcome = "failed",
                             !.saw = "none", !.by = "parent"]
  <2>1. Sound(r) /\ act' = [act EXCEPT ![w] = r] /\ act[w].job \in Job
    BY <1>17, <1>a, <1>b, <1>c, ZenonT(40) DEF HorseDies, LoseHorse, Sound, Activity, WorkerAt, Settling, Final, RowStatus
  <2>2. StoresOK'
    BY <1>17, <1>a, <2>1 DEF HorseDies, StoresOK, redis, quota, LoseHorse, Taint
  <2> QED
    BY <2>1, <2>2, <1>c, Become
<1>18. ASSUME NEW w \in Workers, NEW j \in Job, StopArrives(w, j) PROVE TypeInv'
  <2> DEFINE r == [act[w] EXCEPT !.at = "read_row", !.outcome = "cancelled",
                             !.saw = "none", !.by = "parent"]
  <2>1. StoresOK'
    BY <1>18 DEF StopArrives, LoseHorse, StoresOK, redis, quota, Taint
  <2>2. CASE act[w].job = j /\ act[w].by = "horse"
    <3>1. Sound(r) /\ act' = [act EXCEPT ![w] = r]
      BY <1>18, <2>2, <1>a, <1>b, <1>c, ZenonT(40)
      DEF StopArrives, LoseHorse, Sound, Activity, WorkerAt, Settling, Final, RowStatus
    <3> QED
      BY <2>1, <3>1, <1>c, Become
  <2>3. CASE ~(act[w].job = j /\ act[w].by = "horse")
    BY <2>1, <2>3, <1>18, <1>a, <1>c, Become DEF StopArrives
  <2> QED
    BY <2>2, <2>3
<1>19. ASSUME NEW w \in Workers, End(w) PROVE TypeInv'
  <2> DEFINE r == Idle
  <2>1. Sound(r) /\ act' = [act EXCEPT ![w] = r]
    BY <1>19, <1>a, <1>b, <1>c DEF End, Sound, Activity, WorkerAt, Settling, Idle, Final, RowStatus
  <2>2. StoresOK'
    BY <1>19, <1>a, <1>c DEF End, StoresOK, redis, quota, RqStatus, Sound, Settling, Final
  <2> QED
    BY <2>1, <2>2, <1>c, Become
<1>20. ASSUME NEW w \in Workers, NEW j \in Job, Abandoned(w, j) PROVE TypeInv'
  <2> DEFINE r == [Idle EXCEPT !.at = "read_row", !.job = j, !.outcome = "failed"]
  <2>1. Sound(r) /\ act' = [act EXCEPT ![w] = r]
    BY <1>20, <1>a, <1>b, <1>c DEF Abandoned, Sound, Activity, WorkerAt, Settling, Idle, Final, RowStatus
  <2>2. StoresOK'
    BY <1>20, <1>a DEF Abandoned, StoresOK, redis, quota
  <2> QED
    BY <2>1, <2>2, <1>c, Become
<1>21. ASSUME NEW a \in Actors, SettleRead(a) PROVE TypeInv'
  <2> DEFINE r == [act[a] EXCEPT !.at = "write_row", !.saw = row[act[a].job]]
  <2>1. Sound(r) /\ act' = [act EXCEPT ![a] = r]
    BY <1>21, <1>a, <1>b, <1>c DEF SettleRead, Sound, Activity, CallerAt, Settling, StoresOK
  <2>2. StoresOK'
    BY <1>21, <1>a DEF SettleRead, StoresOK, redis, quota
  <2> QED
    BY <2>1, <2>2, <1>c, Become
<1>22. ASSUME NEW a \in Actors, SettleWrite(a) PROVE TypeInv'
  <2> DEFINE r == [act[a] EXCEPT !.at = "mark", !.saw = "none"]
  <2>1. Sound(r) /\ act' = [act EXCEPT ![a] = r]
    BY <1>22, <1>a, <1>b, <1>c DEF SettleWrite, Sound, Activity, CallerAt, Settling, RowStatus
  <2>2. StoresOK'
    BY <1>22, <1>a DEF SettleWrite, StoresOK, redis, quota, RowStatus, Sound, Settling
  <2> QED
    BY <2>1, <2>2, <1>c, Become
<1>23. ASSUME NEW a \in Actors, Mark(a) PROVE TypeInv'
  <2>1. act[a].at \in Settling /\ act[a].job \in Job
    BY <1>23, <1>a DEF Mark, Sound, Settling
  <2>2. StoresOK'
    BY <1>23, <2>1 DEF Mark, StoresOK, redis, quota
  <2>3. \/ act' = [act EXCEPT ![a].at = "end"] \/ act' = [act EXCEPT ![a] = Idle]
        \/ act' = [act EXCEPT ![a].at = "decr"]
    BY <1>23 DEF Mark, Settled
  <2> QED
    BY <2>1, <2>2, <2>3, LeaveSettling
<1>24. ASSUME NEW a \in Actors, Decr(a) PROVE TypeInv'
  <2>1. act[a].at \in Settling /\ act[a].job \in Job
    BY <1>24, <1>a DEF Decr, Sound, Settling
  <2>2. StoresOK'
    BY <1>24, <2>1 DEF Decr, StoresOK, redis, quota
  <2>3. \/ act' = [act EXCEPT ![a].at = "end"] \/ act' = [act EXCEPT ![a] = Idle]
        \/ act' = [act EXCEPT ![a].at = "clamp"]
    BY <1>24 DEF Decr, Settled
  <2> QED
    BY <2>1, <2>2, <2>3, LeaveSettling
<1>25. ASSUME NEW a \in Actors, Clamp(a) PROVE TypeInv'
  <2>1. act[a].at \in Settling /\ act[a].job \in Job
    BY <1>25, <1>a DEF Clamp, Sound, Settling
  <2>2. StoresOK'
    BY <1>25, <2>1 DEF Clamp, StoresOK, redis, quota
  <2>3. \/ act' = [act EXCEPT ![a].at = "end"] \/ act' = [act EXCEPT ![a] = Idle]
    BY <1>25 DEF Clamp, Settled
  <2> QED
    BY <2>1, <2>2, <2>3, LeaveSettling
<1>26. ASSUME NEW w \in Workers, WorkerDies(w) PROVE TypeInv'
  <2>1. Sound(Idle) /\ act' = [act EXCEPT ![w] = Idle] /\ act[w].job \in Job
    BY <1>26, <1>a, <1>c
    DEF WorkerDies, Sound, Activity, WorkerAt, CallerAt, Idle, Settling, Final, RowStatus
  <2>2. StoresOK'
    BY <1>26, <2>1 DEF WorkerDies, Fault, StoresOK, redis, quota, Taint
  <2> QED
    BY <2>1, <2>2, <1>c, Become
<1>27. ASSUME NEW c \in Callers, CallerDies(c) PROVE TypeInv'
  <2>1. Sound(Idle) /\ act' = [act EXCEPT ![c] = Idle] /\ act[c].job \in Job
    BY <1>27, <1>a, <1>c
    DEF CallerDies, Sound, Activity, WorkerAt, CallerAt, Idle, Settling, Final, RowStatus
  <2>2. StoresOK'
    BY <1>27, <2>1 DEF CallerDies, Fault, StoresOK, redis, quota, Taint
  <2> QED
    BY <2>1, <2>2, <1>c, Become
<1>28. ASSUME NEW a \in Actors, SettleRefused(a) PROVE TypeInv'
  <2> DEFINE r == [act[a] EXCEPT !.at = "read_row", !.saw = "none", !.outcome = "failed"]
  <2>1. act[a].at \in Settling /\ act[a].job \in Job /\ Sound(r)
    BY <1>28, <1>a DEF SettleRefused, Sound, Activity, CallerAt, Settling, Final, RowStatus
  <2>2. StoresOK'
    BY <1>28, <2>1 DEF SettleRefused, Fault, StoresOK, redis, quota, Taint
  <2>3. CASE act' = [act EXCEPT ![a] = r]
    BY <2>1, <2>2, <2>3, Become
  <2>4. CASE \/ act' = [act EXCEPT ![a].at = "end"] \/ act' = [act EXCEPT ![a] = Idle]
    BY <2>1, <2>2, <2>4, LeaveSettling
  <2> QED
    BY <1>28, <2>3, <2>4 DEF SettleRefused, Settled
<1>29. CASE UNCHANGED vars
  BY <1>29 DEF vars, TypeInv, ActOK, StoresOK
<1>s. ASSUME NEW a \in Actors, Settle(a) PROVE TypeInv'
  BY <1>21, <1>22, <1>23, <1>24, <1>25, <1>s DEF Settle
<1>t. ASSUME NEW c \in Callers, CallerStep(c) PROVE TypeInv'
  BY <1>3, <1>4, <1>5, <1>6, <1>7, <1>8, <1>9, <1>10, <1>11, <1>12, <1>13, <1>s, <1>t, <1>c
  DEF CallerStep, Enqueue, Cancel
<1>u. ASSUME NEW w \in Workers, Work(w) PROVE TypeInv'
  BY <1>14, <1>15, <1>16, <1>19, <1>s, <1>u, <1>c DEF Work
<1> QED
  BY <1>1, <1>2, <1>27, <1>17, <1>26, <1>18, <1>20, <1>28, <1>29, <1>t, <1>u DEF Next

(* Every variable keeps its type in every reachable state. *)
THEOREM TypeCorrect == Spec => []TypeOK
<1>1. TypeInv => TypeOK
  BY DEF TypeInv, StoresOK, ActOK, TypeOK
<1> QED
  BY <1>1, TypeInit, TypeNext, PTL DEF Spec

-----------------------------------------------------------------------------
(* The quota.  A call that has passed job_quota_available and has not yet  *)
(* counted its job is in flight; a check passes only below the limit, so   *)
(* counter plus calls in flight stays below limit plus callers.            *)

Flight   == {"lookup", "delete", "record_read", "record_write", "rearm", "count"}
InFlight == {c \in Callers : act[c].at \in Flight}

QuotaInv ==
  /\ running + Cardinality(InFlight) <= MaxConcurrent - 1 + Cardinality(Callers)
  /\ today + Cardinality(InFlight) <= MaxPerDay - 1 + Cardinality(Callers)

LEMMA FlightFinite ==
  /\ IsFiniteSet(InFlight) /\ Cardinality(InFlight) \in Nat
  /\ Cardinality(Callers) \in Nat /\ Cardinality(InFlight) <= Cardinality(Callers)
<1>1. InFlight \subseteq Callers /\ IsFiniteSet(Callers)
  BY JobsAssumption DEF InFlight
<1> QED
  BY <1>1, FS_Subset, FS_CardinalityType

LEMMA FlightFinitePrimed ==
  /\ IsFiniteSet(InFlight') /\ Cardinality(InFlight') \in Nat
  /\ Cardinality(InFlight') <= Cardinality(Callers)
<1>1. InFlight' \subseteq Callers /\ IsFiniteSet(Callers)
  BY JobsAssumption DEF InFlight
<1> QED
  BY <1>1, FS_Subset, FS_CardinalityType

(* A step that brings nobody into flight and only lowers the counters (or, *)
(* for the clamp, sets the running one to zero) keeps the quota invariant. *)
LEMMA QuotaKept ==
  ASSUME TypeInv, TypeInv', QuotaInv, InFlight' \subseteq InFlight,
         running' <= running \/ running' = 0, UNCHANGED today
  PROVE  QuotaInv'
<1>1. Cardinality(InFlight') <= Cardinality(InFlight)
  BY FlightFinite, FS_Subset
<1>2. running \in Int /\ running' \in Int /\ today \in Nat
  BY DEF TypeInv, StoresOK
<1>3. MaxConcurrent >= 1 /\ MaxConcurrent \in Nat /\ MaxPerDay \in Nat
  BY JobsAssumption
<1> QED
  BY <1>1, <1>2, <1>3, FlightFinite, FlightFinitePrimed, JobsAssumption DEF QuotaInv

LEMMA QuotaNext == TypeInv /\ QuotaInv /\ [Next]_vars => QuotaInv'
<1> SUFFICES ASSUME TypeInv, QuotaInv, [Next]_vars PROVE QuotaInv'
  OBVIOUS
<1>a. TypeInv'
  BY TypeNext
<1>b. /\ act \in [Actors -> Activity] /\ running \in Int /\ running' \in Int /\ today \in Nat
      /\ Callers \subseteq Actors /\ Workers \subseteq Actors /\ Callers \cap Workers = {}
  BY <1>a, JobsAssumption DEF TypeInv, StoresOK, ActOK, Actors
<1>c. /\ MaxConcurrent \in Nat /\ MaxConcurrent >= 1
      /\ MaxPerDay \in Nat /\ Cardinality(Callers) \in Nat
  BY JobsAssumption, FlightFinite
<1>1. ASSUME NEW c \in Callers, NEW j \in Job, CancelLook(c, j) PROVE QuotaInv'
  <2>1. InFlight' \subseteq InFlight
    BY <1>1, <1>b DEF CancelLook, At, Goto, Rest, InFlight, Flight, Activity, Idle
  <2>2. (running' <= running \/ running' = 0) /\ UNCHANGED today
    BY <1>1, <1>b DEF CancelLook, quota
  <2> QED
    BY <2>1, <2>2, <1>a, QuotaKept
<1>2. ASSUME NEW c \in Callers, Reuse(c) PROVE QuotaInv'
  <2>1. InFlight' \subseteq InFlight
    BY <1>2, <1>b DEF Reuse, At, Goto, Rest, InFlight, Flight, Activity, Idle
  <2>2. (running' <= running \/ running' = 0) /\ UNCHANGED today
    BY <1>2, <1>b DEF Reuse, quota
  <2> QED
    BY <2>1, <2>2, <1>a, QuotaKept
<1>3. ASSUME NEW c \in Callers, RunAnew(c) PROVE QuotaInv'
  <2>1. InFlight' \subseteq InFlight
    BY <1>3, <1>b DEF RunAnew, At, Goto, Rest, InFlight, Flight, Activity, Idle
  <2>2. (running' <= running \/ running' = 0) /\ UNCHANGED today
    BY <1>3, <1>b DEF RunAnew, quota
  <2> QED
    BY <2>1, <2>2, <1>a, QuotaKept
<1>4. ASSUME NEW c \in Callers, DeleteOld(c) PROVE QuotaInv'
  <2>1. InFlight' \subseteq InFlight
    BY <1>4, <1>b DEF DeleteOld, At, Goto, Rest, InFlight, Flight, Activity, Idle
  <2>2. (running' <= running \/ running' = 0) /\ UNCHANGED today
    BY <1>4, <1>b DEF DeleteOld, quota
  <2> QED
    BY <2>1, <2>2, <1>a, QuotaKept
<1>5. ASSUME NEW c \in Callers, RecordRead(c) PROVE QuotaInv'
  <2>1. InFlight' \subseteq InFlight
    BY <1>5, <1>b DEF RecordRead, At, Goto, Rest, InFlight, Flight, Activity, Idle
  <2>2. (running' <= running \/ running' = 0) /\ UNCHANGED today
    BY <1>5, <1>b DEF RecordRead, quota
  <2> QED
    BY <2>1, <2>2, <1>a, QuotaKept
<1>6. ASSUME NEW c \in Callers, RecordWrite(c) PROVE QuotaInv'
  <2>1. InFlight' \subseteq InFlight
    BY <1>6, <1>b DEF RecordWrite, At, Goto, Rest, InFlight, Flight, Activity, Idle
  <2>2. (running' <= running \/ running' = 0) /\ UNCHANGED today
    BY <1>6, <1>b DEF RecordWrite, quota
  <2> QED
    BY <2>1, <2>2, <1>a, QuotaKept
<1>7. ASSUME NEW c \in Callers, Rearm(c) PROVE QuotaInv'
  <2>1. InFlight' \subseteq InFlight
    BY <1>7, <1>b DEF Rearm, At, Goto, Rest, InFlight, Flight, Activity, Idle
  <2>2. (running' <= running \/ running' = 0) /\ UNCHANGED today
    BY <1>7, <1>b DEF Rearm, quota
  <2> QED
    BY <2>1, <2>2, <1>a, QuotaKept
<1>8. ASSUME NEW c \in Callers, Push(c) PROVE QuotaInv'
  <2>1. InFlight' \subseteq InFlight
    BY <1>8, <1>b DEF Push, At, Goto, Rest, InFlight, Flight, Activity, Idle
  <2>2. (running' <= running \/ running' = 0) /\ UNCHANGED today
    BY <1>8, <1>b DEF Push, quota
  <2> QED
    BY <2>1, <2>2, <1>a, QuotaKept
<1>9. ASSUME NEW c \in Callers, PushRefused(c) PROVE QuotaInv'
  <2>1. InFlight' \subseteq InFlight
    BY <1>9, <1>b DEF PushRefused, At, Goto, Rest, InFlight, Flight, Activity, Idle
  <2>2. (running' <= running \/ running' = 0) /\ UNCHANGED today
    BY <1>9, <1>b DEF PushRefused, quota
  <2> QED
    BY <2>1, <2>2, <1>a, QuotaKept
<1>10. ASSUME NEW c \in Callers, CancelQueued(c) PROVE QuotaInv'
  <2>1. InFlight' \subseteq InFlight
    BY <1>10, <1>b DEF CancelQueued, At, Goto, Rest, InFlight, Flight, Activity, Idle
  <2>2. (running' <= running \/ running' = 0) /\ UNCHANGED today
    BY <1>10, <1>b DEF CancelQueued, quota
  <2> QED
    BY <2>1, <2>2, <1>a, QuotaKept
<1>11. ASSUME NEW c \in Callers, StopRunning(c) PROVE QuotaInv'
  <2>1. InFlight' \subseteq InFlight
    BY <1>11, <1>b DEF StopRunning, At, Goto, Rest, InFlight, Flight, Activity, Idle
  <2>2. (running' <= running \/ running' = 0) /\ UNCHANGED today
    BY <1>11, <1>b DEF StopRunning, quota
  <2> QED
    BY <2>1, <2>2, <1>a, QuotaKept
<1>12. ASSUME NEW w \in Workers, Pop(w) PROVE QuotaInv'
  <2>1. InFlight' \subseteq InFlight
    BY <1>12, <1>b DEF Pop, At, Goto, Rest, InFlight, Flight, Activity, Idle
  <2>2. (running' <= running \/ running' = 0) /\ UNCHANGED today
    BY <1>12, <1>b DEF Pop, quota
  <2> QED
    BY <2>1, <2>2, <1>a, QuotaKept
<1>13. ASSUME NEW w \in Workers, Start(w) PROVE QuotaInv'
  <2>1. InFlight' \subseteq InFlight
    BY <1>13, <1>b DEF Start, At, Goto, Rest, InFlight, Flight, Activity, Idle
  <2>2. (running' <= running \/ running' = 0) /\ UNCHANGED today
    BY <1>13, <1>b DEF Start, quota
  <2> QED
    BY <2>1, <2>2, <1>a, QuotaKept
<1>14. ASSUME NEW w \in Workers, End(w) PROVE QuotaInv'
  <2>1. InFlight' \subseteq InFlight
    BY <1>14, <1>b DEF End, At, Goto, Rest, InFlight, Flight, Activity, Idle
  <2>2. (running' <= running \/ running' = 0) /\ UNCHANGED today
    BY <1>14, <1>b DEF End, quota
  <2> QED
    BY <2>1, <2>2, <1>a, QuotaKept
<1>15. ASSUME NEW w \in Workers, NEW o \in {"finished", "failed"}, Complete(w, o) PROVE QuotaInv'
  <2>1. InFlight' \subseteq InFlight
    BY <1>15, <1>b DEF Complete, At, Goto, Rest, InFlight, Flight, Activity
  <2>2. (running' <= running \/ running' = 0) /\ UNCHANGED today
    BY <1>15, <1>b DEF Complete, quota
  <2> QED
    BY <2>1, <2>2, <1>a, QuotaKept
<1>16. ASSUME NEW w \in Workers, HorseDies(w) PROVE QuotaInv'
  <2>1. InFlight' \subseteq InFlight
    BY <1>16, <1>b DEF HorseDies, At, Goto, Rest, InFlight, Flight, Activity, LoseHorse
  <2>2. (running' <= running \/ running' = 0) /\ UNCHANGED today
    BY <1>16, <1>b DEF HorseDies, quota
  <2> QED
    BY <2>1, <2>2, <1>a, QuotaKept
<1>17. ASSUME NEW w \in Workers, NEW j \in Job, StopArrives(w, j) PROVE QuotaInv'
  <2>1. InFlight' \subseteq InFlight
    BY <1>17, <1>b DEF StopArrives, At, Goto, Rest, InFlight, Flight, Activity, LoseHorse
  <2>2. (running' <= running \/ running' = 0) /\ UNCHANGED today
    BY <1>17, <1>b DEF StopArrives, quota
  <2> QED
    BY <2>1, <2>2, <1>a, QuotaKept
<1>18. ASSUME NEW w \in Workers, NEW j \in Job, Abandoned(w, j) PROVE QuotaInv'
  <2>1. InFlight' \subseteq InFlight
    BY <1>18, <1>b DEF Abandoned, At, Goto, Rest, InFlight, Flight, Activity, Idle
  <2>2. (running' <= running \/ running' = 0) /\ UNCHANGED today
    BY <1>18, <1>b DEF Abandoned, quota
  <2> QED
    BY <2>1, <2>2, <1>a, QuotaKept
<1>19. ASSUME NEW a \in Actors, SettleRead(a) PROVE QuotaInv'
  <2>1. InFlight' \subseteq InFlight
    BY <1>19, <1>b DEF SettleRead, At, Goto, Rest, InFlight, Flight, Activity
  <2>2. (running' <= running \/ running' = 0) /\ UNCHANGED today
    BY <1>19, <1>b DEF SettleRead, quota
  <2> QED
    BY <2>1, <2>2, <1>a, QuotaKept
<1>20. ASSUME NEW a \in Actors, SettleWrite(a) PROVE QuotaInv'
  <2>1. InFlight' \subseteq InFlight
    BY <1>20, <1>b DEF SettleWrite, At, Goto, Rest, InFlight, Flight, Activity
  <2>2. (running' <= running \/ running' = 0) /\ UNCHANGED today
    BY <1>20, <1>b DEF SettleWrite, quota
  <2> QED
    BY <2>1, <2>2, <1>a, QuotaKept
<1>21. ASSUME NEW a \in Actors, Mark(a) PROVE QuotaInv'
  <2>1. InFlight' \subseteq InFlight
    BY <1>21, <1>b DEF Mark, At, Goto, Rest, InFlight, Flight, Activity, Settled, Idle
  <2>2. (running' <= running \/ running' = 0) /\ UNCHANGED today
    BY <1>21, <1>b DEF Mark, quota, Settled
  <2> QED
    BY <2>1, <2>2, <1>a, QuotaKept
<1>22. ASSUME NEW a \in Actors, Decr(a) PROVE QuotaInv'
  <2>1. InFlight' \subseteq InFlight
    BY <1>22, <1>b DEF Decr, At, Goto, Rest, InFlight, Flight, Activity, Settled, Idle
  <2>2. (running' <= running \/ running' = 0) /\ UNCHANGED today
    BY <1>22, <1>b DEF Decr, quota, Settled
  <2> QED
    BY <2>1, <2>2, <1>a, QuotaKept
<1>23. ASSUME NEW a \in Actors, Clamp(a) PROVE QuotaInv'
  <2>1. InFlight' \subseteq InFlight
    BY <1>23, <1>b DEF Clamp, At, Goto, Rest, InFlight, Flight, Activity, Settled, Idle
  <2>2. (running' <= running \/ running' = 0) /\ UNCHANGED today
    BY <1>23, <1>b DEF Clamp, quota, Settled
  <2> QED
    BY <2>1, <2>2, <1>a, QuotaKept
<1>24. ASSUME NEW w \in Workers, WorkerDies(w) PROVE QuotaInv'
  <2>1. InFlight' \subseteq InFlight
    BY <1>24, <1>b DEF WorkerDies, At, Goto, Rest, InFlight, Flight, Activity, Idle
  <2>2. (running' <= running \/ running' = 0) /\ UNCHANGED today
    BY <1>24, <1>b DEF WorkerDies, quota
  <2> QED
    BY <2>1, <2>2, <1>a, QuotaKept
<1>25. ASSUME NEW c \in Callers, CallerDies(c) PROVE QuotaInv'
  <2>1. InFlight' \subseteq InFlight
    BY <1>25, <1>b DEF CallerDies, At, Goto, Rest, InFlight, Flight, Activity, Idle
  <2>2. (running' <= running \/ running' = 0) /\ UNCHANGED today
    BY <1>25, <1>b DEF CallerDies, quota
  <2> QED
    BY <2>1, <2>2, <1>a, QuotaKept
<1>26. ASSUME NEW a \in Actors, SettleRefused(a) PROVE QuotaInv'
  <2> DEFINE r == [act[a] EXCEPT !.at = "read_row", !.saw = "none", !.outcome = "failed"]
  <2>1. \/ act' = [act EXCEPT ![a] = r]
        \/ act' = [act EXCEPT ![a].at = "end"] \/ act' = [act EXCEPT ![a] = Idle]
    BY <1>26 DEF SettleRefused, Settled, Goto, Rest
  <2>a. r.at = "read_row"
    BY <1>b DEF Activity
  <2>b. act'[a].at \in {"read_row", "end", "idle"} /\ \A b \in Actors \ {a} : act'[b] = act[b]
    <3> HIDE DEF r
    <3>1. CASE act' = [act EXCEPT ![a] = r]
      BY <3>1, <2>a, <1>b
    <3>2. CASE act' = [act EXCEPT ![a].at = "end"]
      BY <3>2, <1>b DEF Activity
    <3>3. CASE act' = [act EXCEPT ![a] = Idle]
      BY <3>3, <1>b DEF Idle
    <3> QED
      BY <2>1, <3>1, <3>2, <3>3
  <2>2. InFlight' \subseteq InFlight
    BY <2>b, <1>b DEF InFlight, Flight
  <2>3. UNCHANGED <<running, today>>
    BY <1>26 DEF SettleRefused, quota
  <2> QED
    BY <2>2, <2>3, <1>a, <1>b, QuotaKept
<1>27. ASSUME NEW c \in Callers, NEW j \in Job, Request(c, j) PROVE QuotaInv'
  <2>1. running < MaxConcurrent /\ today < MaxPerDay /\ UNCHANGED <<running, today>>
    BY <1>27 DEF Request, quota
  <2> QED
    BY <2>1, <1>b, <1>c, FlightFinitePrimed DEF QuotaInv
<1>28. ASSUME NEW c \in Callers, Count(c) PROVE QuotaInv'
  <2>1. c \in InFlight /\ InFlight' = InFlight \ {c}
    BY <1>28, <1>b DEF Count, At, Goto, InFlight, Flight, Activity
  <2>2. Cardinality(InFlight') = Cardinality(InFlight) - 1
    BY <2>1, FlightFinite, FS_RemoveElement
  <2>3. running' = running + 1 /\ today' = today + 1
    BY <1>28 DEF Count
  <2> QED
    BY <2>2, <2>3, <1>b, <1>c, FlightFinite DEF QuotaInv
<1>29. CASE UNCHANGED vars
  <2>1. UNCHANGED <<InFlight, running, today>>
    BY <1>29 DEF vars, InFlight
  <2> QED
    BY <2>1 DEF QuotaInv
<1>s. ASSUME NEW a \in Actors, Settle(a) PROVE QuotaInv'
  BY <1>19, <1>20, <1>21, <1>22, <1>23, <1>s DEF Settle
<1>t. ASSUME NEW c \in Callers, CallerStep(c) PROVE QuotaInv'
  BY <1>2, <1>3, <1>4, <1>5, <1>6, <1>7, <1>28, <1>8, <1>9, <1>10, <1>11, <1>s, <1>t, <1>b
  DEF CallerStep, Enqueue, Cancel
<1>u. ASSUME NEW w \in Workers, Work(w) PROVE QuotaInv'
  BY <1>12, <1>13, <1>15, <1>14, <1>s, <1>u, <1>b DEF Work
<1> QED
  BY <1>27, <1>1, <1>25, <1>16, <1>24, <1>17, <1>18, <1>26, <1>29, <1>t, <1>u DEF Next

LEMMA QuotaInit == Init => QuotaInv
<1> SUFFICES ASSUME Init PROVE QuotaInv
  OBVIOUS
<1>1. InFlight = {}
  BY DEF Init, InFlight, Flight, Idle, Actors
<1>2. Cardinality(InFlight) = 0
  BY <1>1, FS_EmptySet
<1> QED
  BY <1>2, FlightFinite, JobsAssumption DEF Init, QuotaInv

(* However calls, workers and faults interleave, the running and the daily *)
(* counter exceed their limits by less than the number of calls that run   *)
(* at the same time.                                                       *)
THEOREM QuotaOvershoot == Spec => []OvershootBounded
<1>1. TypeInv /\ QuotaInv => OvershootBounded
  <2> SUFFICES ASSUME TypeInv, QuotaInv PROVE OvershootBounded
    OBVIOUS
  <2>1. running \in Int /\ today \in Nat
    BY DEF TypeInv, StoresOK
  <2> QED
    BY <2>1, FlightFinite, JobsAssumption DEF QuotaInv, OvershootBounded
<1> QED
  BY <1>1, TypeInit, TypeNext, QuotaInit, QuotaNext, PTL DEF Spec

-----------------------------------------------------------------------------
(***************************************************************************)
(* The three records of a job agree, as long as the id met no window.  The *)
(* invariant says of each untouched id that at most one actor is at work   *)
(* on it (Owns; the others have only looked it up), that it is not in the  *)
(* queue meanwhile, and what RQ's status, the row and the released marker  *)
(* are at each point of that actor's program (Fits); and what they are     *)
(* when nobody is at work on it: queued and open, or at rest (Loose).      *)
(***************************************************************************)
Watching == {"lookup", "cancel", "stop"}
Restable == {"none", "failed", "stopped", "canceled"}

Owns(a, j) == act[a].job = j /\ act[a].at \notin Watching

(* Of an id's row w, with S the ids whose marker is set: nothing is        *)
(* running under it, or its run has not been settled.                      *)
Closed(w, j, S) == w = "none" \/ (w \in Final /\ j \in S)
Open(w, j, S)   == w = "queued" /\ j \notin S

Fits(a, r, j, q, w, S) ==
  /\ a \in Callers => q \in Restable
  /\ a \in Workers => q \in {"queued", "started"}
  /\ r.at \in {"delete", "record_read", "record_write"} => Closed(w, j, S)
  /\ r.at \in {"record_write", "write_row"} => r.saw = w
  /\ r.at = "rearm" => w = "queued"
  /\ r.at \in {"count", "push", "popped", "running"} => Open(w, j, S)
  /\ r.at \in {"read_row", "write_row"} => w \in Final \/ Open(w, j, S)
  /\ r.at \in {"read_row", "write_row"} /\ r.outcome = "finished" => w = "queued"
  /\ r.at \in {"mark", "decr", "clamp", "end"} =>
       w \in Final /\ (r.outcome = "finished" => w = "finished")
  /\ r.at \in {"decr", "clamp", "end"} => j \in S

Loose(j, q, w, S) ==
  /\ q # "queued" /\ (q = "finished" => w = "finished")
  /\ IF q = "started" THEN w \in Final \/ Open(w, j, S) ELSE Closed(w, j, S)

Waiting(j, q, w, S) == q = "queued" /\ Open(w, j, S)

Once(j) == \A i, k \in DOMAIN queue : queue[i] = j /\ queue[k] = j => i = k

Tidy(j) ==
  /\ Once(j)
  /\ \A a, b \in Actors : Owns(a, j) /\ Owns(b, j) => a = b
  /\ \A a \in Actors : Owns(a, j) => ~Queued(j) /\ Fits(a, act[a], j, rq[j], row[j], released)
  /\ (\A a \in Actors : ~Owns(a, j)) =>
       IF Queued(j) THEN Waiting(j, rq[j], row[j], released) ELSE Loose(j, rq[j], row[j], released)

Tame == \A j \in Job \ tainted : Tidy(j)

(* Who does what: an idle actor holds nothing.                             *)
Roles == /\ \A a \in Actors : act[a].at = "idle" => act[a] = Idle
         /\ \A c \in Callers : act[c].at \in CallerAt
         /\ \A w \in Workers : act[w].at \in WorkerAt

(* The queue: what a step on one id does to the copies of the others.      *)
SameCopies(j) == (Queued(j)' <=> Queued(j)) /\ (Once(j) => Once(j)')

LEMMA CopiesStay == ASSUME UNCHANGED queue, NEW j PROVE SameCopies(j)
BY DEF SameCopies, Queued, Once

LEMMA CopiesAppend ==
  ASSUME queue \in Seq(Job), NEW j \in Job, queue' = Append(queue, j)
  PROVE  (\A i \in Job \ {j} : SameCopies(i)) /\ (~Queued(j) => Queued(j)' /\ Once(j)')
<1>1. /\ DOMAIN queue = 1..Len(queue) /\ Len(queue) \in Nat /\ DOMAIN queue' = 1..(Len(queue) + 1)
      /\ queue'[Len(queue) + 1] = j /\ \A i \in 1..Len(queue) : queue'[i] = queue[i]
  OBVIOUS
<1>2. ASSUME NEW i \in Job \ {j} PROVE SameCopies(i)
  <2>1. \A k \in DOMAIN queue' : queue'[k] = i => k \in DOMAIN queue
    BY <1>1
  <2> QED BY <1>1, <2>1 DEF SameCopies, Queued, Once
<1>3. ASSUME ~Queued(j) PROVE Queued(j)' /\ Once(j)'
  <2>1. \A k \in DOMAIN queue' : queue'[k] = j <=> k = Len(queue) + 1
    BY <1>1, <1>3 DEF Queued
  <2> QED BY <1>1, <2>1 DEF Queued, Once
<1> QED BY <1>2, <1>3

LEMMA CopiesTail ==
  ASSUME queue \in Seq(Job), queue # << >>, queue' = Tail(queue), NEW h, h = Head(queue)
  PROVE  /\ \A i \in Job \ {h} : SameCopies(i)
         /\ h \in Job /\ Queued(h)
         /\ Once(h) => ~Queued(h)' /\ Once(h)'
<1>1. /\ DOMAIN queue = 1..Len(queue) /\ Len(queue) \in Nat \ {0} /\ DOMAIN queue' = 1..(Len(queue) - 1)
      /\ queue[1] = h /\ h \in Job /\ \A i \in 1..(Len(queue) - 1) : queue'[i] = queue[i + 1]
  OBVIOUS
<1>2. /\ \A k \in DOMAIN queue' : k + 1 \in DOMAIN queue /\ k + 1 # 1 /\ queue[k + 1] = queue'[k]
      /\ \A k \in DOMAIN queue : k # 1 => k - 1 \in DOMAIN queue' /\ queue'[k - 1] = queue[k]
  BY <1>1
<1>3. ASSUME NEW i \in Job \ {h} PROVE SameCopies(i)
  <2>1. Queued(i) => Queued(i)'
    BY <1>1, <1>2, <1>3 DEF Queued
  <2>2. Queued(i)' => Queued(i)
    BY <1>2 DEF Queued
  <2>3. ASSUME Once(i), NEW k \in DOMAIN queue', NEW n \in DOMAIN queue', queue'[k] = i, queue'[n] = i
        PROVE  k = n
    <3>1. k + 1 = n + 1
      BY <1>2, <2>3 DEF Once
    <3> QED BY <1>1, <3>1
  <2> QED BY <2>1, <2>2, <2>3 DEF SameCopies, Once
<1>4. ASSUME Once(h) PROVE \A k \in DOMAIN queue' : queue'[k] # h
  <2> SUFFICES ASSUME NEW k \in DOMAIN queue', queue'[k] = h PROVE FALSE
    OBVIOUS
  <2>1. 1 \in DOMAIN queue
    BY <1>1
  <2>2. k + 1 = 1
    BY <1>1, <1>2, <1>4, <2>1 DEF Once
  <2> QED BY <1>2, <2>2
<1>5. Queued(h)
  BY <1>1 DEF Queued
<1>6. Once(h) => ~Queued(h)' /\ Once(h)'
  BY <1>4 DEF Queued, Once
<1> QED BY <1>1, <1>3, <1>5, <1>6

(* Every nonempty set of naturals has a least element: the subset order on *)
(* finite sets, of which the library proves it, contains the order 0..m.   *)
LEMMA Smallest ==
  ASSUME NEW T, T \subseteq Nat, T # {}
  PROVE  \E m \in T : \A k \in T : ~(k < m)
<1> DEFINE Up(m) == 0 .. m
           R  == StrictSubsetOrdering(Nat)
           Us == {Up(m) : m \in T}
<1>1. IsWellFoundedOn(R, FiniteSubsetsOf(Nat))
  BY FS_StrictSubsetOrderingWellFounded
<1>2. \A m \in T : Up(m) \in FiniteSubsetsOf(Nat)
  BY FS_Interval DEF FiniteSubsetsOf
<1>3. \A k, m \in T : k < m => <<Up(k), Up(m)>> \in R
  <2> SUFFICES ASSUME NEW k \in T, NEW m \in T, k < m PROVE <<Up(k), Up(m)>> \in R
    OBVIOUS
  <2>1. m \in Up(m) /\ m \notin Up(k) /\ Up(k) \subseteq Up(m) /\ Up(m) \subseteq Nat
    OBVIOUS
  <2>2. Up(k) # Up(m)
    BY <2>1
  <2> HIDE DEF Up
  <2> QED BY <2>1, <2>2 DEF StrictSubsetOrdering
<1> HIDE DEF R, Up
<1>4. Us \subseteq FiniteSubsetsOf(Nat) /\ Us # {}
  BY <1>2
<1>5. PICK U \in Us : \A V \in Us : ~(<<V, U>> \in R)
  <2> HIDE DEF Us
  <2> QED BY <1>1, <1>4, WFMin
<1>6. PICK m \in T : U = Up(m)
  OBVIOUS
<1> QED BY <1>3, <1>5, <1>6

LEMMA CopiesWithout ==
  ASSUME queue \in Seq(Job), NEW j \in Job, queue' = Without(j)
  PROVE  /\ \A i \in Job \ {j} : SameCopies(i)
         /\ Once(j) => ~Queued(j)' /\ Once(j)'
         /\ ~Queued(j) => queue' = queue
<1>1. CASE ~Queued(j)
  <2>1. queue' = queue
    BY <1>1 DEF Without
  <2> QED BY <1>1, <2>1, CopiesStay DEF Queued, Once
<1>2. CASE Queued(j)
  <2> DEFINE First(i) == queue[i] = j /\ \A k \in 1 .. i - 1 : queue[k] # j
             first == CHOOSE i \in DOMAIN queue : First(i)
  <2>1. DOMAIN queue = 1..Len(queue) /\ Len(queue) \in Nat
    OBVIOUS
  <2>2. \E i \in DOMAIN queue : First(i)
    <3> DEFINE T == {i \in DOMAIN queue : queue[i] = j}
    <3>1. T \subseteq Nat /\ T # {}
      BY <1>2, <2>1 DEF Queued
    <3>2. PICK m \in T : \A k \in T : ~(k < m)
      <4> HIDE DEF T
      <4> QED BY <3>1, Smallest
    <3>3. \A k \in 1 .. m - 1 : queue[k] # j
      BY <2>1, <3>2
    <3> QED BY <3>2, <3>3
  <2>3. first \in 1..Len(queue) /\ queue[first] = j
    <3> HIDE DEF First
    <3>1. first \in DOMAIN queue /\ First(first)
      BY <2>2
    <3> QED BY <2>1, <3>1 DEF First
  <2> DEFINE rest == [i \in 1 .. Len(queue) - 1 |-> IF i < first THEN queue[i] ELSE queue[i + 1]]
  <2>4. queue' = rest
    BY <1>2 DEF Without
  <2> HIDE DEF first
  <2>5. /\ DOMAIN queue' = 1..(Len(queue) - 1)
        /\ \A i \in 1..(Len(queue) - 1) : queue'[i] = IF i < first THEN queue[i] ELSE queue[i + 1]
    BY <2>4
  <2> DEFINE Old(i) == IF i < first THEN i ELSE i + 1
             New(i) == IF i < first THEN i ELSE i - 1
  <2>6. \A i \in DOMAIN queue' : Old(i) \in DOMAIN queue /\ Old(i) # first /\ queue[Old(i)] = queue'[i]
    BY <2>1, <2>3, <2>5
  <2>7. \A i \in DOMAIN queue : i # first => New(i) \in DOMAIN queue' /\ queue'[New(i)] = queue[i]
    BY <2>1, <2>3, <2>5
  <2>8. \A i, k \in DOMAIN queue' : Old(i) = Old(k) => i = k
    BY <2>3, <2>5
  <2>9. ASSUME NEW i \in Job \ {j} PROVE SameCopies(i)
    <3> HIDE DEF Old, New
    <3>1. Queued(i) => Queued(i)'
      BY <2>3, <2>7, <2>9 DEF Queued
    <3>2. Queued(i)' => Queued(i)
      BY <2>6 DEF Queued
    <3>3. Once(i) => Once(i)'
      BY <2>6, <2>8 DEF Once
    <3> QED BY <3>1, <3>2, <3>3 DEF SameCopies
  <2>10. ASSUME Once(j) PROVE ~Queued(j)' /\ Once(j)'
    <3> HIDE DEF Old, New
    <3>1. first \in DOMAIN queue /\ queue[first] = j
      BY <2>1, <2>3
    <3>2. \A i \in DOMAIN queue' : queue'[i] # j
      BY <2>6, <2>10, <3>1 DEF Once
    <3> QED BY <3>2 DEF Queued, Once
  <2> QED BY <1>2, <2>9, <2>10
<1> QED BY <1>1, <1>2

-----------------------------------------------------------------------------
(* What a step may do to a job, as the jobs table and the slots show it.   *)
Still(j) == row'[j] = row[j] /\ (j \in SlotTaken' <=> j \in SlotTaken)

Recorded(j) ==
  /\ row[j] \in {"none"} \cup Final /\ j \notin SlotTaken
  /\ row'[j] = "queued" /\ j \notin SlotTaken'
  /\ \E c \in Callers : At(c, "record_write") /\ act[c].job = j

Taken(j)    == row'[j] = row[j] /\ row[j] = "queued" /\ j \notin SlotTaken /\ j \in SlotTaken'
Ended(j)    == row[j] = "queued" /\ row'[j] \in Final /\ j \in SlotTaken /\ j \in SlotTaken'
Returned(j) == row'[j] = row[j] /\ row[j] \in Final /\ j \in SlotTaken /\ j \notin SlotTaken'

(* ... together with the counter. *)
Move(j) ==
  \/ running' = running /\ (Still(j) \/ Recorded(j) \/ Ended(j))
  \/ running' = running + 1 /\ Taken(j)
  \/ running' = running - 1 /\ Returned(j)
  \/ (\E a \in Actors : act[a].at = "clamp") /\ Still(j)

(* The job a step is about meets a window or makes one of these moves; for *)
(* every other job the step changes nothing.                               *)
Own(j)   == j \in tainted' \/ (j \notin tainted /\ Tidy(j)' /\ Move(j))
Apart(i) == (i \in tainted' <=> i \in tainted) /\ (i \notin tainted => Tidy(i)') /\ Still(i)
Rise     == \A a \in Actors : act'[a].at = "clamp" => act[a].at = "clamp" \/ running' < 0
Step(j)  == (\A i \in Job \ {j} : Apart(i)) /\ Own(j) /\ Roles' /\ Rise

Good == TypeInv /\ Roles /\ Tame

(* A step in which a, at work on j, goes on as r; and one that leaves what *)
(* the stores say of the other jobs alone.                                 *)
Alone(a, j, r) ==
  /\ act' = [act EXCEPT ![a] = r]
  /\ (act[a].job \in {j, NoJob} /\ r.job \in {j, NoJob}) \/ r = act[a]
  /\ r.at = "idle" => r = Idle
  /\ a \in Callers => r.at \in CallerAt
  /\ a \in Workers => r.at \in WorkerAt
  /\ r.at = "clamp" => act[a].at = "clamp" \/ running' < 0

Kept(i)   == /\ rq'[i] = rq[i] /\ row'[i] = row[i]
             /\ (i \in released' <=> i \in released) /\ SameCopies(i)
Spared(j) == \A i \in Job \ {j} : (i \in tainted' <=> i \in tainted) /\ Kept(i)

(* r holds j and does more than look it up; only a may do so. *)
Busy(r, j) == r.job = j /\ r.at \notin Watching
Sole(a, j) == \A b \in Actors : Owns(b, j) => b = a

(* Whether j's slot is taken, when r belongs to the only one at work on j. *)
SlotBy(r, j, w, S) == \/ w # "none" /\ j \notin S /\ ~(r.job = j /\ r.at \in {"rearm", "count"})
                      \/ r.job = j /\ r.at = "decr"

(* What a step leaves alone of a job that its actor is not at work on.     *)
LEMMA Aside ==
  ASSUME TypeInv, NEW a \in Actors, NEW j, NEW r, Alone(a, j, r), NEW i \in Job, Kept(i),
         (~Busy(act[a], i) /\ ~Busy(r, i)) \/ r = act[a]
  PROVE  Still(i) /\ (Tidy(i) => Tidy(i)')
<1>1. \A b \in Actors : act'[b] = IF b = a THEN r ELSE act[b]
  BY DEF TypeInv, ActOK, Alone
<1>2. \A b \in Actors : /\ Owns(b, i)' <=> Owns(b, i)
                        /\ Owns(b, i) => act'[b] = act[b]
                        /\ Owns(b, i)' => act'[b] = act[b]
  BY <1>1 DEF Busy, Owns
<1>3. /\ rq'[i] = rq[i] /\ row'[i] = row[i] /\ (i \in released' <=> i \in released)
      /\ Queued(i)' <=> Queued(i)
      /\ Once(i) => Once(i)'
  BY DEF Kept, SameCopies
<1>4. \A b \in Actors : act'[b].job = i /\ act'[b].at \in {"rearm", "count", "decr"}
                   <=> act[b].job = i /\ act[b].at \in {"rearm", "count", "decr"}
  BY <1>2 DEF Owns, Watching
<1>5. \A b \in Actors : act'[b].job = i /\ act'[b].at \in {"rearm", "count", "decr"}
                   => act'[b] = act[b]
  BY <1>2 DEF Owns, Watching
<1>6. (Counting(i)' <=> Counting(i)) /\ (Returning(i)' <=> Returning(i))
  BY <1>4, <1>5 DEF Counting, Returning, At, Actors
<1>7. Still(i)
  BY <1>3, <1>6 DEF Still, SlotTaken
<1>8. ASSUME Tidy(i) PROVE Tidy(i)'
  <2>1. Once(i)'
    BY <1>3, <1>8 DEF Tidy
  <2>2. \A x, y \in Actors : Owns(x, i)' /\ Owns(y, i)' => x = y
    BY <1>2, <1>8 DEF Tidy
  <2>3. ASSUME NEW x \in Actors, Owns(x, i)'
        PROVE  ~Queued(i)' /\ Fits(x, act'[x], i, rq'[i], row'[i], released')
    <3>1. Owns(x, i) /\ act'[x] = act[x]
      BY <1>2, <2>3
    <3>2. ~Queued(i) /\ Fits(x, act[x], i, rq[i], row[i], released)
      BY <1>8, <3>1 DEF Tidy
    <3> QED BY <1>3, <3>1, <3>2 DEF Fits, Closed, Open
  <2>4. ASSUME \A x \in Actors : ~Owns(x, i)'
        PROVE  IF Queued(i)' THEN Waiting(i, rq'[i], row'[i], released')
                             ELSE Loose(i, rq'[i], row'[i], released')
    <3>1. IF Queued(i) THEN Waiting(i, rq[i], row[i], released)
                       ELSE Loose(i, rq[i], row[i], released)
      BY <1>2, <1>8, <2>4 DEF Tidy
    <3> QED BY <1>3, <3>1 DEF Waiting, Loose, Closed, Open
  <2> QED BY <2>1, <2>2, <2>3, <2>4 DEF Tidy
<1> QED BY <1>7, <1>8

(* So a step is about one job: what remains is what it does to that one.   *)
LEMMA AboutOne ==
  ASSUME Good, NEW a \in Actors, NEW j \in Job, NEW r, Alone(a, j, r), Spared(j), Own(j)
  PROVE  Step(j)
<1>1. \A b \in Actors : act'[b] = IF b = a THEN r ELSE act[b]
  BY DEF Good, TypeInv, ActOK, Alone
<1>2. ASSUME NEW i \in Job \ {j} PROVE Apart(i)
  <2>1. (~Busy(act[a], i) /\ ~Busy(r, i)) \/ r = act[a]
    BY <1>2, JobsAssumption DEF Alone, Busy
  <2>2. Kept(i) /\ (i \in tainted' <=> i \in tainted)
    BY <1>2 DEF Spared
  <2>3. Still(i) /\ (Tidy(i) => Tidy(i)')
    BY <2>1, <2>2, Aside DEF Good
  <2>4. i \notin tainted => Tidy(i)
    BY DEF Good, Tame
  <2> QED BY <2>2, <2>3, <2>4 DEF Apart
<1>3. Roles'
  <2>1. \A b \in Actors : act'[b].at = "idle" => act'[b] = Idle
    BY <1>1 DEF Good, Roles, Alone
  <2>2. \A c \in Callers : act'[c].at \in CallerAt
    BY <1>1 DEF Good, Roles, Alone, Actors
  <2>3. \A w \in Workers : act'[w].at \in WorkerAt
    BY <1>1 DEF Good, Roles, Alone, Actors
  <2> QED BY <2>1, <2>2, <2>3 DEF Roles
<1>4. Rise
  BY <1>1 DEF Rise, Alone
<1> QED BY <1>2, <1>3, <1>4 DEF Step

(* The actor at work on j goes on with it ... *)
LEMMA SoleBusy ==
  ASSUME TypeInv, NEW a \in Actors, NEW j \in Job, NEW r, Alone(a, j, r), Sole(a, j),
         Busy(r, j), Once(j)', ~Queued(j)', Fits(a, r, j, rq'[j], row'[j], released')
  PROVE  Tidy(j)'
<1>1. \A b \in Actors : act'[b] = IF b = a THEN r ELSE act[b]
  BY DEF TypeInv, ActOK, Alone
<1>2. \A b \in Actors : Owns(b, j)' <=> b = a
  BY <1>1 DEF Owns, Busy, Sole
<1>3. act'[a] = r
  BY <1>1
<1> QED BY <1>2, <1>3 DEF Tidy

(* ... or leaves it to the queue or at rest. *)
LEMMA SoleDone ==
  ASSUME TypeInv, NEW a \in Actors, NEW j \in Job, NEW r, Alone(a, j, r), Sole(a, j),
         ~Busy(r, j), Once(j)',
         IF Queued(j)' THEN Waiting(j, rq'[j], row'[j], released')
                       ELSE Loose(j, rq'[j], row'[j], released')
  PROVE  Tidy(j)'
<1>1. \A b \in Actors : act'[b] = IF b = a THEN r ELSE act[b]
  BY DEF TypeInv, ActOK, Alone
<1>2. \A b \in Actors : ~Owns(b, j)'
  BY <1>1 DEF Owns, Busy, Sole
<1> QED BY <1>2 DEF Tidy

LEMMA SoleSlot ==
  ASSUME TypeInv, Roles, NEW a \in Actors, NEW j \in Job, NEW r, Alone(a, j, r), Sole(a, j)
  PROVE  /\ j \in SlotTaken  <=> SlotBy(act[a], j, row[j], released)
         /\ j \in SlotTaken' <=> SlotBy(r, j, row'[j], released')
<1>1. \A b \in Actors : act'[b] = IF b = a THEN r ELSE act[b]
  BY DEF TypeInv, ActOK, Alone
<1>2. \A b \in Actors : b # a => ~Busy(act[b], j)
  BY DEF Sole, Owns, Busy
<1>3. a \in Workers => act[a].at \notin {"rearm", "count"} /\ r.at \notin {"rearm", "count"}
  BY DEF Roles, WorkerAt, Settling, Alone
<1>4. /\ Counting(j) <=> act[a].job = j /\ act[a].at \in {"rearm", "count"}
      /\ Returning(j) <=> act[a].job = j /\ act[a].at = "decr"
  BY <1>2, <1>3 DEF Counting, Returning, At, Busy, Watching, Actors
<1>5. /\ Counting(j)' <=> r.job = j /\ r.at \in {"rearm", "count"}
      /\ Returning(j)' <=> r.job = j /\ r.at = "decr"
  BY <1>1, <1>2, <1>3 DEF Counting, Returning, At, Busy, Watching, Actors
<1> QED BY <1>4, <1>5 DEF SlotTaken, SlotBy

(* What is known of an actor, and of the job it is at work on. *)
LEMMA Known ==
  ASSUME Good, NEW a \in Actors
  PROVE  /\ act[a] \in Activity /\ (act[a].at # "idle" => act[a].job \in Job)
         /\ act[a].by = "horse" => act[a].at # "idle"
         /\ act[a].at \in Settling \cup {"end"} => act[a].outcome \in Final
         /\ act[a].at = "idle" => act[a] = Idle
         /\ a \in Callers => act[a].at \in CallerAt
         /\ a \in Workers => act[a].at \in WorkerAt
BY DEF Good, TypeInv, ActOK, Sound, Roles

LEMMA Apply == ASSUME Good, NEW a \in Actors, NEW r, act' = [act EXCEPT ![a] = r] PROVE act'[a] = r
BY DEF Good, TypeInv, ActOK

LEMMA OwnerKnows ==
  ASSUME Good, NEW a \in Actors, NEW j \in Job, j \notin tainted, Busy(act[a], j)
  PROVE  /\ Sole(a, j) /\ Once(j) /\ ~Queued(j)
         /\ Fits(a, act[a], j, rq[j], row[j], released)
BY DEF Good, Tame, Tidy, Sole, Owns, Busy

LEMMA NobodyKnows ==
  ASSUME Good, NEW j \in Job, j \notin tainted, \A a \in Actors : ~Owns(a, j)
  PROVE  /\ Once(j)
         /\ IF Queued(j) THEN Waiting(j, rq[j], row[j], released)
                         ELSE Loose(j, rq[j], row[j], released)
BY DEF Good, Tame, Tidy

(* A step that leaves the stores alone and whose actor is not at work. *)
LEMMA Bystander ==
  ASSUME Good, NEW a \in Actors, NEW j \in Job, NEW r, Alone(a, j, r),
         UNCHANGED <<rq, queue, row, released, running, tainted>>,
         (~Busy(act[a], j) /\ ~Busy(r, j)) \/ r = act[a]
  PROVE  Step(j)
<1>1. \A i \in Job : Kept(i)
  BY CopiesStay DEF Kept
<1>2. Spared(j)
  BY <1>1 DEF Spared
<1>3. Still(j) /\ (Tidy(j) => Tidy(j)')
  BY <1>1, Aside DEF Good
<1>4. Own(j)
  BY <1>3 DEF Own, Move, Good, Tame
<1> QED BY <1>2, <1>4, AboutOne

(* The actor at work on j takes its next step, off the queue as before.    *)
LEMMA OwnerStep ==
  ASSUME Good, NEW a \in Actors, NEW j \in Job, NEW r, Alone(a, j, r), Spared(j),
         Busy(act[a], j), tainted \subseteq tainted', UNCHANGED queue,
         j \notin tainted' /\ Fits(a, act[a], j, rq[j], row[j], released) =>
           /\ IF Busy(r, j) THEN Fits(a, r, j, rq'[j], row'[j], released')
                            ELSE Loose(j, rq'[j], row'[j], released')
           /\ \/ /\ running' = running
                 /\ row'[j] = row[j]
                 /\ SlotBy(act[a], j, row[j], released) <=> SlotBy(r, j, row'[j], released')
              \/ /\ running' = running
                 /\ row[j] \in {"none"} \cup Final /\ ~SlotBy(act[a], j, row[j], released)
                 /\ row'[j] = "queued" /\ ~SlotBy(r, j, row'[j], released')
                 /\ a \in Callers /\ act[a].at = "record_write"
              \/ /\ running' = running
                 /\ row[j] = "queued" /\ row'[j] \in Final
                 /\ SlotBy(act[a], j, row[j], released) /\ SlotBy(r, j, row'[j], released')
              \/ /\ running' = running + 1
                 /\ row'[j] = row[j] /\ row[j] = "queued"
                 /\ ~SlotBy(act[a], j, row[j], released) /\ SlotBy(r, j, row'[j], released')
              \/ /\ running' = running - 1
                 /\ row'[j] = row[j] /\ row[j] \in Final
                 /\ SlotBy(act[a], j, row[j], released) /\ ~SlotBy(r, j, row'[j], released')
              \/ /\ act[a].at = "clamp" /\ row'[j] = row[j]
                 /\ SlotBy(act[a], j, row[j], released) <=> SlotBy(r, j, row'[j], released')
  PROVE  Step(j)
<1>1. ASSUME j \notin tainted' PROVE j \notin tainted /\ Tidy(j)' /\ Move(j)
  <2>1. j \notin tainted
    BY <1>1
  <2>2. /\ Sole(a, j) /\ Once(j) /\ ~Queued(j)
        /\ Fits(a, act[a], j, rq[j], row[j], released)
    BY <2>1, OwnerKnows
  <2>3. ~Queued(j)' /\ Once(j)'
    BY <2>2, CopiesStay DEF SameCopies
  <2>4. /\ j \in SlotTaken  <=> SlotBy(act[a], j, row[j], released)
        /\ j \in SlotTaken' <=> SlotBy(r, j, row'[j], released')
    BY <2>2, SoleSlot DEF Good
  <2>5. Move(j)
    BY <1>1, <2>2, <2>4 DEF Move, Still, Recorded, Ended, Taken, Returned, At, Busy
  <2>6. CASE Busy(r, j)
    <3>1. Tidy(j)'
      BY <1>1, <2>2, <2>3, <2>6, SoleBusy DEF Good
    <3> QED BY <2>1, <2>5, <3>1
  <2>7. CASE ~Busy(r, j)
    <3>1. Tidy(j)'
      BY <1>1, <2>2, <2>3, <2>7, SoleDone DEF Good
    <3> QED BY <2>1, <2>5, <3>1
  <2> QED BY <2>6, <2>7
<1>2. Own(j)
  BY <1>1 DEF Own
<1> QED BY <1>2, AboutOne

(* The id changes hands: an actor takes up a job nobody is at work on.     *)
LEMMA TakeUp ==
  ASSUME Good, NEW a \in Actors, NEW j \in Job, NEW r, Alone(a, j, r), Spared(j),
         tainted \subseteq tainted', running' = running, row' = row, released' = released,
         j \notin tainted' =>
           /\ \A b \in Actors : ~Owns(b, j)
           /\ Busy(r, j) /\ r.at \notin {"rearm", "count", "decr"}
           /\ ~Queued(j)' /\ Once(j)' /\ Fits(a, r, j, rq'[j], row'[j], released')
  PROVE  Step(j)
<1>1. ASSUME j \notin tainted' PROVE j \notin tainted /\ Tidy(j)' /\ Move(j)
  <2>1. j \notin tainted
    BY <1>1
  <2>2. Sole(a, j) /\ ~Busy(act[a], j)
    BY <1>1 DEF Sole, Owns, Busy
  <2>3. /\ j \in SlotTaken  <=> SlotBy(act[a], j, row[j], released)
        /\ j \in SlotTaken' <=> SlotBy(r, j, row'[j], released')
    BY <2>2, SoleSlot DEF Good
  <2>4. Still(j)
    BY <1>1, <2>2, <2>3 DEF Still, SlotBy, Busy, Watching
  <2>5. Tidy(j)'
    BY <1>1, <2>2, SoleBusy DEF Good
  <2> QED BY <2>1, <2>4, <2>5 DEF Move
<1>2. Own(j)
  BY <1>1 DEF Own
<1> QED BY <1>2, AboutOne

(* One lemma for each action.                                              *)
LEMMA ReuseStep ==
  ASSUME Good, NEW c \in Callers, NEW j \in Job, act[c].job = j, Reuse(c)
  PROVE  Step(j)
<1>1. PICK r : r = Idle
  OBVIOUS
<1>2. c \in Actors /\ (c \in Callers <=> c \notin Workers)
  BY JobsAssumption DEF Actors
<1>3. Alone(c, j, r)
  BY <1>1, <1>2, Known DEF Reuse, Alone, Idle, Rest, CallerAt
<1>4. UNCHANGED <<rq, queue, row, released, running, tainted>>
  BY DEF Reuse, redis, quota
<1>5. (~Busy(act[c], j) /\ ~Busy(r, j)) \/ r = act[c]
  BY <1>1, <1>2, Known, JobsAssumption DEF Reuse, Busy, Watching, Idle, At
<1> QED BY <1>2, <1>3, <1>4, <1>5, Bystander

LEMMA CancelLookStep ==
  ASSUME Good, NEW c \in Callers, NEW j \in Job, CancelLook(c, j)
  PROVE  Step(j)
<1>1. PICK r : r = [Idle EXCEPT !.job = j, !.at = IF rq[j] = "queued" THEN "cancel" ELSE "stop"]
  OBVIOUS
<1>2. c \in Actors /\ (c \in Callers <=> c \notin Workers)
  BY JobsAssumption DEF Actors
<1>3. Alone(c, j, r)
  BY <1>1, <1>2, Known DEF CancelLook, Alone, Idle, At, CallerAt
<1>4. UNCHANGED <<rq, queue, row, released, running, tainted>>
  BY DEF CancelLook, redis, quota
<1>5. (~Busy(act[c], j) /\ ~Busy(r, j)) \/ r = act[c]
  BY <1>1, <1>2, Known, JobsAssumption DEF CancelLook, Busy, Watching, Idle, At
<1> QED BY <1>2, <1>3, <1>4, <1>5, Bystander

LEMMA StopRunningStep ==
  ASSUME Good, NEW c \in Callers, NEW j \in Job, act[c].job = j, StopRunning(c)
  PROVE  Step(j)
<1>1. PICK r : r = Idle
  OBVIOUS
<1>2. c \in Actors /\ (c \in Callers <=> c \notin Workers)
  BY JobsAssumption DEF Actors
<1>3. Alone(c, j, r)
  BY <1>1, <1>2, Known DEF StopRunning, Alone, Idle, Rest, CallerAt
<1>4. UNCHANGED <<rq, queue, row, released, running, tainted>>
  BY DEF StopRunning, redis, quota
<1>5. (~Busy(act[c], j) /\ ~Busy(r, j)) \/ r = act[c]
  BY <1>1, <1>2, Known, JobsAssumption DEF StopRunning, Busy, Watching, Idle, At
<1> QED BY <1>2, <1>3, <1>4, <1>5, Bystander

LEMMA RecordReadStep ==
  ASSUME Good, NEW c \in Callers, NEW j \in Job, act[c].job = j, RecordRead(c)
  PROVE  Step(j)
<1>1. PICK r : r = [act[c] EXCEPT !.at = "record_write", !.saw = row[j]]
  OBVIOUS
<1>2. c \in Actors /\ (c \in Callers <=> c \notin Workers)
  BY JobsAssumption DEF Actors
<1>3. Alone(c, j, r)
  BY <1>1, <1>2, Known DEF RecordRead, Alone, Activity, CallerAt
<1>4. UNCHANGED queue
  BY DEF RecordRead, redis
<1>5. Spared(j) /\ tainted \subseteq tainted'
  BY <1>4, CopiesStay DEF RecordRead, Spared, Kept, redis
<1>6. Busy(act[c], j)
  BY <1>1, <1>2, Known, JobsAssumption DEF RecordRead, Busy, Watching, At, Settling,
     WorkerAt
<1>7. ASSUME j \notin tainted', Fits(c, act[c], j, rq[j], row[j], released)
      PROVE  IF Busy(r, j) THEN Fits(c, r, j, rq'[j], row'[j], released')
                          ELSE Loose(j, rq'[j], row'[j], released')
  BY <1>1, <1>2, <1>7, Known DEF RecordRead, Fits, Loose, Restable, At, redis
<1>8. ASSUME j \notin tainted', Fits(c, act[c], j, rq[j], row[j], released)
      PROVE  running' = running /\ row'[j] = row[j]
             /\ (SlotBy(act[c], j, row[j], released) <=> SlotBy(r, j, row'[j], released'))
  BY <1>1, <1>2, <1>8, Known DEF RecordRead, SlotBy, At, quota
<1> QED BY <1>2, <1>3, <1>4, <1>5, <1>6, <1>7, <1>8, OwnerStep

LEMMA RearmStep ==
  ASSUME Good, NEW c \in Callers, NEW j \in Job, act[c].job = j, Rearm(c)
  PROVE  Step(j)
<1>1. PICK r : r = [act[c] EXCEPT !.at = "count"]
  OBVIOUS
<1>2. c \in Actors /\ (c \in Callers <=> c \notin Workers)
  BY JobsAssumption DEF Actors
<1>3. Alone(c, j, r)
  BY <1>1, <1>2, Known DEF Rearm, Alone, Goto, CallerAt
<1>4. UNCHANGED queue
  BY DEF Rearm, redis
<1>5. Spared(j) /\ tainted \subseteq tainted'
  BY <1>4, CopiesStay DEF Rearm, Spared, Kept, redis
<1>6. Busy(act[c], j)
  BY <1>1, <1>2, Known, JobsAssumption DEF Rearm, Busy, Watching, At, Settling, WorkerAt
<1>7. ASSUME j \notin tainted', Fits(c, act[c], j, rq[j], row[j], released)
      PROVE  IF Busy(r, j) THEN Fits(c, r, j, rq'[j], row'[j], released')
                          ELSE Loose(j, rq'[j], row'[j], released')
  BY <1>1, <1>2, <1>7, Known DEF Rearm, Fits, Open, Busy, Watching, At, redis
<1>8. ASSUME j \notin tainted', Fits(c, act[c], j, rq[j], row[j], released)
      PROVE  running' = running /\ row'[j] = row[j]
             /\ (SlotBy(act[c], j, row[j], released) <=> SlotBy(r, j, row'[j], released'))
  BY <1>1, <1>2, <1>8, Known DEF Rearm, SlotBy, At, quota
<1> QED BY <1>2, <1>3, <1>4, <1>5, <1>6, <1>7, <1>8, OwnerStep

LEMMA CountStep ==
  ASSUME Good, NEW c \in Callers, NEW j \in Job, act[c].job = j, Count(c)
  PROVE  Step(j)
<1>1. PICK r : r = [act[c] EXCEPT !.at = "push"]
  OBVIOUS
<1>2. c \in Actors /\ (c \in Callers <=> c \notin Workers)
  BY JobsAssumption DEF Actors
<1>3. Alone(c, j, r)
  BY <1>1, <1>2, Known DEF Count, Alone, Goto, CallerAt
<1>4. UNCHANGED queue
  BY DEF Count, redis
<1>5. Spared(j) /\ tainted \subseteq tainted'
  BY <1>4, CopiesStay DEF Count, Spared, Kept, redis
<1>6. Busy(act[c], j)
  BY <1>1, <1>2, Known, JobsAssumption DEF Count, Busy, Watching, At, Settling, WorkerAt
<1>7. ASSUME j \notin tainted', Fits(c, act[c], j, rq[j], row[j], released)
      PROVE  IF Busy(r, j) THEN Fits(c, r, j, rq'[j], row'[j], released')
                          ELSE Loose(j, rq'[j], row'[j], released')
  BY <1>1, <1>2, <1>7, Known DEF Count, Fits, Busy, Watching, At, redis
<1>8. ASSUME j \notin tainted', Fits(c, act[c], j, rq[j], row[j], released)
      PROVE  running' = running + 1 /\ row'[j] = row[j] /\ row[j] = "queued"
             /\ ~SlotBy(act[c], j, row[j], released) /\ SlotBy(r, j, row'[j], released')
  BY <1>1, <1>2, <1>8, Known DEF Count, Fits, Open, SlotBy, At
<1> QED BY <1>2, <1>3, <1>4, <1>5, <1>6, <1>7, <1>8, OwnerStep

LEMMA PushRefusedStep ==
  ASSUME Good, NEW c \in Callers, NEW j \in Job, act[c].job = j, PushRefused(c)
  PROVE  Step(j)
<1>1. PICK r : r = [act[c] EXCEPT !.at = "read_row", !.outcome = "failed"]
  OBVIOUS
<1>2. c \in Actors /\ (c \in Callers <=> c \notin Workers)
  BY JobsAssumption DEF Actors
<1>3. Alone(c, j, r)
  BY <1>1, <1>2, Known DEF PushRefused, Alone, Activity, CallerAt, Settling
<1>4. UNCHANGED queue
  BY DEF PushRefused, redis
<1>5. Spared(j) /\ tainted \subseteq tainted'
  BY <1>4, CopiesStay DEF PushRefused, Spared, Kept, redis
<1>6. Busy(act[c], j)
  BY <1>1, <1>2, Known, JobsAssumption DEF PushRefused, Busy, Watching, At, Settling,
     WorkerAt
<1>7. ASSUME j \notin tainted', Fits(c, act[c], j, rq[j], row[j], released)
      PROVE  IF Busy(r, j) THEN Fits(c, r, j, rq'[j], row'[j], released')
                          ELSE Loose(j, rq'[j], row'[j], released')
  BY <1>1, <1>2, <1>7, Known DEF PushRefused, Fits, Busy, Watching, At, redis
<1>8. ASSUME j \notin tainted', Fits(c, act[c], j, rq[j], row[j], released)
      PROVE  running' = running /\ row'[j] = row[j]
             /\ (SlotBy(act[c], j, row[j], released) <=> SlotBy(r, j, row'[j], released'))
  BY <1>1, <1>2, <1>8, Known DEF PushRefused, SlotBy, At, quota
<1> QED BY <1>2, <1>3, <1>4, <1>5, <1>6, <1>7, <1>8, OwnerStep

LEMMA StartStep ==
  ASSUME Good, NEW w \in Workers, NEW j \in Job, act[w].job = j, Start(w)
  PROVE  Step(j)
<1>1. PICK r : r = [act[w] EXCEPT !.at = "running"]
  OBVIOUS
<1>2. w \in Actors /\ (w \in Callers <=> w \notin Workers)
  BY JobsAssumption DEF Actors
<1>3. Alone(w, j, r)
  BY <1>1, <1>2, Known DEF Start, Alone, Goto, WorkerAt
<1>4. UNCHANGED queue
  BY DEF Start, redis
<1>5. Spared(j) /\ tainted \subseteq tainted'
  BY <1>4, CopiesStay DEF Start, Spared, Kept
<1>6. Busy(act[w], j)
  BY <1>1, <1>2, Known, JobsAssumption DEF Start, Busy, Watching, At, Settling, WorkerAt
<1>7. ASSUME j \notin tainted', Fits(w, act[w], j, rq[j], row[j], released)
      PROVE  IF Busy(r, j) THEN Fits(w, r, j, rq'[j], row'[j], released')
                          ELSE Loose(j, rq'[j], row'[j], released')
  BY <1>1, <1>2, <1>7, Known DEF Good, TypeInv, StoresOK, Start, Fits, Loose, At
<1>8. ASSUME j \notin tainted', Fits(w, act[w], j, rq[j], row[j], released)
      PROVE  running' = running /\ row'[j] = row[j]
             /\ (SlotBy(act[w], j, row[j], released) <=> SlotBy(r, j, row'[j], released'))
  BY <1>1, <1>2, <1>8, Known DEF Start, SlotBy, At, quota
<1> QED BY <1>2, <1>3, <1>4, <1>5, <1>6, <1>7, <1>8, OwnerStep

LEMMA CompleteStep ==
  ASSUME Good, NEW w \in Workers, NEW j \in Job, act[w].job = j, NEW o, Complete(w, o)
  PROVE  Step(j)
<1>1. PICK r : r = [act[w] EXCEPT !.at = "read_row", !.outcome = o]
  OBVIOUS
<1>2. w \in Actors /\ (w \in Callers <=> w \notin Workers)
  BY JobsAssumption DEF Actors
<1>3. Alone(w, j, r)
  BY <1>1, <1>2, Known DEF Complete, Alone, Activity, WorkerAt, Settling
<1>4. UNCHANGED queue
  BY DEF Complete, redis
<1>5. Spared(j) /\ tainted \subseteq tainted'
  BY <1>4, CopiesStay DEF Complete, Spared, Kept, redis
<1>6. Busy(act[w], j)
  BY <1>1, <1>2, Known, JobsAssumption DEF Complete, Busy, Watching, At, Settling,
     WorkerAt
<1>7. ASSUME j \notin tainted', Fits(w, act[w], j, rq[j], row[j], released)
      PROVE  IF Busy(r, j) THEN Fits(w, r, j, rq'[j], row'[j], released')
                          ELSE Loose(j, rq'[j], row'[j], released')
  BY <1>1, <1>2, <1>7, Known DEF Complete, Fits, Open, Busy, Watching, At, redis
<1>8. ASSUME j \notin tainted', Fits(w, act[w], j, rq[j], row[j], released)
      PROVE  running' = running /\ row'[j] = row[j]
             /\ (SlotBy(act[w], j, row[j], released) <=> SlotBy(r, j, row'[j], released'))
  BY <1>1, <1>2, <1>8, Known DEF Complete, SlotBy, At, quota
<1> QED BY <1>2, <1>3, <1>4, <1>5, <1>6, <1>7, <1>8, OwnerStep

LEMMA EndStep ==
  ASSUME Good, NEW w \in Workers, NEW j \in Job, act[w].job = j, End(w)
  PROVE  Step(j)
<1>1. PICK r : r = Idle
  OBVIOUS
<1>2. w \in Actors /\ (w \in Callers <=> w \notin Workers)
  BY JobsAssumption DEF Actors
<1>3. Alone(w, j, r)
  BY <1>1, <1>2, Known DEF End, Alone, Idle, Rest, WorkerAt
<1>4. UNCHANGED queue
  BY DEF End, redis
<1>5. Spared(j) /\ tainted \subseteq tainted'
  BY <1>4, CopiesStay DEF End, Spared, Kept
<1>6. Busy(act[w], j)
  BY <1>1, <1>2, Known, JobsAssumption DEF End, Busy, Watching, At, Settling, WorkerAt
<1>7. ASSUME j \notin tainted', Fits(w, act[w], j, rq[j], row[j], released)
      PROVE  IF Busy(r, j) THEN Fits(w, r, j, rq'[j], row'[j], released')
                          ELSE Loose(j, rq'[j], row'[j], released')
  <2>1. Fits(w, act[w], j, rq[j], row[j], released) /\ act[w].at = "end"
    BY <1>7 DEF End, At
  <2>2. /\ row[j] \in Final /\ (act[w].outcome = "finished" => row[j] = "finished")
        /\ j \in released
    BY <2>1 DEF Fits
  <2>3. act[w].outcome \in {"finished", "failed", "cancelled"}
    BY <1>2, <2>1, Known DEF Final
  <2>4. /\ rq'[j] = CASE act[w].outcome = "finished" -> "finished"
                    [] act[w].outcome = "failed" -> "failed"
                    [] act[w].outcome = "cancelled" -> "stopped"
        /\ row' = row /\ released' = released
    BY <2>3 DEF End, Good, TypeInv, StoresOK
  <2>5. rq'[j] \in {"finished", "failed", "stopped"} /\ (rq'[j] = "finished" => row[j] = "finished")
    BY <2>2, <2>3, <2>4
  <2>6. Loose(j, rq'[j], row'[j], released')
    BY <2>2, <2>4, <2>5 DEF Loose, Closed
  <2>7. ~Busy(r, j)
    BY <1>1, JobsAssumption DEF Busy, Idle
  <2> QED BY <2>6, <2>7
<1>8. ASSUME j \notin tainted', Fits(w, act[w], j, rq[j], row[j], released)
      PROVE  running' = running /\ row'[j] = row[j]
             /\ (SlotBy(act[w], j, row[j], released) <=> SlotBy(r, j, row'[j], released'))
  BY <1>1, <1>2, <1>8, Known DEF End, SlotBy, At, Idle, quota
<1> QED BY <1>2, <1>3, <1>4, <1>5, <1>6, <1>7, <1>8, OwnerStep

LEMMA SettleReadStep ==
  ASSUME Good, NEW a \in Actors, NEW j \in Job, act[a].job = j, SettleRead(a)
  PROVE  Step(j)
<1>1. PICK r : r = [act[a] EXCEPT !.at = "write_row", !.saw = row[j]]
  OBVIOUS
<1>2. a \in Actors /\ (a \in Callers <=> a \notin Workers)
  BY JobsAssumption DEF Actors
<1>3. Alone(a, j, r)
  BY <1>1, <1>2, Known DEF SettleRead, Alone, Activity, CallerAt, WorkerAt, Settling
<1>4. UNCHANGED queue
  BY DEF SettleRead, redis
<1>5. Spared(j) /\ tainted \subseteq tainted'
  BY <1>4, CopiesStay DEF SettleRead, Spared, Kept, redis
<1>6. Busy(act[a], j)
  BY <1>1, <1>2, Known, JobsAssumption DEF SettleRead, Busy, Watching, At, Settling,
     WorkerAt
<1>7. ASSUME j \notin tainted', Fits(a, act[a], j, rq[j], row[j], released)
      PROVE  IF Busy(r, j) THEN Fits(a, r, j, rq'[j], row'[j], released')
                          ELSE Loose(j, rq'[j], row'[j], released')
  BY <1>1, <1>2, <1>7, Known DEF SettleRead, Fits, Busy, Watching, At, redis
<1>8. ASSUME j \notin tainted', Fits(a, act[a], j, rq[j], row[j], released)
      PROVE  running' = running /\ row'[j] = row[j]
             /\ (SlotBy(act[a], j, row[j], released) <=> SlotBy(r, j, row'[j], released'))
  BY <1>1, <1>2, <1>8, Known DEF SettleRead, SlotBy, At, quota
<1> QED BY <1>2, <1>3, <1>4, <1>5, <1>6, <1>7, <1>8, OwnerStep

LEMMA RecordWriteStep ==
  ASSUME Good, NEW c \in Callers, NEW j \in Job, act[c].job = j, RecordWrite(c)
  PROVE  Step(j)
<1>1. PICK r : r = IF act[c].saw = "none" /\ row[j] # "none" THEN Idle
                 ELSE [act[c] EXCEPT !.at = "rearm", !.saw = "none"]
  OBVIOUS
<1>2. c \in Actors /\ (c \in Callers <=> c \notin Workers)
  BY JobsAssumption DEF Actors
<1>3. Alone(c, j, r)
  BY <1>1, <1>2, Known, ZenonT(40) DEF RecordWrite, Alone, Activity, Idle, At, Rest, CallerAt,
     WorkerAt, Settling
<1>4. UNCHANGED queue
  BY DEF RecordWrite, redis
<1>5. Spared(j) /\ tainted \subseteq tainted'
  BY <1>4, CopiesStay DEF Good, TypeInv, StoresOK, RecordWrite, Spared, Kept, redis
<1>6. Busy(act[c], j)
  BY <1>1, <1>2, Known, JobsAssumption DEF RecordWrite, Busy, Watching, At, Settling,
     WorkerAt
<1>7. ASSUME j \notin tainted', Fits(c, act[c], j, rq[j], row[j], released)
      PROVE  IF Busy(r, j) THEN Fits(c, r, j, rq'[j], row'[j], released')
                          ELSE Loose(j, rq'[j], row'[j], released')
  BY <1>1, <1>2, <1>7, Known DEF Good, TypeInv, StoresOK, RecordWrite, Fits, Busy,
     Watching, At, redis
<1>8. ASSUME j \notin tainted', Fits(c, act[c], j, rq[j], row[j], released)
      PROVE  running' = running /\ row[j] \in {"none"} \cup Final
             /\ ~SlotBy(act[c], j, row[j], released) /\ row'[j] = "queued"
             /\ ~SlotBy(r, j, row'[j], released') /\ c \in Callers /\ act[c].at = "record_write"
  BY <1>1, <1>2, <1>8, Known DEF Good, TypeInv, StoresOK, RecordWrite, Fits, Closed,
     SlotBy, At, quota
<1> QED BY <1>2, <1>3, <1>4, <1>5, <1>6, <1>7, <1>8, OwnerStep

LEMMA SettleWriteStep ==
  ASSUME Good, NEW a \in Actors, NEW j \in Job, act[a].job = j, SettleWrite(a)
  PROVE  Step(j)
<1>1. PICK r : r = [act[a] EXCEPT !.at = "mark", !.saw = "none"]
  OBVIOUS
<1>2. a \in Actors /\ (a \in Callers <=> a \notin Workers)
  BY JobsAssumption DEF Actors
<1>3. Alone(a, j, r)
  BY <1>1, <1>2, Known DEF SettleWrite, Alone, Activity, CallerAt, WorkerAt, Settling
<1>4. UNCHANGED queue
  BY DEF SettleWrite, redis
<1>5. Spared(j) /\ tainted \subseteq tainted'
  BY <1>4, CopiesStay DEF SettleWrite, Spared, Kept, redis
<1>6. Busy(act[a], j)
  BY <1>1, <1>2, Known, JobsAssumption DEF SettleWrite, Busy, Watching, At, Settling,
     WorkerAt
<1>7. ASSUME j \notin tainted', Fits(a, act[a], j, rq[j], row[j], released)
      PROVE  IF Busy(r, j) THEN Fits(a, r, j, rq'[j], row'[j], released')
                          ELSE Loose(j, rq'[j], row'[j], released')
  BY <1>1, <1>2, <1>7, Known DEF Good, TypeInv, StoresOK, SettleWrite, Fits, Busy,
     Watching, Settling, Final, At, redis
<1>8. ASSUME j \notin tainted', Fits(a, act[a], j, rq[j], row[j], released)
      PROVE  running' = running
             /\ \/ /\ row'[j] = row[j]
                   /\ (SlotBy(act[a], j, row[j], released) <=> SlotBy(r, j, row'[j], released'))
                \/ /\ row[j] = "queued" /\ row'[j] \in Final
                   /\ SlotBy(act[a], j, row[j], released) /\ SlotBy(r, j, row'[j], released')
  BY <1>1, <1>2, <1>8, Known DEF SettleWrite, Fits, Open, SlotBy, Settling, Final, At,
     quota
<1> QED BY <1>2, <1>3, <1>4, <1>5, <1>6, <1>7, <1>8, OwnerStep

LEMMA MarkStep ==
  ASSUME Good, NEW a \in Actors, NEW j \in Job, act[a].job = j, Mark(a)
  PROVE  Step(j)
<1>1. PICK r : r = IF j \in released THEN (IF a \in Workers THEN [act[a] EXCEPT !.at = "end"] ELSE Idle)
                 ELSE [act[a] EXCEPT !.at = "decr"]
  OBVIOUS
<1>2. a \in Actors /\ (a \in Callers <=> a \notin Workers)
  BY JobsAssumption DEF Actors
<1>3. Alone(a, j, r)
  BY <1>1, <1>2, Known DEF Mark, Alone, Idle, Goto, Rest, CallerAt, WorkerAt, Settling,
     Settled
<1>4. UNCHANGED queue
  BY DEF Mark, redis
<1>5. Spared(j) /\ tainted \subseteq tainted'
  BY <1>4, CopiesStay DEF Mark, Spared, Kept, redis
<1>6. Busy(act[a], j)
  BY <1>1, <1>2, Known, JobsAssumption DEF Mark, Busy, Watching, At, Settling, WorkerAt
<1>7. ASSUME j \notin tainted', Fits(a, act[a], j, rq[j], row[j], released)
      PROVE  IF Busy(r, j) THEN Fits(a, r, j, rq'[j], row'[j], released')
                          ELSE Loose(j, rq'[j], row'[j], released')
  BY <1>1, <1>2, <1>7, Known DEF Mark, Fits, Loose, Closed, Busy, Restable, Watching,
     At, Idle, redis
<1>8. ASSUME j \notin tainted', Fits(a, act[a], j, rq[j], row[j], released)
      PROVE  running' = running /\ row'[j] = row[j]
             /\ (SlotBy(act[a], j, row[j], released) <=> SlotBy(r, j, row'[j], released'))
  BY <1>1, <1>2, <1>8, Known DEF Mark, Fits, SlotBy, Final, At, Idle, quota
<1> QED BY <1>2, <1>3, <1>4, <1>5, <1>6, <1>7, <1>8, OwnerStep

LEMMA DecrStep ==
  ASSUME Good, NEW a \in Actors, NEW j \in Job, act[a].job = j, Decr(a)
  PROVE  Step(j)
<1>1. PICK r : r = IF running - 1 < 0 THEN [act[a] EXCEPT !.at = "clamp"]
                 ELSE (IF a \in Workers THEN [act[a] EXCEPT !.at = "end"] ELSE Idle)
  OBVIOUS
<1>2. a \in Actors /\ (a \in Callers <=> a \notin Workers)
  BY JobsAssumption DEF Actors
<1>3. Alone(a, j, r)
  BY <1>1, <1>2, Known DEF Decr, Alone, Idle, Goto, Rest, CallerAt, WorkerAt, Settling,
     Settled
<1>4. UNCHANGED queue
  BY DEF Decr, redis
<1>5. Spared(j) /\ tainted \subseteq tainted'
  BY <1>4, CopiesStay DEF Decr, Spared, Kept, redis
<1>6. Busy(act[a], j)
  BY <1>1, <1>2, Known, JobsAssumption DEF Decr, Busy, Watching, At, Settling, WorkerAt
<1>7. ASSUME j \notin tainted', Fits(a, act[a], j, rq[j], row[j], released)
      PROVE  IF Busy(r, j) THEN Fits(a, r, j, rq'[j], row'[j], released')
                          ELSE Loose(j, rq'[j], row'[j], released')
  BY <1>1, <1>2, <1>7, Known DEF Decr, Fits, Loose, Closed, Busy, Restable, Watching,
     At, Idle, redis
<1>8. ASSUME j \notin tainted', Fits(a, act[a], j, rq[j], row[j], released)
      PROVE  running' = running - 1 /\ row'[j] = row[j] /\ row[j] \in Final
             /\ SlotBy(act[a], j, row[j], released) /\ ~SlotBy(r, j, row'[j], released')
  BY <1>1, <1>2, <1>8, Known DEF Decr, Fits, SlotBy, At, Idle
<1> QED BY <1>2, <1>3, <1>4, <1>5, <1>6, <1>7, <1>8, OwnerStep

LEMMA ClampStep ==
  ASSUME Good, NEW a \in Actors, NEW j \in Job, act[a].job = j, Clamp(a)
  PROVE  Step(j)
<1>1. PICK r : r = (IF a \in Workers THEN [act[a] EXCEPT !.at = "end"] ELSE Idle)
  OBVIOUS
<1>2. a \in Actors /\ (a \in Callers <=> a \notin Workers)
  BY JobsAssumption DEF Actors
<1>3. Alone(a, j, r)
  BY <1>1, <1>2, Known DEF Clamp, Alone, Idle, Goto, Rest, CallerAt, WorkerAt, Settled
<1>4. UNCHANGED queue
  BY DEF Clamp, redis
<1>5. Spared(j) /\ tainted \subseteq tainted'
  BY <1>4, CopiesStay DEF Clamp, Spared, Kept, redis
<1>6. Busy(act[a], j)
  BY <1>1, <1>2, Known, JobsAssumption DEF Clamp, Busy, Watching, At, Settling, WorkerAt
<1>7. ASSUME j \notin tainted', Fits(a, act[a], j, rq[j], row[j], released)
      PROVE  IF Busy(r, j) THEN Fits(a, r, j, rq'[j], row'[j], released')
                          ELSE Loose(j, rq'[j], row'[j], released')
  BY <1>1, <1>2, <1>7, Known DEF Clamp, Fits, Loose, Closed, Busy, Restable, Watching,
     At, Idle, redis
<1>8. ASSUME j \notin tainted', Fits(a, act[a], j, rq[j], row[j], released)
      PROVE  act[a].at = "clamp" /\ row'[j] = row[j]
             /\ (SlotBy(act[a], j, row[j], released) <=> SlotBy(r, j, row'[j], released'))
  BY <1>1, <1>2, <1>8, Known DEF Clamp, SlotBy, At, Idle
<1> QED BY <1>2, <1>3, <1>4, <1>5, <1>6, <1>7, <1>8, OwnerStep

LEMMA HorseDiesStep ==
  ASSUME Good, NEW w \in Workers, NEW j \in Job, act[w].job = j, HorseDies(w)
  PROVE  Step(j)
<1>1. PICK r : r = [act[w] EXCEPT !.at = "read_row", !.outcome = "failed", !.saw = "none", !.by = "parent"]
  OBVIOUS
<1>2. w \in Actors /\ (w \in Callers <=> w \notin Workers)
  BY JobsAssumption DEF Actors
<1>3. Alone(w, j, r)
  BY <1>1, <1>2, Known DEF HorseDies, Alone, WorkerAt, Settling, LoseHorse
<1>4. UNCHANGED queue
  BY DEF HorseDies, redis
<1>5. Spared(j) /\ tainted \subseteq tainted'
  BY <1>4, CopiesStay DEF HorseDies, Spared, Kept, redis, Taint, LoseHorse
<1>6. Busy(act[w], j)
  BY <1>1, <1>2, Known, JobsAssumption DEF HorseDies, Busy, Watching, At, Settling,
     WorkerAt
<1>7. ASSUME j \notin tainted', Fits(w, act[w], j, rq[j], row[j], released)
      PROVE  IF Busy(r, j) THEN Fits(w, r, j, rq'[j], row'[j], released')
                          ELSE Loose(j, rq'[j], row'[j], released')
  BY <1>1, <1>2, <1>7, Known DEF HorseDies, Fits, Busy, Watching, Settling, WorkerAt,
     redis
<1>8. ASSUME j \notin tainted', Fits(w, act[w], j, rq[j], row[j], released)
      PROVE  running' = running /\ row'[j] = row[j]
             /\ (SlotBy(act[w], j, row[j], released) <=> SlotBy(r, j, row'[j], released'))
  BY <1>1, <1>2, <1>8, Known DEF HorseDies, Taint, SlotBy, Settling, WorkerAt, quota,
     LoseHorse
<1> QED BY <1>2, <1>3, <1>4, <1>5, <1>6, <1>7, <1>8, OwnerStep

LEMMA StopArrivesStep ==
  ASSUME Good, NEW w \in Workers, NEW j \in Job, act[w].job = j, act[w].by = "horse", StopArrives(w, j)
  PROVE  Step(j)
<1>1. PICK r : r = [act[w] EXCEPT !.at = "read_row", !.outcome = "cancelled", !.saw = "none", !.by = "parent"]
  OBVIOUS
<1>2. w \in Actors /\ (w \in Callers <=> w \notin Workers)
  BY JobsAssumption DEF Actors
<1>3. Alone(w, j, r)
  BY <1>1, <1>2, Known DEF StopArrives, Alone, WorkerAt, Settling, LoseHorse
<1>4. UNCHANGED queue
  BY DEF StopArrives, redis
<1>5. Spared(j) /\ tainted \subseteq tainted'
  BY <1>4, CopiesStay DEF StopArrives, Spared, Kept, redis, Taint, LoseHorse
<1>6. Busy(act[w], j)
  BY <1>1, <1>2, Known, JobsAssumption DEF StopArrives, Busy, Watching, At, Settling,
     WorkerAt
<1>7. ASSUME j \notin tainted', Fits(w, act[w], j, rq[j], row[j], released)
      PROVE  IF Busy(r, j) THEN Fits(w, r, j, rq'[j], row'[j], released')
                          ELSE Loose(j, rq'[j], row'[j], released')
  BY <1>1, <1>2, <1>7, Known DEF StopArrives, Fits, Busy, Watching, Settling, WorkerAt,
     redis
<1>8. ASSUME j \notin tainted', Fits(w, act[w], j, rq[j], row[j], released)
      PROVE  running' = running /\ row'[j] = row[j]
             /\ (SlotBy(act[w], j, row[j], released) <=> SlotBy(r, j, row'[j], released'))
  BY <1>1, <1>2, <1>8, Known DEF StopArrives, Taint, SlotBy, Settling, WorkerAt, quota,
     LoseHorse
<1> QED BY <1>2, <1>3, <1>4, <1>5, <1>6, <1>7, <1>8, OwnerStep

LEMMA StopMissesStep ==
  ASSUME Good, NEW w \in Workers, NEW j \in Job, ~(act[w].job = j /\ act[w].by = "horse"), StopArrives(w, j)
  PROVE  Step(j)
<1>1. PICK r : r = act[w]
  OBVIOUS
<1>2. w \in Actors /\ (w \in Callers <=> w \notin Workers)
  BY JobsAssumption DEF Actors
<1>3. Alone(w, j, r)
  BY <1>1, <1>2, Known DEF Good, TypeInv, ActOK, StopArrives, Alone
<1>4. UNCHANGED <<rq, queue, row, released, running, tainted>>
  BY DEF StopArrives, redis, quota
<1>5. (~Busy(act[w], j) /\ ~Busy(r, j)) \/ r = act[w]
  BY <1>1, <1>2, Known, JobsAssumption DEF StopArrives, Busy, Watching, Idle, At
<1> QED BY <1>2, <1>3, <1>4, <1>5, Bystander

LEMMA WorkerDiesStep ==
  ASSUME Good, NEW w \in Workers, NEW j \in Job, act[w].job = j, WorkerDies(w)
  PROVE  Step(j)
<1>1. PICK r : r = Idle
  OBVIOUS
<1>2. w \in Actors /\ (w \in Callers <=> w \notin Workers)
  BY JobsAssumption DEF Actors
<1>3. Alone(w, j, r)
  BY <1>1, <1>2, Known DEF WorkerDies, Alone, Idle, Rest, WorkerAt
<1>4. UNCHANGED queue
  BY DEF WorkerDies, redis
<1>5. Spared(j) /\ tainted \subseteq tainted'
  BY <1>4, CopiesStay DEF WorkerDies, Spared, Kept, redis, Taint
<1>6. Busy(act[w], j)
  BY <1>1, <1>2, Known, JobsAssumption DEF WorkerDies, Busy, Watching, At, Settling,
     WorkerAt
<1>7. ASSUME j \notin tainted', Fits(w, act[w], j, rq[j], row[j], released)
      PROVE  IF Busy(r, j) THEN Fits(w, r, j, rq'[j], row'[j], released')
                          ELSE Loose(j, rq'[j], row'[j], released')
  BY <1>1, <1>2, <1>7, Known DEF WorkerDies, Taint, Fits, Loose, Busy, Watching,
     Settling, WorkerAt, Idle, redis
<1>8. ASSUME j \notin tainted', Fits(w, act[w], j, rq[j], row[j], released)
      PROVE  running' = running /\ row'[j] = row[j]
             /\ (SlotBy(act[w], j, row[j], released) <=> SlotBy(r, j, row'[j], released'))
  BY <1>1, <1>2, <1>8, Known DEF WorkerDies, Taint, SlotBy, Settling, WorkerAt, Idle,
     quota
<1> QED BY <1>2, <1>3, <1>4, <1>5, <1>6, <1>7, <1>8, OwnerStep

LEMMA WatcherDiesStep ==
  ASSUME Good, NEW c \in Callers, NEW j \in Job, act[c].job = j, act[c].at \in Watching, CallerDies(c)
  PROVE  Step(j)
<1>1. PICK r : r = Idle
  OBVIOUS
<1>2. c \in Actors /\ (c \in Callers <=> c \notin Workers)
  BY JobsAssumption DEF Actors
<1>3. Alone(c, j, r)
  BY <1>1, <1>2, Known DEF CallerDies, Alone, Idle, Rest, CallerAt
<1>4. UNCHANGED <<rq, queue, row, released, running, tainted>>
  BY DEF CallerDies, redis, quota, Taint, Watching, Settling
<1>5. (~Busy(act[c], j) /\ ~Busy(r, j)) \/ r = act[c]
  BY <1>1, <1>2, Known, JobsAssumption DEF CallerDies, Busy, Watching, Idle, At
<1> QED BY <1>2, <1>3, <1>4, <1>5, Bystander

LEMMA CallerDiesStep ==
  ASSUME Good, NEW c \in Callers, NEW j \in Job, act[c].job = j, act[c].at \notin Watching, CallerDies(c)
  PROVE  Step(j)
<1>1. PICK r : r = Idle
  OBVIOUS
<1>2. c \in Actors /\ (c \in Callers <=> c \notin Workers)
  BY JobsAssumption DEF Actors
<1>3. Alone(c, j, r)
  BY <1>1, <1>2, Known DEF CallerDies, Alone, Idle, Rest, CallerAt
<1>4. UNCHANGED queue
  BY DEF CallerDies, redis
<1>5. Spared(j) /\ tainted \subseteq tainted'
  BY <1>4, CopiesStay DEF CallerDies, Spared, Kept, redis, Taint
<1>6. Busy(act[c], j)
  BY <1>1, <1>2, Known, JobsAssumption DEF CallerDies, Busy, Watching, At, Settling,
     WorkerAt
<1>7. ASSUME j \notin tainted', Fits(c, act[c], j, rq[j], row[j], released)
      PROVE  IF Busy(r, j) THEN Fits(c, r, j, rq'[j], row'[j], released')
                          ELSE Loose(j, rq'[j], row'[j], released')
  BY <1>1, <1>2, <1>7, Known DEF CallerDies, Taint, Fits, Loose, Busy, Restable,
     Watching, CallerAt, Idle, redis
<1>8. ASSUME j \notin tainted', Fits(c, act[c], j, rq[j], row[j], released)
      PROVE  running' = running /\ row'[j] = row[j]
             /\ (SlotBy(act[c], j, row[j], released) <=> SlotBy(r, j, row'[j], released'))
  BY <1>1, <1>2, <1>8, Known DEF CallerDies, Taint, SlotBy, Settling, Idle, quota
<1> QED BY <1>2, <1>3, <1>4, <1>5, <1>6, <1>7, <1>8, OwnerStep

LEMMA SettleRefusedStep ==
  ASSUME Good, NEW a \in Actors, NEW j \in Job, act[a].job = j, SettleRefused(a)
  PROVE  Step(j)
<1>1. PICK r : r = IF act[a].by = "horse" /\ act[a].outcome = "finished"
                 THEN [act[a] EXCEPT !.at = "read_row", !.saw = "none", !.outcome = "failed"]
                 ELSE (IF a \in Workers THEN [act[a] EXCEPT !.at = "end"] ELSE Idle)
  OBVIOUS
<1>2. a \in Actors /\ (a \in Callers <=> a \notin Workers)
  BY JobsAssumption DEF Actors
<1>3. Alone(a, j, r)
  BY <1>1, <1>2, Known DEF SettleRefused, Alone, Idle, Goto, Rest, CallerAt, WorkerAt,
     Settling, Settled
<1>4. UNCHANGED queue
  BY DEF SettleRefused, redis
<1>5. Spared(j) /\ tainted \subseteq tainted'
  BY <1>4, CopiesStay DEF SettleRefused, Spared, Kept, redis, Taint
<1>6. Busy(act[a], j)
  BY <1>1, <1>2, Known, JobsAssumption DEF SettleRefused, Busy, Watching, At, Settling,
     WorkerAt
<1>7. ASSUME j \notin tainted', Fits(a, act[a], j, rq[j], row[j], released)
      PROVE  IF Busy(r, j) THEN Fits(a, r, j, rq'[j], row'[j], released')
                          ELSE Loose(j, rq'[j], row'[j], released')
  BY <1>1, <1>2, <1>7, Known DEF SettleRefused, Taint, Fits, Busy, Watching, Settling,
     redis
<1>8. ASSUME j \notin tainted', Fits(a, act[a], j, rq[j], row[j], released)
      PROVE  running' = running /\ row'[j] = row[j]
             /\ (SlotBy(act[a], j, row[j], released) <=> SlotBy(r, j, row'[j], released'))
  BY <1>1, <1>2, <1>8, Known DEF SettleRefused, Taint, SlotBy, Settling, quota
<1> QED BY <1>2, <1>3, <1>4, <1>5, <1>6, <1>7, <1>8, OwnerStep

(* The steps that change the queue or take up a job.                       *)
LEMMA RequestStep ==
  ASSUME Good, NEW c \in Callers, NEW j \in Job, Request(c, j)
  PROVE  Step(j)
<1>1. PICK r : r = [Idle EXCEPT !.job = j, !.at = IF j \in Seeded THEN "lookup" ELSE "record_read"]
  OBVIOUS
<1>2. c \in Actors /\ (c \in Callers <=> c \notin Workers)
  BY JobsAssumption DEF Actors
<1>3. Alone(c, j, r)
  BY <1>1, <1>2, Known DEF Request, Alone, Activity, Idle, At, CallerAt, Settling
<1>4. UNCHANGED <<rq, queue, row, released, running, tainted>>
  BY DEF Request, redis, quota
<1>5. ~Busy(act[c], j)
  BY <1>2, Known, JobsAssumption DEF Request, Busy, Idle, At
<1>6. CASE j \in Seeded
  <2>1. ~Busy(r, j)
    BY <1>1, <1>6 DEF Busy, Watching, Idle
  <2> QED BY <1>2, <1>3, <1>4, <1>5, <2>1, Bystander
<1>7. CASE j \notin Seeded
  <2>1. j \in Fresh /\ row[j] = "none" /\ Holders(j) = {} /\ r.at = "record_read" /\ r.job = j
    BY <1>1, <1>7 DEF Request, Job, Idle
  <2>2. \A b \in Actors : ~Owns(b, j)
    BY <2>1 DEF Holders, Owns
  <2>3. Spared(j)
    BY <1>4, CopiesStay DEF Spared, Kept
  <2>4. ASSUME j \notin tainted'
        PROVE  ~Queued(j)' /\ Once(j)' /\ Fits(c, r, j, rq'[j], row'[j], released')
    <3>1. j \notin tainted
      BY <1>4, <2>4
    <3>2. Once(j) /\ IF Queued(j) THEN Waiting(j, rq[j], row[j], released)
                                  ELSE Loose(j, rq[j], row[j], released)
      BY <2>2, <3>1, NobodyKnows
    <3>3. ~Queued(j) /\ rq[j] \in Restable
      BY <2>1, <3>2 DEF Waiting, Loose, Open, Final, Restable, Good, TypeInv, StoresOK, RqStatus
    <3>4. ~Queued(j)' /\ Once(j)'
      BY <1>4, <3>2, <3>3, CopiesStay DEF SameCopies
    <3>5. Fits(c, r, j, rq'[j], row'[j], released')
      BY <1>2, <1>4, <2>1, <3>3 DEF Fits, Closed, Settling
    <3> QED BY <3>4, <3>5
  <2>5. Busy(r, j) /\ r.at \notin {"rearm", "count", "decr"}
    BY <2>1 DEF Busy, Watching
  <2> QED BY <1>2, <1>3, <1>4, <2>2, <2>3, <2>4, <2>5, TakeUp
<1> QED BY <1>6, <1>7

LEMMA RunAnewStep ==
  ASSUME Good, NEW c \in Callers, NEW j \in Job, act[c].job = j, RunAnew(c)
  PROVE  Step(j)
<1>1. PICK r : r = [act[c] EXCEPT !.at = IF rq[j] = "none" THEN "record_read" ELSE "delete"]
  OBVIOUS
<1>2. c \in Actors /\ (c \in Callers <=> c \notin Workers)
  BY JobsAssumption DEF Actors
<1>3. Alone(c, j, r)
  BY <1>1, <1>2, Known DEF RunAnew, Alone, Activity, Idle, At, Goto, CallerAt, Settling
<1>4. /\ UNCHANGED <<rq, queue, row, released, running>> /\ tainted \subseteq tainted'
      /\ Spared(j)
  BY CopiesStay DEF RunAnew, redis, quota, Taint, Spared, Kept
<1>5. Busy(r, j) /\ r.at \in {"record_read", "delete"} /\ rq[j] \in Restable
  BY <1>1, <1>2, Known DEF RunAnew, Busy, Watching, Activity, Restable
<1>6. ASSUME j \notin tainted'
      PROVE  /\ \A b \in Actors : ~Owns(b, j)
             /\ ~Queued(j)' /\ Once(j)' /\ Fits(c, r, j, rq'[j], row'[j], released')
  <2>1. j \notin tainted /\ Holders(j) = {c}
    BY <1>6 DEF RunAnew, Taint
  <2>2. \A b \in Actors : ~Owns(b, j)
    BY <2>1 DEF Holders, Owns, RunAnew, At, Watching
  <2>3. Once(j) /\ IF Queued(j) THEN Waiting(j, rq[j], row[j], released)
                                ELSE Loose(j, rq[j], row[j], released)
    BY <2>1, <2>2, NobodyKnows
  <2>4. ~Queued(j) /\ Closed(row[j], j, released)
    BY <1>5, <2>3 DEF Waiting, Loose, Restable
  <2>5. ~Queued(j)' /\ Once(j)'
    BY <1>4, <2>3, <2>4, CopiesStay DEF SameCopies
  <2>6. Fits(c, r, j, rq'[j], row'[j], released')
    BY <1>2, <1>4, <1>5, <2>4 DEF Fits, Settling
  <2> QED BY <2>2, <2>5, <2>6
<1> QED BY <1>2, <1>3, <1>4, <1>5, <1>6, TakeUp

LEMMA AbandonedStep ==
  ASSUME Good, NEW w \in Workers, NEW j \in Job, Abandoned(w, j)
  PROVE  Step(j)
<1>1. PICK r : r = [Idle EXCEPT !.at = "read_row", !.job = j, !.outcome = "failed"]
  OBVIOUS
<1>2. w \in Actors /\ (w \in Callers <=> w \notin Workers)
  BY JobsAssumption DEF Actors
<1>3. Alone(w, j, r)
  BY <1>1, <1>2, Known DEF Abandoned, Alone, Activity, Idle, At, WorkerAt, Settling
<1>4. UNCHANGED <<rq, queue, row, released, running, tainted>> /\ Spared(j)
  BY CopiesStay DEF Abandoned, redis, quota, Spared, Kept
<1>5. Busy(r, j) /\ r.at = "read_row" /\ r.outcome = "failed" /\ rq[j] = "started"
  BY <1>1 DEF Abandoned, Busy, Watching, Idle
<1>6. ASSUME j \notin tainted'
      PROVE  /\ \A b \in Actors : ~Owns(b, j)
             /\ ~Queued(j)' /\ Once(j)' /\ Fits(w, r, j, rq'[j], row'[j], released')
  <2>1. j \notin tainted
    BY <1>4, <1>6
  <2>2. ASSUME NEW b \in Actors, Owns(b, j) PROVE FALSE
    <3>1. b \in Callers
      BY <2>2 DEF Abandoned, Owns, Actors
    <3>2. Fits(b, act[b], j, rq[j], row[j], released)
      BY <2>1, <2>2, OwnerKnows DEF Owns, Busy
    <3> QED BY <1>5, <3>1, <3>2 DEF Fits, Restable
  <2>3. Once(j) /\ IF Queued(j) THEN Waiting(j, rq[j], row[j], released)
                                ELSE Loose(j, rq[j], row[j], released)
    BY <2>1, <2>2, NobodyKnows
  <2>4. ~Queued(j) /\ (row[j] \in Final \/ Open(row[j], j, released))
    BY <1>5, <2>3 DEF Waiting, Loose
  <2>5. ~Queued(j)' /\ Once(j)'
    BY <1>4, <2>3, <2>4, CopiesStay DEF SameCopies
  <2>6. Fits(w, r, j, rq'[j], row'[j], released')
    BY <1>2, <1>4, <1>5, <2>4 DEF Fits, Open, Settling
  <2> QED BY <2>2, <2>5, <2>6
<1>7. r.at \notin {"rearm", "count", "decr"}
  BY <1>5
<1> QED BY <1>2, <1>3, <1>4, <1>5, <1>6, <1>7, TakeUp

LEMMA DeleteOldStep ==
  ASSUME Good, NEW c \in Callers, NEW j \in Job, act[c].job = j, DeleteOld(c)
  PROVE  Step(j)
<1>1. PICK r : r = [act[c] EXCEPT !.at = "record_read"]
  OBVIOUS
<1>2. c \in Actors /\ (c \in Callers <=> c \notin Workers)
  BY JobsAssumption DEF Actors
<1>3. Alone(c, j, r)
  BY <1>1, <1>2, Known DEF DeleteOld, Alone, Activity, Idle, At, Goto, CallerAt, Settling
<1>4. /\ queue' = Without(j) /\ rq' = [rq EXCEPT ![j] = "none"]
      /\ UNCHANGED <<row, released, running, tainted>>
  BY DEF DeleteOld, quota
<1>5. /\ \A i \in Job \ {j} : SameCopies(i)
      /\ ~Queued(j) => queue' = queue
  BY <1>4, CopiesWithout DEF Good, TypeInv, StoresOK
<1>6. Spared(j)
  BY <1>4, <1>5 DEF Spared, Kept, Good, TypeInv, StoresOK
<1>7. Busy(act[c], j) /\ Busy(r, j) /\ act[c].at = "delete" /\ r.at = "record_read" /\ r.job = j
  BY <1>1, <1>2, Known DEF DeleteOld, At, Busy, Watching, Activity
<1>8. ASSUME j \notin tainted' PROVE j \notin tainted /\ Tidy(j)' /\ Move(j)
  <2>1. j \notin tainted
    BY <1>4, <1>8
  <2>2. /\ Sole(c, j) /\ Once(j) /\ ~Queued(j)
        /\ Fits(c, act[c], j, rq[j], row[j], released)
    BY <1>2, <1>7, <2>1, OwnerKnows
  <2>3. ~Queued(j)' /\ Once(j)'
    BY <1>5, <2>2, CopiesStay DEF SameCopies
  <2>4. Fits(c, r, j, rq'[j], row'[j], released')
    BY <1>2, <1>4, <1>7, <2>2 DEF Fits, Restable, Settling, Good, TypeInv, StoresOK
  <2>5. Tidy(j)'
    BY <1>2, <1>3, <1>7, <2>2, <2>3, <2>4, SoleBusy DEF Good
  <2>6. Still(j)
    BY <1>2, <1>3, <1>4, <1>7, <2>2, SoleSlot DEF Still, SlotBy, Good
  <2> QED BY <1>4, <2>1, <2>5, <2>6 DEF Move
<1>9. Own(j)
  BY <1>8 DEF Own
<1> QED BY <1>2, <1>3, <1>6, <1>9, AboutOne

LEMMA PushStep ==
  ASSUME Good, NEW c \in Callers, NEW j \in Job, act[c].job = j, Push(c)
  PROVE  Step(j)
<1>1. PICK r : r = Idle
  OBVIOUS
<1>2. c \in Actors /\ (c \in Callers <=> c \notin Workers)
  BY JobsAssumption DEF Actors
<1>3. Alone(c, j, r)
  BY <1>1, <1>2, Known DEF Push, Alone, Activity, Idle, At, Rest, CallerAt, Settling
<1>4. /\ queue' = Append(queue, j) /\ rq' = [rq EXCEPT ![j] = "queued"]
      /\ UNCHANGED <<row, released, running, tainted>>
  BY DEF Push, quota
<1>5. /\ \A i \in Job \ {j} : SameCopies(i)
      /\ ~Queued(j) => Queued(j)' /\ Once(j)'
  BY <1>4, CopiesAppend DEF Good, TypeInv, StoresOK
<1>6. Spared(j)
  BY <1>4, <1>5 DEF Spared, Kept, Good, TypeInv, StoresOK
<1>7. Busy(act[c], j) /\ ~Busy(r, j) /\ act[c].at = "push" /\ r.job # j
  BY <1>1, <1>2, Known, JobsAssumption DEF Push, At, Busy, Watching, Idle
<1>8. ASSUME j \notin tainted' PROVE j \notin tainted /\ Tidy(j)' /\ Move(j)
  <2>1. j \notin tainted
    BY <1>4, <1>8
  <2>2. /\ Sole(c, j) /\ Once(j) /\ ~Queued(j)
        /\ Fits(c, act[c], j, rq[j], row[j], released)
    BY <1>2, <1>7, <2>1, OwnerKnows
  <2>3. Queued(j)' /\ Once(j)'
    BY <1>5, <2>2
  <2>4. Waiting(j, rq'[j], row'[j], released')
    BY <1>4, <1>7, <2>2 DEF Fits, Waiting, Open, Good, TypeInv, StoresOK
  <2>5. Tidy(j)'
    BY <1>2, <1>3, <1>7, <2>2, <2>3, <2>4, SoleDone DEF Good
  <2>6. Still(j)
    BY <1>2, <1>3, <1>4, <1>7, <2>2, SoleSlot DEF Still, SlotBy, Good
  <2> QED BY <1>4, <2>1, <2>5, <2>6 DEF Move
<1>9. Own(j)
  BY <1>8 DEF Own
<1> QED BY <1>2, <1>3, <1>6, <1>9, AboutOne

LEMMA CancelQueuedStep ==
  ASSUME Good, NEW c \in Callers, NEW j \in Job, act[c].job = j, CancelQueued(c)
  PROVE  Step(j)
<1>1. c \in Actors /\ (c \in Callers <=> c \notin Workers) /\ act[c].at = "cancel"
  BY JobsAssumption DEF Actors, CancelQueued, At
<1>2. ~Busy(act[c], j)
  BY <1>1 DEF Busy, Watching
<1>3. CASE rq[j] = "canceled"
  <2>1. PICK r : r = Idle
    OBVIOUS
  <2>2. Alone(c, j, r)
    BY <1>1, <1>3, <2>1, Known DEF CancelQueued, Alone, Activity, Idle, At, Rest, CallerAt, Settling
  <2>3. UNCHANGED <<rq, queue, row, released, running, tainted>>
    BY <1>3 DEF CancelQueued, redis, quota
  <2>4. ~Busy(r, j)
    BY <2>1, JobsAssumption DEF Busy, Idle
  <2> QED BY <1>1, <1>2, <2>2, <2>3, <2>4, Bystander
<1>4. CASE rq[j] # "canceled"
  <2>1. PICK r : r = [act[c] EXCEPT !.at = "read_row", !.outcome = "cancelled"]
    OBVIOUS
  <2>2. Alone(c, j, r)
    BY <1>1, <1>4, <2>1, Known DEF CancelQueued, Alone, Activity, Idle, At, CallerAt, Settling
  <2>3. /\ queue' = Without(j) /\ rq' = [rq EXCEPT ![j] = "canceled"]
        /\ UNCHANGED <<row, released, running>> /\ Taint(j, ~Queued(j))
    BY <1>4 DEF CancelQueued, quota
  <2>4. /\ \A i \in Job \ {j} : SameCopies(i)
        /\ Once(j) => ~Queued(j)' /\ Once(j)'
    BY <2>3, CopiesWithout DEF Good, TypeInv, StoresOK
  <2>5. Spared(j) /\ tainted \subseteq tainted'
    BY <2>3, <2>4 DEF Spared, Kept, Taint, Good, TypeInv, StoresOK
  <2>6. Busy(r, j) /\ r.at = "read_row" /\ r.outcome = "cancelled"
    BY <1>1, <2>1, Known DEF Busy, Watching, Activity
  <2>7. ASSUME j \notin tainted'
        PROVE  /\ \A b \in Actors : ~Owns(b, j)
               /\ ~Queued(j)' /\ Once(j)' /\ Fits(c, r, j, rq'[j], row'[j], released')
    <3>1. j \notin tainted /\ Queued(j)
      BY <2>3, <2>7 DEF Taint
    <3>2. \A b \in Actors : ~Owns(b, j)
      BY <3>1 DEF Good, Tame, Tidy
    <3>3. Once(j) /\ Waiting(j, rq[j], row[j], released)
      BY <3>1, <3>2, NobodyKnows
    <3>4. Fits(c, r, j, rq'[j], row'[j], released')
      BY <1>1, <2>3, <2>6, <3>3 DEF Fits, Waiting, Open, Restable, Settling, Good, TypeInv, StoresOK
    <3> QED BY <2>4, <3>2, <3>3, <3>4
  <2>8. r.at \notin {"rearm", "count", "decr"}
    BY <2>6
  <2> QED BY <1>1, <2>2, <2>3, <2>5, <2>6, <2>7, <2>8, TakeUp
<1> QED BY <1>3, <1>4

LEMMA PopStep ==
  ASSUME Good, NEW w \in Workers, Pop(w), NEW j, j = Head(queue)
  PROVE  j \in Job /\ Step(j)
<1>1. w \in Actors /\ (w \in Callers <=> w \notin Workers) /\ act[w] = Idle
  <2>1. w \in Actors /\ act[w].at = "idle"
    BY DEF Actors, Pop, At
  <2> QED BY <2>1, JobsAssumption, Known
<1>2. queue \in Seq(Job) /\ queue # << >> /\ queue' = Tail(queue)
  BY DEF Pop, Good, TypeInv, StoresOK
<1>3. /\ \A i \in Job \ {j} : SameCopies(i)
      /\ j \in Job /\ Queued(j)
      /\ Once(j) => ~Queued(j)' /\ Once(j)'
  BY <1>2, CopiesTail
<1>4. UNCHANGED <<rq, row, released, running, tainted>>
  BY DEF Pop, quota
<1>5. Spared(j) /\ tainted \subseteq tainted'
  BY <1>3, <1>4 DEF Spared, Kept
<1>6. j \notin tainted => (\A b \in Actors : ~Owns(b, j))
  BY <1>3 DEF Good, Tame, Tidy
<1>7. j \notin tainted => Once(j) /\ Waiting(j, rq[j], row[j], released)
  BY <1>3, <1>6, NobodyKnows
<1>8. CASE rq[j] = "none"
  <2>1. PICK r : r = act[w]
    OBVIOUS
  <2>2. act' = act
    BY <1>8 DEF Pop
  <2>3. Alone(w, j, r)
    BY <1>1, <2>1, <2>2, Known DEF Alone, Good, TypeInv, ActOK
  <2>4. j \in tainted'
    BY <1>4, <1>7, <1>8 DEF Waiting
  <2>5. Own(j)
    BY <2>4 DEF Own
  <2> QED BY <1>1, <1>3, <1>5, <2>3, <2>5, AboutOne
<1>9. CASE rq[j] # "none"
  <2>1. PICK r : r = [Idle EXCEPT !.at = "popped", !.job = j, !.by = "horse"]
    OBVIOUS
  <2>2. act' = [act EXCEPT ![w] = r]
    BY <1>9, <2>1 DEF Pop
  <2>3. Alone(w, j, r)
    BY <1>1, <2>1, <2>2 DEF Alone, Idle, WorkerAt
  <2>4. Busy(r, j) /\ r.at = "popped"
    BY <2>1 DEF Busy, Watching, Idle
  <2>5. ASSUME j \notin tainted' PROVE Fits(w, r, j, rq'[j], row'[j], released')
    BY <1>1, <1>4, <1>7, <2>4, <2>5 DEF Fits, Waiting, Settling
  <2>6. r.at \notin {"rearm", "count", "decr"}
    BY <2>4
  <2>7. running' = running /\ row' = row /\ released' = released
    BY <1>4
  <2>8. j \notin tainted' => ~Queued(j)' /\ Once(j)' /\ \A b \in Actors : ~Owns(b, j)
    BY <1>3, <1>4, <1>6, <1>7
  <2> QED BY <1>1, <1>3, <1>5, <2>3, <2>4, <2>5, <2>6, <2>7, <2>8, TakeUp
<1> QED BY <1>3, <1>8, <1>9

(* Every step is about one job. *)
LEMMA SettleStep ==
  ASSUME Good, NEW a \in Actors, Settle(a)
  PROVE  \E j \in Job : Step(j)
<1>1. PICK j \in Job : act[a].job = j
  <2>1. act[a].at # "idle"
    BY DEF Settle, SettleRead, SettleWrite, Mark, Decr, Clamp, At
  <2> QED BY <2>1, Known
<1> QED BY <1>1, SettleReadStep, SettleWriteStep, MarkStep, DecrStep, ClampStep DEF Settle

LEMMA CallerNext ==
  ASSUME Good, NEW c \in Callers, CallerStep(c) \/ CallerDies(c)
  PROVE  \E j \in Job : Step(j)
<1>0. c \in Actors
  BY DEF Actors
<1>1. PICK j \in Job : act[c].job = j
  <2>1. act[c].at # "idle"
    BY DEF CallerStep, Enqueue, Cancel, Settle, Reuse, RunAnew, DeleteOld, RecordRead, RecordWrite,
           Rearm, Count, Push, PushRefused, CancelQueued, StopRunning, SettleRead, SettleWrite,
           Mark, Decr, Clamp, CallerDies, At
  <2> QED BY <1>0, <2>1, Known
<1>2. CASE Enqueue(c)
  BY <1>1, <1>2, ReuseStep, RunAnewStep, DeleteOldStep, RecordReadStep, RecordWriteStep,
     RearmStep, CountStep, PushStep, PushRefusedStep DEF Enqueue
<1>3. CASE Cancel(c)
  BY <1>1, <1>3, CancelQueuedStep, StopRunningStep DEF Cancel
<1>4. CASE Settle(c)
  BY <1>0, <1>4, SettleStep
<1>5. CASE CallerDies(c)
  BY <1>1, <1>5, WatcherDiesStep, CallerDiesStep
<1> QED BY <1>2, <1>3, <1>4, <1>5 DEF CallerStep

LEMMA WorkerNext ==
  ASSUME Good, NEW w \in Workers, Work(w) \/ HorseDies(w) \/ WorkerDies(w)
  PROVE  \E j \in Job : Step(j)
<1>0. w \in Actors
  BY DEF Actors
<1>1. CASE Pop(w)
  <2>1. PICK j : j = Head(queue)
    OBVIOUS
  <2> QED BY <1>1, <2>1, PopStep
<1>2. ASSUME ~Pop(w) PROVE \E j \in Job : act[w].job = j
  <2>1. act[w].at # "idle"
    BY <1>0, <1>2, Known DEF Work, Start, End, Settle, SettleRead, SettleWrite, Mark, Decr, Clamp,
       Complete, HorseDies, WorkerDies, At
  <2> QED BY <1>0, <2>1, Known
<1>3. CASE Start(w) \/ End(w) \/ HorseDies(w) \/ WorkerDies(w)
  BY <1>1, <1>2, <1>3, StartStep, EndStep, HorseDiesStep, WorkerDiesStep
<1>4. CASE Settle(w)
  BY <1>0, <1>4, SettleStep
<1>5. ASSUME NEW o \in {"finished", "failed"}, Complete(w, o) PROVE \E j \in Job : Step(j)
  BY <1>1, <1>2, <1>5, CompleteStep
<1> QED BY <1>1, <1>3, <1>4, <1>5 DEF Work

LEMMA EveryStep == Good /\ Next => \E j \in Job : Step(j)
<1> SUFFICES ASSUME Good, Next PROVE \E j \in Job : Step(j)
  OBVIOUS
<1>1. ASSUME NEW c \in Callers, NEW j \in Job, Request(c, j) \/ CancelLook(c, j)
      PROVE  \E k \in Job : Step(k)
  BY <1>1, RequestStep, CancelLookStep
<1>2. ASSUME NEW c \in Callers, CallerStep(c) \/ CallerDies(c)
      PROVE  \E k \in Job : Step(k)
  BY <1>2, CallerNext
<1>3. ASSUME NEW w \in Workers, Work(w) \/ HorseDies(w) \/ WorkerDies(w)
      PROVE  \E k \in Job : Step(k)
  BY <1>3, WorkerNext
<1>4. ASSUME NEW w \in Workers, NEW j \in Job, StopArrives(w, j) \/ Abandoned(w, j)
      PROVE  \E k \in Job : Step(k)
  <2>1. CASE Abandoned(w, j)
    BY <2>1, AbandonedStep
  <2>2. CASE StopArrives(w, j) /\ act[w].job = j /\ act[w].by = "horse"
    BY <2>2, StopArrivesStep
  <2>3. CASE StopArrives(w, j) /\ ~(act[w].job = j /\ act[w].by = "horse")
    BY <2>3, StopMissesStep
  <2> QED BY <1>4, <2>1, <2>2, <2>3
<1>5. ASSUME NEW a \in Actors, SettleRefused(a)
      PROVE  \E k \in Job : Step(k)
  <2>1. act[a].at # "idle"
    BY <1>5 DEF SettleRefused, Settling
  <2>2. PICK j \in Job : act[a].job = j
    BY <2>1, Known
  <2> QED BY <1>5, <2>2, SettleRefusedStep
<1> QED BY <1>1, <1>2, <1>3, <1>4, <1>5 DEF Next

LEMMA GoodInit == Init => Good
<1> SUFFICES ASSUME Init PROVE Good
  OBVIOUS
<1>1. \A a \in Actors : act[a] = Idle
  BY DEF Init
<1>2. Roles
  BY <1>1 DEF Roles, Idle, CallerAt, WorkerAt, Actors
<1>3. ASSUME NEW j \in Job PROVE Tidy(j)
  <2>1. \A a \in Actors : ~Owns(a, j)
    BY <1>1, JobsAssumption DEF Owns, Idle
  <2>2. Once(j) /\ ~Queued(j)
    BY DEF Init, Once, Queued
  <2>3. Loose(j, rq[j], row[j], released)
    BY DEF Init, Loose, Closed
  <2> QED BY <2>1, <2>2, <2>3 DEF Tidy
<1> QED BY <1>2, <1>3, TypeInit DEF Good, Tame

LEMMA GoodNext == Good /\ [Next]_vars => Good'
<1> SUFFICES ASSUME Good, [Next]_vars PROVE Good'
  OBVIOUS
<1>1. TypeInv'
  BY TypeNext DEF Good
<1>2. CASE UNCHANGED vars
  <2>1. Roles'
    BY <1>2 DEF Good, Roles, vars
  <2>2. ASSUME NEW j \in Job, Tidy(j) PROVE Tidy(j)'
    BY <1>2, <2>2 DEF Tidy, Once, Owns, Queued, vars
  <2>3. Tame'
    BY <1>2, <2>2 DEF Good, Tame, vars
  <2> QED BY <1>1, <2>1, <2>3 DEF Good
<1>3. CASE Next
  <2>1. PICK j \in Job : Step(j)
    BY <1>3, EveryStep
  <2>2. ASSUME NEW i \in Job, i \notin tainted' PROVE Tidy(i)'
    BY <2>1, <2>2 DEF Step, Apart, Own
  <2>3. Tame'
    BY <2>2 DEF Tame
  <2> QED BY <1>1, <2>1, <2>3 DEF Good, Step
<1> QED BY <1>2, <1>3

-----------------------------------------------------------------------------
(* The counter.  Its strengthening says that nobody ever needs the clamp   *)
(* of job_finished_sync: a slot that is given back is one of those taken.  *)
CountInv == tainted = {} => /\ IsFiniteSet(SlotTaken) /\ running = Cardinality(SlotTaken)
                            /\ \A a \in Actors : act[a].at # "clamp"

LEMMA CountInit == Init => CountInv
<1> SUFFICES ASSUME Init PROVE CountInv
  OBVIOUS
<1>1. SlotTaken = {}
  BY DEF Init, SlotTaken, Returning, At, Idle
<1> QED BY <1>1, FS_EmptySet DEF Init, CountInv, Idle

LEMMA CountNext == Good /\ CountInv /\ [Next]_vars => CountInv'
<1> SUFFICES ASSUME Good, CountInv, [Next]_vars, tainted' = {}
             PROVE  /\ IsFiniteSet(SlotTaken') /\ running' = Cardinality(SlotTaken')
                    /\ \A a \in Actors : act'[a].at # "clamp"
  BY DEF CountInv
<1>1. CASE UNCHANGED vars
  BY <1>1 DEF CountInv, vars, SlotTaken, Counting, Returning, At
<1>2. CASE Next
  <2>1. PICK j \in Job : Step(j)
    BY <1>2, EveryStep
  <2>2. tainted = {}
    BY <2>1 DEF Step, Apart, Own, Good, TypeInv, StoresOK
  <2>3. /\ IsFiniteSet(SlotTaken) /\ running = Cardinality(SlotTaken)
        /\ \A a \in Actors : act[a].at # "clamp"
    BY <2>2 DEF CountInv
  <2>4. SlotTaken \subseteq Job /\ SlotTaken' \subseteq Job
    BY DEF SlotTaken
  <2>5. \A i \in Job \ {j} : i \in SlotTaken' <=> i \in SlotTaken
    BY <2>1 DEF Step, Apart, Still
  <2>6. Move(j)
    BY <2>1 DEF Step, Own
  <2>7. IsFiniteSet(SlotTaken') /\ running' = Cardinality(SlotTaken')
    <3>1. CASE running' = running /\ (j \in SlotTaken' <=> j \in SlotTaken)
      <4>1. SlotTaken' = SlotTaken
        BY <2>4, <2>5, <3>1
      <4> QED BY <2>3, <3>1, <4>1
    <3>2. CASE running' = running + 1 /\ j \notin SlotTaken /\ j \in SlotTaken'
      <4>1. SlotTaken' = SlotTaken \cup {j}
        BY <2>4, <2>5, <3>2
      <4> QED BY <2>3, <3>2, <4>1, FS_AddElement
    <3>3. CASE running' = running - 1 /\ j \in SlotTaken /\ j \notin SlotTaken'
      <4>1. SlotTaken' = SlotTaken \ {j}
        BY <2>4, <2>5, <3>3
      <4> QED BY <2>3, <3>3, <4>1, FS_RemoveElement
    <3> QED BY <2>3, <2>6, <3>1, <3>2, <3>3 DEF Move, Still, Recorded, Ended, Taken, Returned
  <2>8. running' >= 0
    BY <2>7, FS_CardinalityType
  <2>9. running' \in Int
    BY TypeNext DEF Good, TypeInv, StoresOK
  <2> QED BY <2>1, <2>3, <2>7, <2>8, <2>9 DEF Step, Rise
<1> QED BY <1>1, <1>2

LEMMA AtMostOne ==
  ASSUME NEW S, \A x, y \in S : x = y
  PROVE  Cardinality(S) \in {0, 1} /\ (S = {} => Cardinality(S) = 0)
<1>1. CASE S = {}
  BY <1>1, FS_EmptySet
<1>2. CASE S # {}
  <2>1. PICK x \in S : S = {x}
    BY <1>2
  <2> QED BY <1>2, <2>1, FS_Singleton
<1> QED BY <1>1, <1>2

LEMMA OneRun == Good => OneRunAtATime
<1> SUFFICES ASSUME Good, NEW j \in Job, j \notin tainted PROVE Copies(j) <= 1
  BY DEF OneRunAtATime
<1> DEFINE Q == {i \in DOMAIN queue : queue[i] = j}
           H == {w \in Workers : act[w].job = j}
<1>1. Tidy(j)
  BY DEF Good, Tame
<1>2. \A w \in H : w \in Actors /\ Owns(w, j)
  BY DEF Good, Roles, Owns, WorkerAt, Settling, Watching, Actors
<1>3. \A x, y \in H : x = y
  BY <1>1, <1>2 DEF Tidy
<1>4. \A x, y \in Q : x = y
  BY <1>1 DEF Tidy, Once
<1>5. Q = {} \/ H = {}
  BY <1>1, <1>2 DEF Tidy, Queued
<1>6. Copies(j) = Cardinality(Q) + Cardinality(H)
  BY DEF Copies
<1> HIDE DEF Q, H
<1>7. Cardinality(Q) \in {0, 1} /\ (Q = {} => Cardinality(Q) = 0)
  BY <1>4, AtMostOne
<1>8. Cardinality(H) \in {0, 1} /\ (H = {} => Cardinality(H) = 0)
  BY <1>3, AtMostOne
<1> QED BY <1>5, <1>6, <1>7, <1>8

LEMMA StoredResult == Good => ReusedResultIsStored
<1> SUFFICES ASSUME Good, NEW j \in Job, j \notin tainted, rq[j] = "finished",
                    Holders(j) \subseteq Workers
             PROVE  row[j] = "finished"
  BY DEF ReusedResultIsStored
<1>1. Tidy(j)
  BY DEF Good, Tame
<1>2. ASSUME NEW a \in Actors, Owns(a, j) PROVE FALSE
  <2>1. a \in Workers
    BY <1>2 DEF Owns, Holders
  <2>2. Fits(a, act[a], j, rq[j], row[j], released)
    BY <1>1, <1>2 DEF Tidy
  <2> QED BY <2>1, <2>2 DEF Fits
<1> QED BY <1>1, <1>2 DEF Tidy, Waiting, Loose

(* Of every job that met no window, for any number of callers and workers: *)
(* the running-jobs counter counts exactly the slots taken, a result that  *)
(* enqueue_job would reuse is in the jobs table, and no job is computed    *)
(* twice at the same time.                                                 *)
THEOREM ThreeRecordsAgree == Spec => []RecordsAgree
<1>1. Good /\ CountInv => RecordsAgree
  BY OneRun, StoredResult DEF RecordsAgree, SlotsExact, CountInv
<1> QED BY <1>1, GoodInit, GoodNext, CountInit, CountNext, PTL DEF Spec

(* A row in a final status changes only when record_job takes the same id  *)
(* back to queued: no late report of an end overwrites an earlier one.     *)
THEOREM FinalRowKept == Spec => FinalRowStays
<1> DEFINE Kind == \A j \in Job \ tainted' : row[j] \in Final /\ row'[j] # row[j]
             => row'[j] = "queued" /\ \E c \in Callers : At(c, "record_write") /\ act[c].job = j
<1>1. Good /\ [Next]_vars => [Kind]_vars
  <2> SUFFICES ASSUME Good, Next, NEW j \in Job, j \notin tainted', row[j] \in Final, row'[j] # row[j]
               PROVE  row'[j] = "queued" /\ \E c \in Callers : At(c, "record_write") /\ act[c].job = j
    OBVIOUS
  <2>1. PICK k \in Job : Step(k)
    BY EveryStep
  <2>2. j = k
    BY <2>1 DEF Step, Apart, Still
  <2>3. Move(j)
    BY <2>1, <2>2 DEF Step, Own
  <2> QED BY <2>3 DEF Move, Still, Recorded, Ended, Taken, Returned, Final
<1>2. Spec => [][Kind]_vars
  BY <1>1, GoodInit, GoodNext, PTL DEF Spec
<1> QED BY <1>2 DEF FinalRowStays

(* What a step does to a job is a step of the ledger: meeting a window     *)
(* loses the job, and each other move is the ledger's action of that name. *)
LEMMA LedgerStep ==
  ASSUME Good, NEW k \in Job, Step(k)
  PROVE  [Ledger!Next]_(Ledger!vars)
<1> DEFINE status  == [j \in Job |-> IF j \in tainted THEN "lost" ELSE row[j]]
           slot    == SlotTaken \ tainted
           statusN == [j \in Job |-> IF j \in tainted' THEN "lost" ELSE row'[j]]
           slotN   == SlotTaken' \ tainted'
<1>1. \A i \in Job \ {k} : /\ i \in tainted' <=> i \in tainted
                           /\ row'[i] = row[i]
                           /\ i \in SlotTaken' <=> i \in SlotTaken
  BY DEF Step, Apart, Still
<1>2. SlotTaken \subseteq Job /\ SlotTaken' \subseteq Job
  BY DEF SlotTaken
<1>3. statusN = [status EXCEPT ![k] = statusN[k]]
  BY <1>1
<1>4. slotN \ {k} = slot \ {k}
  BY <1>1, <1>2
<1>5. CASE k \in tainted'
  <2>1. statusN = [status EXCEPT ![k] = "lost"] /\ slotN = slot \ {k}
    BY <1>3, <1>4, <1>5
  <2>2. Ledger!Lose(k)
    BY <2>1 DEF Ledger!Lose
  <2> QED BY <2>2 DEF Ledger!Next
<1>6. CASE k \notin tainted'
  <2>1. k \notin tainted /\ Move(k)
    BY <1>6 DEF Step, Own
  <2>2. /\ status[k] = row[k] /\ statusN[k] = row'[k]
        /\ k \in slot <=> k \in SlotTaken
        /\ k \in slotN <=> k \in SlotTaken'
    BY <1>6, <2>1
  <2> HIDE DEF status, slot, statusN, slotN
  <2>3. CASE Still(k)
    <3>1. statusN = status /\ slotN = slot
      <4>1. status \in [Job -> {status[j] : j \in Job}]
        BY DEF status
      <4>2. statusN = status
        BY <1>3, <2>2, <2>3, <4>1 DEF Still
      <4> QED BY <1>4, <2>2, <2>3, <4>2 DEF Still
    <3>2. UNCHANGED Ledger!vars
      BY <3>1 DEF Ledger!vars, status, slot, statusN, slotN
    <3> QED BY <3>2
  <2>4. CASE Recorded(k)
    <3>1. /\ status[k] \in {"none"} \cup Ledger!End /\ k \notin slot
          /\ statusN = [status EXCEPT ![k] = "queued"] /\ slotN = slot
      BY <1>3, <1>4, <2>2, <2>4 DEF Recorded, Ledger!End, Final
    <3>2. Ledger!Record(k)
      BY <3>1 DEF Ledger!Record, status, slot, statusN, slotN
    <3> QED BY <3>2 DEF Ledger!Next
  <2>5. CASE Taken(k)
    <3>1. /\ status[k] = "queued" /\ k \notin slot /\ slotN = slot \cup {k}
      BY <1>4, <2>2, <2>5 DEF Taken
    <3>2. statusN = status
      <4>1. status \in [Job -> {status[j] : j \in Job}]
        BY DEF status
      <4> QED BY <1>3, <2>2, <2>5, <4>1 DEF Taken
    <3>3. Ledger!Take(k)
      BY <3>1, <3>2 DEF Ledger!Take, status, slot, statusN, slotN
    <3> QED BY <3>3 DEF Ledger!Next
  <2>6. CASE Ended(k)
    <3>1. /\ status[k] = "queued" /\ k \in slot /\ slotN = slot
          /\ statusN[k] \in Ledger!End
      BY <1>4, <2>2, <2>6 DEF Ended, Ledger!End, Final
    <3>2. Ledger!Finish(k)
      BY <1>3, <3>1 DEF Ledger!Finish, status, slot, statusN, slotN
    <3> QED BY <3>2 DEF Ledger!Next
  <2>7. CASE Returned(k)
    <3>1. status[k] \in Ledger!End /\ k \in slot /\ slotN = slot \ {k}
      BY <1>4, <2>2, <2>7 DEF Returned, Ledger!End, Final
    <3>2. statusN = status
      <4>1. status \in [Job -> {status[j] : j \in Job}]
        BY DEF status
      <4> QED BY <1>3, <2>2, <2>7, <4>1 DEF Returned
    <3>3. Ledger!Return(k)
      BY <3>1, <3>2 DEF Ledger!Return, status, slot, statusN, slotN
    <3> QED BY <3>3 DEF Ledger!Next
  <2> QED BY <2>1, <2>3, <2>4, <2>5, <2>6, <2>7 DEF Move
<1> QED BY <1>5, <1>6

(* The jobs queue implements the ledger: of a job that met no window, the  *)
(* table's status and the slot move together, though no transaction spans  *)
(* the two stores.                                                         *)
THEOREM LedgerImplemented == Spec => ImplementsLedger
<1>1. Init => Ledger!Init
  <2> SUFFICES ASSUME Init PROVE Ledger!Init
    OBVIOUS
  <2>1. SlotTaken = {}
    BY DEF Init, SlotTaken, Returning, At, Idle
  <2> QED BY <2>1 DEF Init, Ledger!Init
<1>2. Good /\ [Next]_vars => [Ledger!Next]_(Ledger!vars)
  <2> SUFFICES ASSUME Good, [Next]_vars PROVE [Ledger!Next]_(Ledger!vars)
    OBVIOUS
  <2>1. CASE UNCHANGED vars
    BY <2>1 DEF vars, Ledger!vars, SlotTaken, Counting, Returning, At
  <2>2. CASE Next
    BY <2>2, EveryStep, LedgerStep
  <2> QED BY <2>1, <2>2
<1> QED BY <1>1, <1>2, GoodInit, GoodNext, PTL DEF Spec, ImplementsLedger, Ledger!Spec

=============================================================================
