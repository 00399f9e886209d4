--------------------------- MODULE ToolCallsProofs ---------------------------
(***************************************************************************)
(* For any number of calls, keys and handlers that never return: identical *)
(* calls never run their handler twice at the same time, a call is given a *)
(* result older than itself only after a time-out, and such a result is    *)
(* given once; and the result a caller missed stays registered for its     *)
(* retry (Standing, below).                                                *)
(*                                                                         *)
(* None of the first three is inductive.  The invariant follows a result   *)
(* from the time-out that marks its key (MarkHasTimeout), through the kept *)
(* run (KeptHasTimeout), to the only runs _RUNNING can hold once they are  *)
(* over (OnlyKeptRegistered), and records that a run handed over is        *)
(* registered no more (LateNotRegistered) and never again, since a run is  *)
(* started once (IdleHasNoRun).                                            *)
(***************************************************************************)
EXTENDS ToolCalls, TLAPS

TimedOut(c) == call[c].at \in {"timeout", "raced_timeout"}
SomeTimeout(k) == \E d \in Calls : Key[d] = k /\ TimedOut(d)

IdleHasNoRun == \A c \in Calls : call[c].at = "idle" => run[c] = "none"
OnlyOwnKey == \A k \in Keys : running[k] # NoRun =>
                Key[running[k]] = k /\ run[running[k]] # "none"
MarkHasTimeout == \A k \in unclaimed : SomeTimeout(k)
KeptHasTimeout == \A r \in Calls : run[r] = "kept" => SomeTimeout(Key[r])
OnlyKeptRegistered ==
  \A r \in Calls : running[Key[r]] = r => run[r] \in {"busy", "done", "kept"}
LateNotRegistered ==
  \A c \in Calls : Late(c) => call[c].of \in Calls /\ running[Key[call[c].of]] # call[c].of

Inv == /\ TypeOK /\ IdleHasNoRun /\ OnlyOwnKey /\ OneRunPerKey
       /\ MarkHasTimeout /\ KeptHasTimeout /\ OnlyKeptRegistered
       /\ LateNeedsTimeout /\ LateNotRegistered /\ HandedOverOnce

LEMMA KeyIsKey == ASSUME NEW c \in Calls PROVE Key[c] \in Keys
BY DEF Keys

(* A time-out that has happened is not undone by a step of other calls.    *)
LEMMA TimeoutStays ==
  ASSUME call \in [Calls -> Call], NEW c \in Calls, ~TimedOut(c),
         \A d \in Calls \ {c} : call'[d] = call[d],
         NEW k, SomeTimeout(k)
  PROVE  SomeTimeout(k)'
<1>1. PICK d \in Calls : Key[d] = k /\ TimedOut(d)
  BY DEF SomeTimeout
<1>2. d # c
  BY <1>1
<1>3. TimedOut(d)'
  BY <1>1, <1>2 DEF TimedOut
<1> QED BY <1>1, <1>3 DEF SomeTimeout

LEMMA InitInv == Init => Inv
<1> SUFFICES ASSUME Init PROVE Inv
  OBVIOUS
<1> USE ToolCallsAssumption DEF Init, Idle
<1>1. TypeOK
  BY DEF TypeOK, Call, RunStates, Ways
<1>2. \A c \in Calls : ~Late(c)
  BY DEF Late
<1>3. \A r \in Calls : running[Key[r]] # r
  BY KeyIsKey
<1>4. IdleHasNoRun /\ OnlyOwnKey /\ OneRunPerKey /\ MarkHasTimeout /\ KeptHasTimeout
  BY DEF IdleHasNoRun, OnlyOwnKey, OneRunPerKey, MarkHasTimeout, KeptHasTimeout
<1>5. OnlyKeptRegistered
  BY <1>3 DEF OnlyKeptRegistered
<1>6. LateNeedsTimeout /\ LateNotRegistered /\ HandedOverOnce
  BY <1>2 DEF LateNeedsTimeout, LateNotRegistered, HandedOverOnce
<1> QED BY <1>1, <1>4, <1>5, <1>6 DEF Inv

(* A call that only changes what it is doing: it is refused, answered, cut *)
(* off, cancelled, or gives up and marks its key.                          *)
LEMMA SetsKeeps ==
  ASSUME Inv, NEW c \in Calls, NEW at \in Waits \cup Outcomes, Sets(c, at),
         ~TimedOut(c), UNCHANGED <<running, run>>,
         \/ UNCHANGED unclaimed
         \/ unclaimed' = unclaimed \cup {Key[c]} /\ at \in {"timeout", "raced_timeout"}
  PROVE  Inv'
<1> USE DEF Inv
<1>t. call \in [Calls -> Call] /\ running \in [Keys -> Calls \cup {NoRun}]
      /\ unclaimed \subseteq Keys /\ run \in [Calls -> RunStates]
  BY DEF TypeOK
<1>0. /\ call' \in [Calls -> Call]
      /\ \A d \in Calls : call'[d].of = call[d].of /\ call'[d].how = call[d].how
      /\ \A d \in Calls \ {c} : call'[d] = call[d]
      /\ call'[c].at = at
  BY <1>t DEF Sets, Call
<1>1. TypeOK'
  BY <1>0, KeyIsKey DEF TypeOK
<1>2. IdleHasNoRun'
  BY <1>0 DEF IdleHasNoRun, Waits, Outcomes
<1>3. OnlyOwnKey' /\ OneRunPerKey' /\ OnlyKeptRegistered'
  BY DEF OnlyOwnKey, OneRunPerKey, OnlyKeptRegistered
<1>4. \A k : SomeTimeout(k) => SomeTimeout(k)'
  BY <1>t, <1>0, TimeoutStays
<1>5. MarkHasTimeout'
  <2> SUFFICES ASSUME NEW k \in unclaimed' PROVE SomeTimeout(k)'
    BY DEF MarkHasTimeout
  <2>1. CASE k \in unclaimed
    BY <1>4, <2>1 DEF MarkHasTimeout
  <2>2. CASE k \notin unclaimed
    <3>1. k = Key[c] /\ TimedOut(c)'
      BY <1>0, <2>2 DEF TimedOut
    <3> QED BY <3>1 DEF SomeTimeout
  <2> QED BY <2>1, <2>2
<1>6. KeptHasTimeout'
  BY <1>4 DEF KeptHasTimeout
<1>7. LateNeedsTimeout'
  BY <1>0, <1>4 DEF LateNeedsTimeout, Late, SomeTimeout, TimedOut
<1>8. LateNotRegistered' /\ HandedOverOnce'
  BY <1>0 DEF LateNotRegistered, HandedOverOnce, Late
<1> QED BY <1>1, <1>2, <1>3, <1>5, <1>6, <1>7, <1>8

(* What a call that gets run `r' looks like, and that the others stay.     *)
LEMMA GetsShape ==
  ASSUME call \in [Calls -> Call], NEW c \in Calls, NEW r \in Calls, NEW how \in Ways,
         Gets(c, r, how), call[c].at = "idle"
  PROVE  /\ call' \in [Calls -> Call]
         /\ \A d \in Calls \ {c} : call'[d] = call[d]
         /\ call'[c].of = r /\ call'[c].how = how /\ call'[c].at \in {"waiting", "answered"}
         /\ \A k : SomeTimeout(k) => SomeTimeout(k)'
<1>1. /\ call' \in [Calls -> Call]
      /\ \A d \in Calls \ {c} : call'[d] = call[d]
      /\ call'[c].of = r /\ call'[c].how = how /\ call'[c].at \in {"waiting", "answered"}
  BY DEF Gets, Call, Ways, Waits, Outcomes
<1>2. ~TimedOut(c)
  BY DEF TimedOut
<1> QED BY <1>1, <1>2, TimeoutStays

LEMMA StartKeeps == ASSUME Inv, NEW c \in Calls, Start(c) PROVE Inv'
<1> USE DEF Inv
<1>t. call \in [Calls -> Call] /\ running \in [Keys -> Calls \cup {NoRun}]
      /\ run \in [Calls -> RunStates] /\ Key[c] \in Keys
  BY KeyIsKey DEF TypeOK
<1>0. /\ call' \in [Calls -> Call]
      /\ \A d \in Calls \ {c} : call'[d] = call[d]
      /\ call'[c].of = c /\ call'[c].how = "started" /\ call'[c].at \in {"waiting", "answered"}
      /\ \A k : SomeTimeout(k) => SomeTimeout(k)'
  BY <1>t, GetsShape DEF Start, Ways
<1>r. /\ running' \in [Keys -> Calls \cup {NoRun}] /\ running'[Key[c]] = c
      /\ \A k \in Keys \ {Key[c]} : running'[k] = running[k]
      /\ running[Key[c]] = NoRun /\ unclaimed' = unclaimed
      /\ run' \in [Calls -> RunStates] /\ run'[c] = "busy" /\ run[c] = "none"
      /\ \A d \in Calls \ {c} : run'[d] = run[d]
  BY <1>t DEF Start, RunStates, IdleHasNoRun
<1>1. TypeOK'
  <2>1. ASSUME NEW d \in Calls, call'[d].of # NoRun
        PROVE  Key[call'[d].of] = Key[d] /\ run'[call'[d].of] # "none"
    <3>1. CASE d = c
      BY <3>1, <1>0, <1>r
    <3>2. CASE d # c
      <4>1. call'[d] = call[d] /\ call[d].of \in Calls
        BY <3>2, <2>1, <1>0, <1>t DEF Call
      <4>2. Key[call[d].of] = Key[d] /\ run[call[d].of] # "none"
        BY <4>1, ToolCallsAssumption DEF TypeOK
      <4> QED BY <4>1, <4>2, <1>r
    <3> QED BY <3>1, <3>2
  <2> QED BY <2>1, <1>0, <1>r DEF TypeOK
<1>2. IdleHasNoRun'
  BY <1>0, <1>r DEF IdleHasNoRun
<1>3. OnlyOwnKey'
  BY <1>r, <1>t, ToolCallsAssumption DEF OnlyOwnKey
<1>4. OneRunPerKey'
  BY <1>r, KeyIsKey, ToolCallsAssumption DEF OneRunPerKey
<1>5. OnlyKeptRegistered'
  BY <1>r, KeyIsKey DEF OnlyKeptRegistered
<1>6. MarkHasTimeout' /\ KeptHasTimeout'
  BY <1>0, <1>r DEF MarkHasTimeout, KeptHasTimeout
<1>7. LateNeedsTimeout'
  BY <1>0 DEF LateNeedsTimeout, Late, SomeTimeout, TimedOut
<1>8. LateNotRegistered'
  <2> SUFFICES ASSUME NEW d \in Calls, Late(d)'
               PROVE  call'[d].of \in Calls /\ running'[Key[call'[d].of]] # call'[d].of
    BY DEF LateNotRegistered
  <2>1. d # c /\ Late(d) /\ call'[d] = call[d]
    BY <1>0 DEF Late
  <2>2. call[d].of \in Calls /\ running[Key[call[d].of]] # call[d].of /\ run[call[d].of] # "none"
    BY <2>1, ToolCallsAssumption DEF LateNotRegistered, TypeOK
  <2>3. call[d].of # c
    BY <2>2, <1>r
  <2> QED BY <2>1, <2>2, <2>3, <1>r, KeyIsKey
<1>9. HandedOverOnce'
  BY <1>0 DEF HandedOverOnce, Late
<1> QED BY <1>1, <1>2, <1>3, <1>4, <1>5, <1>6, <1>7, <1>8, <1>9

LEMMA JoinKeeps == ASSUME Inv, NEW c \in Calls, Join(c) PROVE Inv'
<1> USE DEF Inv
<1>p. PICK r \in Calls : /\ running[Key[c]] = r /\ run[r] = "busy"
                         /\ Gets(c, r, IF TimedOutOn(r) = {} THEN "joined" ELSE "rejoined")
  BY DEF Join
<1>t. call \in [Calls -> Call] /\ Key[c] \in Keys
  BY KeyIsKey DEF TypeOK
<1>0. /\ call' \in [Calls -> Call]
      /\ \A d \in Calls \ {c} : call'[d] = call[d]
      /\ call'[c].of = r /\ call'[c].how \in {"joined", "rejoined"}
      /\ call'[c].at \in {"waiting", "answered"}
      /\ \A k : SomeTimeout(k) => SomeTimeout(k)'
  BY <1>t, <1>p, GetsShape DEF Join, Ways
<1>k. Key[r] = Key[c]
  BY <1>p, <1>t, ToolCallsAssumption DEF OnlyOwnKey
<1>u. UNCHANGED <<running, unclaimed, run>>
  BY DEF Join
<1>1. TypeOK'
  BY <1>0, <1>p, <1>k, <1>u DEF TypeOK
<1>2. IdleHasNoRun'
  BY <1>0, <1>u DEF IdleHasNoRun
<1>3. OnlyOwnKey' /\ OneRunPerKey' /\ OnlyKeptRegistered'
  BY <1>u DEF OnlyOwnKey, OneRunPerKey, OnlyKeptRegistered
<1>4. MarkHasTimeout' /\ KeptHasTimeout'
  BY <1>0, <1>u DEF MarkHasTimeout, KeptHasTimeout
<1>5. LateNeedsTimeout' /\ LateNotRegistered' /\ HandedOverOnce'
  BY <1>0, <1>u DEF LateNeedsTimeout, LateNotRegistered, HandedOverOnce, Late, SomeTimeout,
                    TimedOut
<1> QED BY <1>1, <1>2, <1>3, <1>4, <1>5

LEMMA TakeKeeps == ASSUME Inv, NEW c \in Calls, Take(c) PROVE Inv'
<1> USE DEF Inv
<1>p. PICK r \in Calls : /\ running[Key[c]] = r /\ run[r] # "busy"
                         /\ Gets(c, r, IF Ended(r) THEN "late" ELSE "took")
  BY DEF Take
<1>t. call \in [Calls -> Call] /\ Key[c] \in Keys /\ running \in [Keys -> Calls \cup {NoRun}]
  BY KeyIsKey DEF TypeOK
<1>0. /\ call' \in [Calls -> Call]
      /\ \A d \in Calls \ {c} : call'[d] = call[d]
      /\ call'[c].of = r /\ call'[c].how = (IF Ended(r) THEN "late" ELSE "took")
      /\ call'[c].at \in {"waiting", "answered"}
      /\ \A k : SomeTimeout(k) => SomeTimeout(k)'
  BY <1>t, <1>p, GetsShape DEF Take, Ways
<1>k. Key[r] = Key[c] /\ run[r] # "none"
  BY <1>p, <1>t, ToolCallsAssumption DEF OnlyOwnKey
<1>r. /\ running' \in [Keys -> Calls \cup {NoRun}] /\ running'[Key[c]] = NoRun
      /\ \A k \in Keys \ {Key[c]} : running'[k] = running[k]
      /\ unclaimed' \subseteq unclaimed /\ run' = run
  BY <1>t DEF Take
<1>1. TypeOK'
  BY <1>0, <1>p, <1>k, <1>r DEF TypeOK
<1>2. IdleHasNoRun'
  BY <1>0, <1>r DEF IdleHasNoRun
<1>3. OnlyOwnKey'
  BY <1>r DEF OnlyOwnKey
<1>4. OneRunPerKey'
  BY <1>r, <1>p, KeyIsKey DEF OneRunPerKey
<1>5. OnlyKeptRegistered'
  BY <1>r, KeyIsKey, ToolCallsAssumption DEF OnlyKeptRegistered
<1>6. MarkHasTimeout' /\ KeptHasTimeout'
  BY <1>0, <1>r DEF MarkHasTimeout, KeptHasTimeout
<1>7. LateNeedsTimeout'
  <2> SUFFICES ASSUME NEW d \in Calls, Late(d)' PROVE SomeTimeout(Key[d])'
    BY DEF LateNeedsTimeout, SomeTimeout, TimedOut
  <2>1. CASE d = c
    <3>1. run[r] = "kept"
      BY <1>0, <1>p, <1>k, <2>1 DEF Late, Ended, OnlyKeptRegistered
    <3> QED BY <3>1, <2>1, <1>0, <1>k DEF KeptHasTimeout
  <2>2. CASE d # c
    BY <2>2, <1>0 DEF LateNeedsTimeout, Late, SomeTimeout, TimedOut
  <2> QED BY <2>1, <2>2
<1>8. LateNotRegistered'
  BY <1>0, <1>r, <1>k, KeyIsKey, ToolCallsAssumption DEF LateNotRegistered, Late
<1>9. HandedOverOnce'
  <2>1. \A d \in Calls : Late(d) => call[d].of # r
    BY <1>p, <1>k DEF LateNotRegistered
  <2> QED BY <2>1, <1>0 DEF HandedOverOnce, Late
<1> QED BY <1>1, <1>2, <1>3, <1>4, <1>5, <1>6, <1>7, <1>8, <1>9

(* A run moves on, out of "busy", "done" or "kept": its entry may go, a    *)
(* mark may go, and it is kept only with its key marked.                   *)
LEMMA RunKeeps ==
  ASSUME Inv, NEW r \in Calls, NEW to \in RunStates \ {"none", "busy"},
         run[r] \in {"busy", "done", "kept"}, run' = [run EXCEPT ![r] = to],
         UNCHANGED call, unclaimed' \subseteq unclaimed,
         to = "kept" => Key[r] \in unclaimed,
         \/ UNCHANGED running /\ to \in {"done", "kept"}
         \/ running' = [running EXCEPT ![Key[r]] = IF @ = r THEN NoRun ELSE @]
  PROVE  Inv'
<1> USE DEF Inv
<1>t. call \in [Calls -> Call] /\ Key[r] \in Keys /\ running \in [Keys -> Calls \cup {NoRun}]
      /\ run \in [Calls -> RunStates]
  BY KeyIsKey DEF TypeOK
<1>r. /\ run' \in [Calls -> RunStates] /\ run'[r] = to
      /\ \A d \in Calls \ {r} : run'[d] = run[d]
  BY <1>t
<1>n. /\ running' \in [Keys -> Calls \cup {NoRun}]
      /\ \A k \in Keys : running'[k] \in {running[k], NoRun}
      /\ \A k \in Keys : running[k] # r => running'[k] = running[k]
      /\ running'[Key[r]] = r => to \in {"done", "kept"}
  BY <1>t, ToolCallsAssumption
<1>1. TypeOK'
  BY <1>r, <1>n DEF TypeOK
<1>2. IdleHasNoRun'
  BY <1>r DEF IdleHasNoRun
<1>3. OnlyOwnKey'
  BY <1>n, <1>r DEF OnlyOwnKey
<1>4. OneRunPerKey'
  <2> SUFFICES ASSUME NEW q \in Calls, run'[q] = "busy" PROVE running'[Key[q]] = q
    BY DEF OneRunPerKey
  <2>1. q # r /\ run[q] = "busy"
    BY <1>r
  <2> QED BY <2>1, <1>n, KeyIsKey DEF OneRunPerKey
<1>5. OnlyKeptRegistered'
  <2> SUFFICES ASSUME NEW q \in Calls, running'[Key[q]] = q
               PROVE  run'[q] \in {"busy", "done", "kept"}
    BY DEF OnlyKeptRegistered
  <2>1. CASE q = r
    BY <2>1, <1>r, <1>n
  <2>2. CASE q # r
    <3>1. running[Key[q]] = q
      BY <1>n, KeyIsKey, ToolCallsAssumption
    <3> QED BY <3>1, <2>2, <1>r DEF OnlyKeptRegistered
  <2> QED BY <2>1, <2>2
<1>6. \A k : SomeTimeout(k) => SomeTimeout(k)'
  BY DEF SomeTimeout, TimedOut
<1>7. MarkHasTimeout'
  BY <1>6 DEF MarkHasTimeout
<1>8. KeptHasTimeout'
  BY <1>6, <1>r DEF KeptHasTimeout, MarkHasTimeout
<1>9. LateNeedsTimeout' /\ HandedOverOnce'
  BY DEF LateNeedsTimeout, HandedOverOnce, Late
<1>10. LateNotRegistered'
  BY <1>n, KeyIsKey, ToolCallsAssumption DEF LateNotRegistered, Late
<1> QED BY <1>1, <1>2, <1>3, <1>4, <1>5, <1>7, <1>8, <1>9, <1>10

LEMMA NextKeeps == ASSUME Inv, [Next]_vars PROVE Inv'
<1>1. CASE UNCHANGED vars
  BY <1>1 DEF vars, Inv, TypeOK, IdleHasNoRun, OnlyOwnKey, OneRunPerKey, MarkHasTimeout,
     KeptHasTimeout, OnlyKeptRegistered, LateNeedsTimeout, LateNotRegistered, HandedOverOnce,
     SomeTimeout, TimedOut, Late
<1>2. ASSUME NEW c \in Calls, Refuse(c) \/ Answer(c) \/ Cancelled(c) PROVE Inv'
  BY <1>2, SetsKeeps DEF Refuse, Answer, Cancelled, TimedOut, Outcomes
<1>3. ASSUME NEW c \in Calls, Deadline(c) PROVE Inv'
  BY <1>3, SetsKeeps DEF Deadline, TimedOut, Waits
<1>4. ASSUME NEW c \in Calls, GiveUp(c) PROVE Inv'
  BY <1>4, SetsKeeps DEF GiveUp, TimedOut, Outcomes
<1>5. ASSUME NEW c \in Calls, Start(c) \/ Join(c) \/ Take(c) PROVE Inv'
  BY <1>5, StartKeeps, JoinKeeps, TakeKeeps
<1>6. ASSUME NEW r \in Calls, Finish(r) PROVE Inv'
  BY <1>6, RunKeeps DEF Finish, RunStates
<1>7. ASSUME NEW r \in Calls, Keep(r) PROVE Inv'
  BY <1>7, RunKeeps DEF Keep, RunStates
<1>8. ASSUME NEW r \in Calls, Forget(r) PROVE Inv'
  BY <1>8, RunKeeps DEF Forget, Remove, RunStates
<1>9. ASSUME NEW r \in Calls, Drop(r) PROVE Inv'
  BY <1>9, RunKeeps DEF Drop, Remove, RunStates
<1> QED BY <1>1, <1>2, <1>3, <1>4, <1>5, <1>6, <1>7, <1>8, <1>9 DEF Next, CallStep, RunStep

LEMMA Invariant == Spec => []Inv
<1>1. Init => Inv
  BY InitInv
<1>2. Inv /\ [Next]_vars => Inv'
  BY NextKeeps
<1> QED BY <1>1, <1>2, PTL DEF Spec

(* The state of the pipeline's call sharing is well typed, and a call only *)
(* ever waits for a run of its own key.                                    *)
THEOREM CallsTyped == Spec => []TypeOK
<1>1. Inv => TypeOK
  BY DEF Inv
<1> QED BY <1>1, Invariant, PTL

(* Identical calls never have two runs working at the same time.           *)
THEOREM NeverTwice == Spec => []OneRunPerKey
<1>1. Inv => OneRunPerKey
  BY DEF Inv
<1> QED BY <1>1, Invariant, PTL

(* A call gets a result older than itself only after a time-out on its     *)
(* key, and a kept result is handed to at most one later call.             *)
THEOREM FreshWithoutTimeout == Spec => []OldResultsAreRare
<1>1. Inv => OldResultsAreRare
  BY DEF Inv, OldResultsAreRare
<1> QED BY <1>1, Invariant, PTL

-----------------------------------------------------------------------------
(***************************************************************************)
(* The result a caller missed is there for the retry.  From the moment a   *)
(* time limit expires on a run until the run's timer fires, provided       *)
(* nobody received the result and no other run of the key was ever kept,   *)
(* the run stays registered, no other run of the key is under way (so none *)
(* can end and take the mark away), and once the caller has been told, the *)
(* key stays marked until the run is kept.                                 *)
(***************************************************************************)
Waited(r) == \E c \in Calls : call[c].of = r /\ call[c].at \in {"expired", "timeout"}
Missed(r) == \E c \in Calls : call[c].of = r /\ call[c].at = "timeout"
OnlyKept(r) == \A q \in Calls \ {r} : Key[q] = Key[r] => ~Kept(q)
Due(r) == run[r] # "dropped" /\ Waited(r) /\ ~Received(r) /\ OnlyKept(r)

AloneUnderWay(r) == \A q \in Calls \ {r} : Key[q] = Key[r] => run[q] \notin {"busy", "done"}
Stands(r) ==
  /\ running[Key[r]] = r /\ AloneUnderWay(r)
  /\ Missed(r) /\ run[r] \in {"busy", "done"} => Key[r] \in unclaimed

Standing == \A r \in Calls : Due(r) => Stands(r)

(* A call that was not made yet has no run, and never had one.             *)
IdleIsBlank == \A c \in Calls : call[c].at = "idle" => call[c].of = NoRun

LEMMA InitStanding == Init => Standing /\ IdleIsBlank
BY ToolCallsAssumption DEF Init, Idle, Standing, Due, Waited, IdleIsBlank

(* A call that is refused, answered, cancelled or told of the time-out.    *)
LEMMA SetsStanding ==
  ASSUME Inv, Standing, NEW c \in Calls, NEW at \in Waits \cup Outcomes, Sets(c, at),
         UNCHANGED <<running, run>>, unclaimed \subseteq unclaimed', at # "expired",
         at = "timeout" => call[c].at = "expired" /\ Key[c] \in unclaimed'
  PROVE  Standing'
<1>0. /\ \A d \in Calls : call'[d].of = call[d].of /\ call'[d].how = call[d].how
      /\ \A d \in Calls \ {c} : call'[d] = call[d]
      /\ call'[c].at = at
  BY DEF Inv, TypeOK, Sets, Call
<1> SUFFICES ASSUME NEW r \in Calls, Due(r)' PROVE Stands(r)'
  BY DEF Standing
<1>1. Waited(r)
  <2>1. PICK d \in Calls : call'[d].of = r /\ call'[d].at \in {"expired", "timeout"}
    BY DEF Due, Waited
  <2>2. call[d].of = r /\ call[d].at \in {"expired", "timeout"}
    BY <1>0, <2>1
  <2> QED BY <2>2 DEF Waited
<1>2. Due(r)
  BY <1>0, <1>1 DEF Due, Received, OnlyKept, Kept
<1>3. Stands(r)
  BY <1>2 DEF Standing
<1>4. ASSUME Missed(r)', run[r] \in {"busy", "done"} PROVE Key[r] \in unclaimed'
  <2>1. PICK d \in Calls : call'[d].of = r /\ call'[d].at = "timeout"
    BY <1>4 DEF Missed
  <2>2. CASE d = c
    <3>1. call[c].of = r /\ at = "timeout"
      BY <1>0, <2>1, <2>2
    <3>2. Key[r] = Key[c]
      BY <3>1, ToolCallsAssumption DEF Inv, TypeOK
    <3> QED BY <3>1, <3>2
  <2>3. CASE d # c
    <3>1. call[d].of = r /\ call[d].at = "timeout"
      BY <1>0, <2>1, <2>3
    <3>2. Missed(r)
      BY <3>1 DEF Missed
    <3> QED BY <1>3, <1>4, <3>2 DEF Stands
  <2> QED BY <2>2, <2>3
<1> QED BY <1>3, <1>4 DEF Stands, AloneUnderWay

(* The time limit expires on a run that is working: it is the registered   *)
(* one, and what is due on the event loop has run.                         *)
LEMMA DeadlineStanding == ASSUME Inv, Standing, NEW c \in Calls, Deadline(c) PROVE Standing'
<1>t. UNCHANGED <<running, run>> /\ UNCHANGED unclaimed
  BY DEF Deadline
<1>1. CASE run[call[c].of] # "busy"
  <2>1. Sets(c, "raced") /\ "raced" \in Waits \cup Outcomes
    BY <1>1 DEF Deadline, Waits
  <2> QED BY <1>t, <2>1, SetsStanding
<1>2. CASE run[call[c].of] = "busy"
  <2>0. /\ \A d \in Calls : call'[d].of = call[d].of /\ call'[d].how = call[d].how
        /\ \A d \in Calls \ {c} : call'[d] = call[d]
        /\ call[c].at = "waiting" /\ call'[c].at = "expired"
    BY <1>2 DEF Inv, TypeOK, Deadline, Sets, Call
  <2> SUFFICES ASSUME NEW r \in Calls, Due(r)' PROVE Stands(r)'
    BY DEF Standing
  <2>1. Missed(r)' => Missed(r)
    BY <2>0 DEF Missed
  <2>2. CASE Waited(r)
    <3>1. Due(r)
      BY <1>t, <2>0, <2>2 DEF Due, Received, OnlyKept, Kept
    <3>2. Stands(r)
      BY <3>1 DEF Standing
    <3> QED BY <1>t, <2>1, <3>2 DEF Stands, AloneUnderWay
  <2>3. CASE ~Waited(r)
    <3>1. call[c].of = r
      BY <2>0, <2>3 DEF Due, Waited
    <3>2. run[r] = "busy" /\ running[Key[r]] = r
      BY <1>2, <3>1 DEF Inv, OneRunPerKey
    <3>3. \A q \in Calls \ {r} : Key[q] = Key[r] => run[q] # "done"
      BY <3>1 DEF Deadline, OnlyPending
    <3>4. \A q \in Calls \ {r} : Key[q] = Key[r] => run[q] # "busy"
      BY <3>2 DEF Inv, OneRunPerKey
    <3>5. ~Missed(r)'
      BY <2>1, <2>3 DEF Missed, Waited
    <3> QED BY <1>t, <3>2, <3>3, <3>4, <3>5 DEF Stands, AloneUnderWay
  <2> QED BY <2>2, <2>3
<1> QED BY <1>1, <1>2

(* A call that gets a run: a new one, or the registered one.               *)
LEMMA GetsStanding ==
  ASSUME Inv, Standing, NEW c \in Calls, NEW r \in Calls, Due(r)', call[c].of = NoRun,
         \A d \in Calls \ {c} : call'[d] = call[d],
         call'[c].at \in {"waiting", "answered"}, \A q \in Calls \ {c} : run'[q] = run[q],
         run[c] = "none", run'[c] \in {"none", "busy"}
  PROVE  Due(r) /\ Stands(r) /\ (Missed(r)' => Missed(r)) /\ r # c
<1>1. PICK d \in Calls \ {c} : call[d].of = r /\ call[d].at \in {"expired", "timeout"}
  BY DEF Due, Waited
<1>2. Waited(r) /\ r # c
  BY <1>1, ToolCallsAssumption DEF Waited, Inv, TypeOK
<1>3. Received(r) => Received(r)'
  <2>1. ASSUME NEW e \in Calls, call[e].of = r, call[e].how \in {"rejoined", "took", "late"}
        PROVE  e # c
    BY <2>1, ToolCallsAssumption
  <2> QED BY <2>1 DEF Received
<1>4. OnlyKept(r)
  BY DEF Due, OnlyKept, Kept
<1>5. run'[r] = run[r]
  BY <1>2
<1>6. Due(r)
  BY <1>2, <1>3, <1>4, <1>5 DEF Due
<1>7. Missed(r)' => Missed(r)
  BY DEF Missed
<1> QED BY <1>2, <1>6, <1>7 DEF Standing

LEMMA StartStanding ==
  ASSUME Inv, Standing, IdleIsBlank, NEW c \in Calls, Start(c) \/ Join(c) PROVE Standing'
<1> SUFFICES ASSUME NEW r \in Calls, Due(r)' PROVE Stands(r)'
  BY DEF Standing
<1>t. /\ call \in [Calls -> Call] /\ running \in [Keys -> Calls \cup {NoRun}]
      /\ run \in [Calls -> RunStates] /\ Key[c] \in Keys /\ Key[r] \in Keys
  BY KeyIsKey DEF Inv, TypeOK
<1>1. call[c].at = "idle" /\ call[c].of = NoRun /\ run[c] = "none" /\ UNCHANGED unclaimed
  BY DEF Start, Join, IdleIsBlank, Inv, IdleHasNoRun
<1>2. /\ \A d \in Calls \ {c} : call'[d] = call[d]
      /\ call'[c].at \in {"waiting", "answered"}
  BY <1>t DEF Start, Join, Gets
<1>3. \A q \in Calls \ {c} : run'[q] = run[q]
  BY <1>t DEF Start, Join
<1>4. run'[c] \in {"none", "busy"}
  BY <1>t, <1>1 DEF Start, Join
<1>5. Due(r) /\ Stands(r) /\ (Missed(r)' => Missed(r)) /\ r # c
  BY <1>1, <1>2, <1>3, <1>4, GetsStanding
<1>6. running'[Key[r]] = r /\ (Key[c] = Key[r] => run' = run)
  <2>1. CASE Start(c)
    <3>1. Key[r] # Key[c]
      BY <1>5, <2>1, ToolCallsAssumption DEF Start, Stands
    <3> QED BY <1>t, <1>5, <2>1, <3>1 DEF Start, Stands
  <2>2. CASE Join(c)
    BY <1>5, <2>2 DEF Join, Stands
  <2> QED BY <2>1, <2>2
<1>7. AloneUnderWay(r)'
  BY <1>3, <1>5, <1>6 DEF Stands, AloneUnderWay
<1>8. run'[r] = run[r]
  BY <1>3, <1>5
<1> QED BY <1>1, <1>5, <1>6, <1>7, <1>8 DEF Stands

(* A call that takes a finished run receives its result.                   *)
LEMMA TakeStanding ==
  ASSUME Inv, Standing, IdleIsBlank, NEW c \in Calls, Take(c) PROVE Standing'
<1> SUFFICES ASSUME NEW r \in Calls, Due(r)' PROVE Stands(r)'
  BY DEF Standing
<1>t. /\ call \in [Calls -> Call] /\ running \in [Keys -> Calls \cup {NoRun}]
      /\ run \in [Calls -> RunStates] /\ Key[c] \in Keys /\ Key[r] \in Keys
  BY KeyIsKey DEF Inv, TypeOK
<1>p. PICK q \in Calls : /\ running[Key[c]] = q
                         /\ Gets(c, q, IF Ended(q) THEN "late" ELSE "took")
  BY DEF Take
<1>1. call[c].at = "idle" /\ call[c].of = NoRun /\ run[c] = "none" /\ UNCHANGED run
  BY DEF Take, IdleIsBlank, Inv, IdleHasNoRun
<1>2. /\ \A d \in Calls \ {c} : call'[d] = call[d]
      /\ call'[c].at \in {"waiting", "answered"}
      /\ call'[c].of = q /\ call'[c].how \in {"took", "late"}
  BY <1>t, <1>p DEF Gets
<1>3. Due(r) /\ Stands(r) /\ (Missed(r)' => Missed(r))
  BY <1>1, <1>2, GetsStanding
<1>4. Key[r] # Key[c]
  <2>1. q # r
    BY <1>2 DEF Due, Received
  <2> QED BY <1>3, <1>p, <2>1 DEF Stands
<1>5. running'[Key[r]] = r /\ (Key[r] \in unclaimed => Key[r] \in unclaimed')
  BY <1>t, <1>3, <1>4 DEF Take, Stands
<1> QED BY <1>1, <1>3, <1>5 DEF Stands, AloneUnderWay

(* A run that moves on.  It is not another run of the key: that is not     *)
(* under way, and was never kept.                                          *)
LEMMA RunStanding ==
  ASSUME Inv, Standing, NEW q \in Calls, RunStep(q) PROVE Standing'
<1> SUFFICES ASSUME NEW r \in Calls, Due(r)' PROVE Stands(r)'
  BY DEF Standing
<1>t. /\ running \in [Keys -> Calls \cup {NoRun}] /\ run \in [Calls -> RunStates]
      /\ Key[q] \in Keys /\ Key[r] \in Keys /\ unclaimed \subseteq Keys
  BY KeyIsKey DEF Inv, TypeOK
<1>1. /\ UNCHANGED call /\ \A x \in Calls \ {q} : run'[x] = run[x]
      /\ run[q] \in {"busy", "done", "kept"}
      /\ run[q] = "kept" => run'[q] = "dropped"
  BY <1>t DEF RunStep, Finish, Keep, Forget, Drop
<1>2. Due(r)
  <2>1. Waited(r) /\ ~Received(r) /\ run[r] # "dropped"
    BY <1>1 DEF Due, Waited, Received
  <2>2. OnlyKept(r)
    BY <1>1 DEF Due, OnlyKept, Kept
  <2> QED BY <2>1, <2>2 DEF Due
<1>3. Stands(r) /\ (Missed(r)' <=> Missed(r))
  BY <1>1, <1>2 DEF Standing, Missed
<1>4. CASE q = r
  <2>1. CASE Forget(q)
    <3>1. Waited(r) /\ ~(\E c \in Calls : call[c].at = "expired" /\ call[c].of = r)
      BY <1>2, <1>4, <2>1 DEF Due, Forget
    <3>2. Missed(r)
      BY <3>1 DEF Waited, Missed
    <3> QED BY <1>3, <1>4, <2>1, <3>2 DEF Forget, Stands
  <2>2. CASE Drop(q)
    BY <1>t, <1>4, <2>2 DEF Drop, Due
  <2>3. CASE Finish(q) \/ Keep(q)
    <3>1. UNCHANGED <<running, unclaimed>> /\ run'[r] \in {"done", "kept"} /\ run[r] \in {"busy", "done"}
      BY <1>t, <1>4, <2>3 DEF Finish, Keep
    <3>2. AloneUnderWay(r)'
      BY <1>1, <1>3, <1>4 DEF Stands, AloneUnderWay
    <3> QED BY <1>3, <3>1, <3>2 DEF Stands
  <2> QED BY <2>1, <2>2, <2>3 DEF RunStep
<1>5. CASE q # r
  <2>1. Key[q] # Key[r]
    <3>1. CASE run[q] \in {"busy", "done"}
      BY <1>3, <1>5, <3>1 DEF Stands, AloneUnderWay
    <3>2. CASE run[q] = "kept"
      BY <1>2, <1>5, <3>2 DEF Due, OnlyKept, Kept
    <3> QED BY <1>1, <3>1, <3>2
  <2>2. running'[Key[r]] = running[Key[r]] /\ (Key[r] \in unclaimed => Key[r] \in unclaimed')
    BY <1>t, <2>1 DEF RunStep, Finish, Keep, Forget, Drop, Remove
  <2>3. AloneUnderWay(r)' /\ run'[r] = run[r]
    BY <1>1, <1>3, <1>5, <2>1 DEF Stands, AloneUnderWay
  <2> QED BY <1>3, <2>2, <2>3 DEF Stands
<1> QED BY <1>4, <1>5

LEMMA BlankStays == ASSUME Inv, IdleIsBlank, [Next]_vars PROVE IdleIsBlank'
<1> SUFFICES ASSUME NEW d \in Calls, call'[d].at = "idle" PROVE call'[d].of = NoRun
  BY DEF IdleIsBlank
<1>t. call \in [Calls -> Call]
  BY DEF Inv, TypeOK
<1>1. ASSUME NEW c \in Calls, NEW at \in Waits \cup Outcomes, Sets(c, at) PROVE call'[d].of = NoRun
  BY <1>t, <1>1 DEF Sets, IdleIsBlank, Waits, Outcomes
<1>2. ASSUME NEW c \in Calls, NEW r \in Calls, NEW how, Gets(c, r, how) PROVE call'[d].of = NoRun
  BY <1>t, <1>2 DEF Gets, IdleIsBlank
<1>3. ASSUME UNCHANGED call PROVE call'[d].of = NoRun
  BY <1>3 DEF IdleIsBlank
<1>4. ASSUME NEW c \in Calls, Refuse(c) \/ Answer(c) \/ Cancelled(c) \/ Deadline(c) \/ GiveUp(c)
      PROVE  call'[d].of = NoRun
  <2>1. \E at \in Waits \cup Outcomes : Sets(c, at)
    BY <1>4 DEF Refuse, Answer, Cancelled, Deadline, GiveUp, Waits, Outcomes
  <2> QED BY <1>1, <2>1
<1>5. ASSUME NEW c \in Calls, Start(c) \/ Join(c) \/ Take(c) PROVE call'[d].of = NoRun
  <2>1. \E r \in Calls : \E how \in Ways : Gets(c, r, how)
    BY <1>5 DEF Start, Join, Take, Ways
  <2> QED BY <1>2, <2>1
<1>6. ASSUME NEW c \in Calls, RunStep(c) PROVE call'[d].of = NoRun
  BY <1>3, <1>6 DEF RunStep, Finish, Keep, Forget, Drop
<1> QED BY <1>3, <1>4, <1>5, <1>6 DEF Next, CallStep, vars

LEMMA StandingStays == ASSUME Inv, Standing, IdleIsBlank, [Next]_vars PROVE Standing'
<1>1. CASE UNCHANGED vars
  BY <1>1 DEF vars, Standing, Due, Stands, Waited, Missed, OnlyKept, AloneUnderWay, Received, Kept
<1>2. ASSUME NEW c \in Calls, Refuse(c) \/ Answer(c) \/ Cancelled(c) PROVE Standing'
  <2>1. /\ \E at \in {"refused", "answered", "gone"} : Sets(c, at)
        /\ UNCHANGED <<running, run>> /\ UNCHANGED unclaimed
    BY <1>2 DEF Refuse, Answer, Cancelled
  <2> QED BY <2>1, SetsStanding DEF Outcomes
<1>3. ASSUME NEW c \in Calls, GiveUp(c) PROVE Standing'
  <2> DEFINE at == IF call[c].at = "expired" THEN "timeout" ELSE "raced_timeout"
  <2>1. Sets(c, at) /\ UNCHANGED <<running, run>> /\ unclaimed' = unclaimed \cup {Key[c]}
    BY <1>3 DEF GiveUp
  <2>2. at \in Waits \cup Outcomes /\ at # "expired" /\ (at = "timeout" => call[c].at = "expired")
    BY DEF Outcomes
  <2> HIDE DEF at
  <2> QED BY <2>1, <2>2, SetsStanding
<1>4. ASSUME NEW c \in Calls, Deadline(c) PROVE Standing'
  BY <1>4, DeadlineStanding
<1>5. ASSUME NEW c \in Calls, Start(c) \/ Join(c) \/ Take(c) PROVE Standing'
  BY <1>5, StartStanding, TakeStanding
<1>6. ASSUME NEW c \in Calls, RunStep(c) PROVE Standing'
  BY <1>6, RunStanding
<1> QED BY <1>1, <1>2, <1>3, <1>4, <1>5, <1>6 DEF Next, CallStep

(* The result of a run on which a call timed out is registered for the     *)
(* retry until the timer of its retention fires, for any number of calls,  *)
(* provided no other run of the key was ever kept (_running_call, _ended,  *)
(* _drop in pipeline.py).                                                  *)
THEOREM RetryIsServed == Spec => []TimedOutResultKept
<1>1. Init => Inv /\ Standing /\ IdleIsBlank
  BY InitInv, InitStanding
<1>2. Inv /\ Standing /\ IdleIsBlank /\ [Next]_vars => (Inv /\ Standing /\ IdleIsBlank)'
  BY NextKeeps, StandingStays, BlankStays
<1>3. Standing => TimedOutResultKept
  <2> SUFFICES ASSUME Standing, NEW r \in Calls, run[r] \in {"forgotten", "kept"}, ~Received(r),
                      \E c \in Calls : call[c].of = r /\ call[c].at = "timeout",
                      \A q \in Calls \ {r} : Key[q] = Key[r] => ~Kept(q)
               PROVE  running[Key[r]] = r
    BY DEF TimedOutResultKept
  <2>1. Due(r)
    BY DEF Due, Waited, OnlyKept
  <2> QED BY <2>1 DEF Standing, Stands
<1> QED BY <1>1, <1>2, <1>3, PTL DEF Spec
=============================================================================
