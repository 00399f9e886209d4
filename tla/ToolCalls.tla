------------------------------ MODULE ToolCalls ------------------------------
(***************************************************************************)
(* Step 5 of the tool pipeline (te_platform/registry/pipeline.py): the run *)
(* of a tool's handler with a time limit, and the sharing of that run      *)
(* between identical calls (_running_call, _RUNNING, _UNCLAIMED).          *)
(*                                                                         *)
(* A time limit ends the waiting, not the work: the handler's task goes on *)
(* and a later call with the same caller, tool and input gets that task.   *)
(* Everything happens on one asyncio event loop, so an action is what runs *)
(* between two suspensions: a callback, a timer or a resumed coroutine.    *)
(* The event loop runs callbacks in the order they were scheduled; where   *)
(* that order excludes an interleaving, a guard below says so.             *)
(*                                                                         *)
(* A run (the asyncio task) is named by the call that started it.  What a  *)
(* handler does and returns, an exception included, is not modelled: what  *)
(* matters here is which run a call gets its answer from, and when.        *)
(***************************************************************************)
EXTENDS Naturals, FiniteSets

CONSTANTS
  Calls,    \* the tool calls made, each one execution of pipeline.call
  Key,      \* the key of each call: caller, tool and hash of the input
  Hanging,  \* calls whose handler, if they start one, never returns
  NoRun     \* no task: an absent entry of _RUNNING

ASSUME ToolCallsAssumption ==
  /\ NoRun \notin Calls /\ Hanging \subseteq Calls
  /\ DOMAIN Key = Calls /\ IsFiniteSet(Calls)

VARIABLES
  running,    \* _RUNNING: the run registered for each key
  unclaimed,  \* _UNCLAIMED: keys whose result a timed-out call has not received
  run,        \* how far the run that each call started is
  call        \* what each call is doing, and the run it got

vars == <<running, unclaimed, run, call>>

Keys == {Key[c] : c \in Calls}

(* "done": the task has its result, its done callback (_ended) has not run *)
(* yet.  After it the run is "forgotten" or "kept" (its _drop timer is     *)
(* set), and "dropped" once the timer has fired.                           *)
RunStates == {"none", "busy", "done", "forgotten", "kept", "dropped"}
Ended(r) == run[r] \in {"forgotten", "kept", "dropped"}

(* "expired" and "raced": the time limit has cancelled the wait, before or *)
(* after the run got its result, and the call has not resumed yet.         *)
Waits    == {"waiting", "expired", "raced"}
Outcomes == {"answered", "timeout", "raced_timeout", "refused", "gone"}

(* How a call got its run: "rejoined" if another call had timed out on it, *)
(* "took" if it had just become done, "late" if it was a kept one.         *)
Ways == {"none", "started", "joined", "rejoined", "took", "late"}

Call == [at: {"idle"} \cup Waits \cup Outcomes, of: Calls \cup {NoRun}, how: Ways]

Idle == [at |-> "idle", of |-> NoRun, how |-> "none"]

TimedOutOn(r) == {c \in Calls : call[c].of = r /\ call[c].at \in {"timeout", "raced_timeout"}}

Init ==
  /\ running = [k \in Keys |-> NoRun] /\ unclaimed = {}
  /\ run = [c \in Calls |-> "none"] /\ call = [c \in Calls |-> Idle]

Sets(c, at) == call' = [call EXCEPT ![c] = [@ EXCEPT !.at = at]]

Gets(c, r, how) ==
  call' = [call EXCEPT ![c] = [at |-> IF how \in {"took", "late"} THEN "answered" ELSE "waiting",
                               of |-> r, how |-> how]]

(* Steps 1-4: an unknown tool, a scope that is not granted, the rate       *)
(* limit, an invalid input or a precondition refuses the call; no run is   *)
(* looked up.                                                              *)
Refuse(c) == /\ call[c].at = "idle"
             /\ Sets(c, "refused")
             /\ UNCHANGED <<running, unclaimed, run>>

(* _running_call finds no task for the key and starts one.                 *)
Start(c) ==
  /\ call[c].at = "idle" /\ running[Key[c]] = NoRun
  /\ running' = [running EXCEPT ![Key[c]] = c]
  /\ run' = [run EXCEPT ![c] = "busy"]
  /\ Gets(c, c, "started")
  /\ UNCHANGED unclaimed

(* It finds a task that is still working: wait for it. *)
Join(c) ==
  /\ call[c].at = "idle"
  /\ \E r \in Calls : /\ running[Key[c]] = r /\ run[r] = "busy"
                      /\ Gets(c, r, IF TimedOutOn(r) = {} THEN "joined" ELSE "rejoined")
  /\ UNCHANGED <<running, unclaimed, run>>

(* Mutant: the entry is not removed when it is handed over. *)
TakeAndLeave(c) ==
  /\ call[c].at = "idle"
  /\ \E r \in Calls : /\ running[Key[c]] = r /\ run[r] # "busy"
                      /\ Gets(c, r, IF Ended(r) THEN "late" ELSE "took")
  /\ unclaimed' = unclaimed \ {Key[c]}
  /\ UNCHANGED <<running, run>>

(* It finds a task that is done: hand its result over, once.  Awaiting it  *)
(* does not suspend the call.                                              *)
Take(c) ==
  /\ call[c].at = "idle"
  /\ \E r \in Calls : /\ running[Key[c]] = r /\ run[r] # "busy"
                      /\ Gets(c, r, IF Ended(r) THEN "late" ELSE "took")
  /\ running' = [running EXCEPT ![Key[c]] = NoRun]
  /\ unclaimed' = unclaimed \ {Key[c]}
  /\ UNCHANGED run

(* The handler returns or raises. *)
Finish(r) ==
  /\ run[r] = "busy" /\ r \notin Hanging
  /\ run' = [run EXCEPT ![r] = "done"]
  /\ UNCHANGED <<running, unclaimed, call>>

(* _ended with the key marked: the timer of RETAIN_S is set.  A call whose *)
(* wait was cancelled before the run was done resumes first.               *)
Keep(r) ==
  /\ run[r] = "done"
  /\ \A c \in Calls : ~(call[c].at = "expired" /\ call[c].of = r)
  /\ Key[r] \in unclaimed
  /\ run' = [run EXCEPT ![r] = "kept"]
  /\ UNCHANGED <<running, unclaimed, call>>

(* _drop: the entry goes if it is still this run's; the mark goes          *)
(* whoever's it is.                                                        *)
Remove(r) ==
  /\ running' = [running EXCEPT ![Key[r]] = IF @ = r THEN NoRun ELSE @]
  /\ unclaimed' = unclaimed \ {Key[r]}

(* _ended without a mark. *)
Forget(r) ==
  /\ run[r] = "done"
  /\ \A c \in Calls : ~(call[c].at = "expired" /\ call[c].of = r)
  /\ Key[r] \notin unclaimed
  /\ run' = [run EXCEPT ![r] = "forgotten"]
  /\ Remove(r)
  /\ UNCHANGED call

(* Mutant: the timer removes whatever run is registered for the key. *)
DropAnyRun(r) ==
  /\ run[r] = "kept"
  /\ run' = [run EXCEPT ![r] = "dropped"]
  /\ running' = [running EXCEPT ![Key[r]] = NoRun]
  /\ unclaimed' = unclaimed \ {Key[r]}
  /\ UNCHANGED call

(* Mutant: the timer does nothing when the key is not marked any more *)
DropIfMarked(r) ==
  /\ run[r] = "kept" /\ Key[r] \in unclaimed
  /\ run' = [run EXCEPT ![r] = "dropped"]
  /\ Remove(r)
  /\ UNCHANGED call

(* The timer of a kept run fires (all timers have the same length, so they *)
(* fire in the order they were set; the model also allows any other).      *)
Drop(r) ==
  /\ run[r] = "kept"
  /\ run' = [run EXCEPT ![r] = "dropped"]
  /\ Remove(r)
  /\ UNCHANGED call

(* The run's result wakes the call; _ended was registered first, and ran.  *)
Answer(c) ==
  /\ call[c].at = "waiting" /\ Ended(call[c].of)
  /\ Sets(c, "answered")
  /\ UNCHANGED <<running, unclaimed, run>>

(* What is due on the event loop runs long before a run started meanwhile  *)
(* reaches its time limit.                                                 *)
OnlyPending(r) ==
  /\ \A q \in Calls : run[q] = "done" /\ Key[q] = Key[r] => q = r
  /\ \A d \in Calls : call[d].at \in {"expired", "raced"} /\ Key[d] = Key[r] => call[d].of = r

(* anyio.fail_after: the time limit cancels the wait (the run is shielded).*)
Deadline(c) ==
  /\ call[c].at = "waiting" /\ ~Ended(call[c].of) /\ OnlyPending(call[c].of)
  /\ Sets(c, IF run[call[c].of] = "busy" THEN "expired" ELSE "raced")
  /\ UNCHANGED <<running, unclaimed, run>>

(* Mutant: the key is not marked *)
GiveUpUnmarked(c) ==
  /\ call[c].at \in {"expired", "raced"}
  /\ call[c].at = "raced" => Ended(call[c].of)
  /\ Sets(c, IF call[c].at = "expired" THEN "timeout" ELSE "raced_timeout")
  /\ UNCHANGED <<running, unclaimed, run>>

(* except TimeoutError: the key is marked and the caller told to retry.  A *)
(* wait cancelled after the run was done resumes after _ended has run.     *)
GiveUp(c) ==
  /\ call[c].at \in {"expired", "raced"}
  /\ call[c].at = "raced" => Ended(call[c].of)
  /\ Sets(c, IF call[c].at = "expired" THEN "timeout" ELSE "raced_timeout")
  /\ unclaimed' = unclaimed \cup {Key[c]}
  /\ UNCHANGED <<running, run>>

(* The MCP request is cancelled (its client goes away, the server closes   *)
(* the connection): the call ends without an outcome, the run goes on.     *)
Cancelled(c) ==
  /\ call[c].at = "waiting"
  /\ Sets(c, "gone")
  /\ UNCHANGED <<running, unclaimed, run>>

CallStep(c) == Answer(c) \/ Deadline(c) \/ GiveUp(c)
RunStep(r)  == Finish(r) \/ Keep(r) \/ Forget(r) \/ Drop(r)

Next == \E c \in Calls :
  \/ Refuse(c) \/ Start(c) \/ Join(c) \/ Take(c) \/ Cancelled(c)
  \/ CallStep(c) \/ RunStep(c)

Spec == Init /\ [][Next]_vars

(* The event loop runs every callback that is due and every timer; a       *)
(* handler returns unless it is one of Hanging.  Calls need not be made.   *)
FairSpec == Spec /\ \A c \in Calls : WF_vars(CallStep(c)) /\ WF_vars(RunStep(c))

TypeOK ==
  /\ running \in [Keys -> Calls \cup {NoRun}]
  /\ unclaimed \subseteq Keys
  /\ run \in [Calls -> RunStates]
  /\ call \in [Calls -> Call]
  /\ \A c \in Calls : call[c].of # NoRun => Key[call[c].of] = Key[c] /\ run[call[c].of] # "none"

-----------------------------------------------------------------------------
(* Properties.                                                             *)

Late(c) == call[c].how = "late"

(* An operation is never carried out twice at the same time for one        *)
(* caller: at most one run of a key is working, it is the registered one,  *)
(* and neither time limits, retries nor the timers of earlier runs change  *)
(* that (pipeline.py:149-152, "instead of starting a second one").         *)
OneRunPerKey == \A r \in Calls : run[r] = "busy" => running[Key[r]] = r

(* Without a time-out no call is answered from a run that was over before  *)
(* it was made: polling sees new states (pipeline.py:153-154).             *)
LateNeedsTimeout ==
  \A c \in Calls : Late(c) =>
    \E d \in Calls : Key[d] = Key[c] /\ call[d].at \in {"timeout", "raced_timeout"}

(* A kept result is handed to one later call, never to two.                *)
HandedOverOnce ==
  \A c, d \in Calls : Late(c) /\ Late(d) /\ call[c].of = call[d].of => c = d

(* Both: an old result answers a call only after a time-out, and only one. *)
OldResultsAreRare == LateNeedsTimeout /\ HandedOverOnce

(* The result of a run on which a call timed out is still there for the    *)
(* retry until the timer fires, provided no other run of the key was ever  *)
(* kept.                                                                   *)
Kept(r) == run[r] \in {"kept", "dropped"}
Received(r) == \E c \in Calls : call[c].of = r /\ call[c].how \in {"rejoined", "took", "late"}
TimedOutResultKept ==
  \A r \in Calls :
    (/\ run[r] \in {"forgotten", "kept"} /\ ~Received(r)
     /\ \E c \in Calls : call[c].of = r /\ call[c].at = "timeout"
     /\ \A q \in Calls \ {r} : Key[q] = Key[r] => ~Kept(q))
      => running[Key[r]] = r

(* Every call that waits gets an answer or a time-out, also when the       *)
(* handler it waits for never returns.                                     *)
CallsEnd == \A c \in Calls : call[c].at \in Waits ~> call[c].at \in Outcomes

(* Nothing stays registered: an entry is removed unless its handler hangs. *)
EntriesGo == \A r \in Calls \ Hanging : running[Key[r]] = r ~> running[Key[r]] # r

(* Both: whoever waits is told, and whatever ended is forgotten.           *)
EverythingEnds == CallsEnd /\ EntriesGo

-----------------------------------------------------------------------------
(* What pipeline.py:149-156 says of the kept results and the code does     *)
(* not keep (see the README).                                              *)

(* "if nobody timed out waiting for it, it is forgotten at once, so a      *)
(* later identical call runs again".                                       *)
ForgottenAtOnce == \A c \in Calls : Late(c) => TimedOutOn(call[c].of) # {}

(* "its result is kept for ONE retry": a result some retry has received is *)
(* not given to a later call.                                              *)
KeptForOneRetry ==
  \A c, d \in Calls :
    (Late(c) /\ d # c /\ call[d].of = call[c].of /\ call[d].how = "rejoined")
      => call[d].at # "answered"

(* "if a caller timed out, its result is kept [...] for at most RETAIN_S,  *)
(* so the retry gets the result the caller never received".                *)
RetryFindsResult ==
  \A r \in Calls :
    (/\ run[r] \in {"forgotten", "kept"} /\ ~Received(r)
     /\ \E c \in Calls : call[c].of = r /\ call[c].at = "timeout")
      => running[Key[r]] = r

=============================================================================
