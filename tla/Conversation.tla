---------------------------- MODULE Conversation ----------------------------
(***************************************************************************)
(* One design session's conversation: the chat turns that                  *)
(* te_platform/agent/chat_api.py (post_message) runs with the agent loop   *)
(* of te_platform/agent/loop.py, and the two things they share through the *)
(* database: the stored messages and the pending tool calls.               *)
(*                                                                         *)
(* A turn is one POST.  It reads the history and the pending calls once,   *)
(* then works on its own copy of the history, writing every message as it  *)
(* goes.  Nothing makes a second POST on the session wait for the first.   *)
(* The provider (the model's API), the tools behind the MCP bridge and the *)
(* browser are the environment: a reply is any set of tool calls not used  *)
(* before, with any stop reason the provider maps to.                      *)
(*                                                                         *)
(* One action is one database transaction, one model request or one tool   *)
(* call.  Texts are not modelled: a message is who wrote it, the tool      *)
(* calls it makes and the results it carries.                              *)
(***************************************************************************)
EXTENDS Naturals, Sequences, FiniteSets, SequencesExt

CONSTANTS
  Posts,         \* the POSTs of the session, each of them one turn
  Uses,          \* tool_use ids the provider may give
  Costly,        \* those naming a tool whose cost class asks the user first
  Forms,         \* ask_user calls whose form is valid
  BadForms,      \* ask_user calls whose form is refused by parse_form
  Args,          \* the (tool, arguments) of each id: what failed_calls compares
  MaxToolCalls,  \* settings.agent_max_tool_calls_per_turn
  Overlapping,   \* TRUE: a POST may arrive while another turn runs
  FaultKinds,    \* which of {"provider", "bridge", "lost", "cut", "limit"} may happen
  MaxFaults      \* how many of the first four, altogether (bounds the model)

ASSUME ConversationAssumption ==
  /\ MaxToolCalls \in Nat
  /\ MaxFaults \in Nat
  /\ Overlapping \in BOOLEAN
  /\ Costly \subseteq Uses /\ Forms \subseteq Uses /\ BadForms \subseteq Uses
  /\ Costly \cap (Forms \cup BadForms) = {} /\ Forms \cap BadForms = {}
  /\ IsFiniteSet(Uses) /\ IsFiniteSet(Posts)

VARIABLES
  log,      \* rows of the messages table (user and assistant), by id
  rows,     \* the last row id given
  pending,  \* design_session.pending_tool_calls ("none", or a record)
  turn,     \* what each POST is doing
  ran,      \* how often each call was executed by its tool
  agreed,   \* history: costly calls some POST confirmed, with that POST
  faults    \* faults that have happened so far

vars == <<log, rows, pending, turn, ran, agreed, faults>>

(* A stored message.  `role' is "designer" for the user message a POST     *)
(* opens its turn with, "platform" for the user messages the loop writes   *)
(* itself (tool results, a reminder) and "assistant".                      *)
Said == {"ran", "declined", "refused", "repeat", "invalid", "answers", "skipped"}

Message == [row: Nat, role: {"designer", "platform", "assistant"},
            uses: SUBSET Uses, results: SUBSET (Uses \X Said)]

Answered(m) == {r[1] : r \in m.results}

PendingCalls == [ready: SUBSET (Uses \X Said), awaiting: SUBSET Uses, forms: SUBSET Uses]
NoPending == [ready |-> {}, awaiting |-> {}, forms |-> {}]
Owes(p) == {r[1] : r \in p.ready} \cup p.awaiting \cup p.forms

Running == {"settling", "greet", "loop", "remind", "calling", "refuse", "failed"}
Over    == {"final", "waiting", "limit", "error", "lost"}

Turn == [pc: {"idle"} \cup Running \cup Over, hist: Seq(Message),
         sent: SUBSET Uses, got: SUBSET (Uses \X Said), hold: SUBSET Uses,
         tools: Nat, reminded: BOOLEAN, failed: SUBSET {Args[u] : u \in Uses},
         stored: Seq(Message)]

Blank(pc) == [pc |-> pc, hist |-> <<>>, sent |-> {}, got |-> {},
              hold |-> {}, tools |-> 0, reminded |-> FALSE, failed |-> {}, stored |-> <<>>]

Issued == UNION {log[i].uses : i \in 1..Len(log)}

Paired(h) ==
  \A i \in 1..Len(h) :
    h[i].uses # {} => i < Len(h) /\ Answered(h[i + 1]) = h[i].uses

Init ==
  /\ log = <<>> /\ rows = 0 /\ pending = NoPending
  /\ turn = [p \in Posts |-> Blank("idle")]
  /\ ran = [u \in Uses |-> 0] /\ agreed = {} /\ faults = 0

Fault(kind) == /\ kind \in FaultKinds /\ faults < MaxFaults
               /\ faults' = faults + 1

Become(p, r) == turn' = [turn EXCEPT ![p] = r]

(* persist("message", m): the row, the turn's own history and the list of  *)
(* rows this turn has stored; `r' is the turn's record afterwards.         *)
Store(p, role, uses, results, r) ==
  LET m == [row |-> rows + 1, role |-> role, uses |-> uses, results |-> results] IN
  /\ log' = Append(log, m) /\ rows' = rows + 1
  /\ Become(p, IF r.pc \in Over THEN r
               ELSE [r EXCEPT !.hist = Append(@, m), !.stored = Append(@, m)])

(* Mutant: declined calls left out, instead of calls not confirmed *)
LoadUnlessDeclined(p) ==
  /\ turn[p].pc = "idle"
  /\ Overlapping \/ \A q \in Posts : turn[q].pc \notin Running
  /\ \E yes \in SUBSET (Issued \cap Costly) :
       /\ Become(p, [Blank(IF pending = NoPending THEN "greet" ELSE "settling")
                       EXCEPT !.hist = log, !.sent = pending.awaiting,
                              !.got = pending.ready
                                      \cup {<<u, "skipped">> : u \in pending.forms}])
       /\ agreed' = agreed \cup (yes \X {p})
  /\ UNCHANGED <<log, rows, pending, ran, faults>>

(* The POST: the history and the pending calls are read in one             *)
(* transaction (_load_turn).  Answers for a form that is not open are a    *)
(* 422 before anything else happens.  What was paused is then turned into  *)
(* results: a form into its answers or a "not submitted", a call the user  *)
(* did not confirm into "declined"; confirmed calls are run first.         *)
Load(p) ==
  /\ turn[p].pc = "idle"
  /\ Overlapping \/ \A q \in Posts : turn[q].pc \notin Running
  /\ \E yes \in SUBSET (Issued \cap Costly), filled \in SUBSET pending.forms :
       LET declined == pending.awaiting \ yes
           told == pending.ready
                   \cup {<<u, "answers">> : u \in filled}
                   \cup {<<u, "skipped">> : u \in pending.forms \ filled}
                   \cup {<<u, "declined">> : u \in declined} IN
       /\ Become(p, [Blank(IF pending = NoPending THEN "greet" ELSE "settling")
                       EXCEPT !.hist = log, !.sent = pending.awaiting \cap yes,
                              !.got = told])
       /\ agreed' = agreed \cup (yes \X {p})
  /\ UNCHANGED <<log, rows, pending, ran, faults>>

(* Mutant: a call that came back with an error is sent once more. *)
CallReturnsRetried(p, u) ==
  /\ turn[p].pc \in {"settling", "calling"} /\ u \in turn[p].sent
  /\ ran' = [ran EXCEPT ![u] = @ + 1]
  /\ \E ok \in BOOLEAN :
       Become(p, [turn[p] EXCEPT !.sent = IF ok \/ ran[u] > 0 THEN @ \ {u} ELSE @,
                                 !.got = @ \cup {<<u, "ran">>}])
  /\ UNCHANGED <<log, rows, pending, agreed, faults>>

(* One call comes back through the MCP bridge.  Only calls of this turn's  *)
(* own replies are remembered as failed, not those approved in a           *)
(* confirmation.                                                           *)
CallReturns(p, u) ==
  /\ turn[p].pc \in {"settling", "calling"} /\ u \in turn[p].sent
  /\ ran' = [ran EXCEPT ![u] = @ + 1]
  /\ \E ok \in BOOLEAN :
       Become(p, [turn[p] EXCEPT !.sent = @ \ {u}, !.got = @ \cup {<<u, "ran">>},
                    !.failed = IF ok \/ turn[p].pc = "settling" THEN @
                               ELSE @ \cup {Args[u]}])
  /\ UNCHANGED <<log, rows, pending, agreed, faults>>

(* persist("pending", None), once every settled call has come back.        *)
ClearPending(p) ==
  /\ turn[p].pc = "settling" /\ turn[p].sent = {}
  /\ pending' = NoPending
  /\ Become(p, [turn[p] EXCEPT !.pc = "greet"])
  /\ UNCHANGED <<log, rows, ran, agreed, faults>>

(* ONE user message with the owed results and the user's text.             *)
Greet(p) ==
  /\ turn[p].pc = "greet"
  /\ Store(p, "designer", {}, turn[p].got, [turn[p] EXCEPT !.pc = "loop", !.got = {}])
  /\ UNCHANGED <<pending, ran, agreed, faults>>

(* The session's token budget or the turn's deadline is reached.           *)
LimitReached(p) ==
  /\ turn[p].pc = "loop" /\ "limit" \in FaultKinds
  /\ Become(p, Blank("limit"))
  /\ UNCHANGED <<log, rows, pending, ran, agreed, faults>>

(* Mutant: a request the provider refuses is sent again without end. *)
ProviderFailsNever(p) ==
  /\ turn[p].pc = "loop" /\ Paired(turn[p].hist) /\ Fault("provider")
  /\ Become(p, [turn[p] EXCEPT !.pc = "failed"])
  /\ UNCHANGED <<log, rows, pending, ran, agreed>>

(* The model request fails.  A history in which a tool_use is not answered *)
(* by the next message is refused by the provider, always.                 *)
ProviderFails(p) ==
  /\ turn[p].pc = "loop"
  /\ \/ ~Paired(turn[p].hist) /\ UNCHANGED faults
     \/ Fault("provider")
  /\ Become(p, [turn[p] EXCEPT !.pc = "failed"])
  /\ UNCHANGED <<log, rows, pending, ran, agreed>>

(* What _step does with a reply, after the assistant message is stored.    *)
(* `idle': the text is empty, or announces a lookup and makes no call.     *)
AfterReply(t, calls, stop, idle) ==
  LET asked == t.tools + Cardinality(calls)
      forms == calls \cap Forms
      known == {u \in calls \ (Forms \cup BadForms \cup Costly) : Args[u] \in t.failed} IN
  IF ~t.reminded /\ calls = {} /\ stop \notin {"tool_use", "refusal"} /\ idle
    THEN [t EXCEPT !.pc = "remind"]
  ELSE IF stop # "tool_use" \/ calls = {}
    THEN Blank(IF stop \in {"end_turn", "refusal"} THEN "final" ELSE "limit")
  ELSE IF asked > MaxToolCalls
    THEN [t EXCEPT !.pc = "refuse", !.tools = asked, !.sent = {},
                   !.got = {<<u, "refused">> : u \in calls}]
  ELSE [t EXCEPT !.pc = "calling", !.tools = asked,
                 !.hold = forms \cup (calls \cap Costly),
                 !.sent = calls \ (Forms \cup BadForms \cup Costly \cup known),
                 !.got = {<<u, "invalid">> : u \in calls \cap BadForms}
                         \cup {<<u, "repeat">> : u \in known}]

(* A stop reason other than tool_use comes without calls, except when the  *)
(* provider cuts a reply at max_tokens in the middle of its calls.         *)
Reply(p) ==
  /\ turn[p].pc = "loop" /\ Paired(turn[p].hist)
  /\ \E calls \in SUBSET (Uses \ Issued), idle \in BOOLEAN,
        stop \in {"tool_use", "end_turn", "refusal", "max_tokens"} :
       /\ \/ (stop = "tool_use") = (calls # {}) /\ UNCHANGED faults
          \/ stop = "max_tokens" /\ calls # {} /\ Fault("cut")
       /\ idle => calls = {}
       /\ Store(p, "assistant", calls, {}, AfterReply(turn[p], calls, stop, idle))
  /\ UNCHANGED <<pending, ran, agreed>>

(* The one-time reminder; the loop then asks the model again.              *)
Remind(p) ==
  /\ turn[p].pc = "remind"
  /\ Store(p, "platform", {}, {}, [turn[p] EXCEPT !.pc = "loop", !.reminded = TRUE])
  /\ UNCHANGED <<pending, ran, agreed, faults>>

(* Mutant: the over-limit calls are not answered *)
RefuseSilently(p) ==
  /\ turn[p].pc = "refuse"
  /\ Become(p, Blank("limit"))
  /\ UNCHANGED <<log, rows, pending, ran, agreed, faults>>

(* Over the turn's tool-call limit: every tool_use is answered by an error *)
(* and the turn ends.                                                      *)
Refuse(p) ==
  /\ turn[p].pc = "refuse"
  /\ Store(p, "platform", {}, turn[p].got, Blank("limit"))
  /\ UNCHANGED <<pending, ran, agreed, faults>>

(* Every call of the reply has come back.  With a form or a costly call    *)
(* among them the turn pauses: what is known and what is awaited is stored *)
(* together, and the turn ends.  Otherwise all results go into ONE         *)
(* message.                                                                *)
Pause(p) ==
  /\ turn[p].pc = "calling" /\ turn[p].sent = {} /\ turn[p].hold # {}
  /\ pending' = [ready |-> turn[p].got, awaiting |-> turn[p].hold \cap Costly,
                 forms |-> turn[p].hold \cap Forms]
  /\ Become(p, Blank("waiting"))
  /\ UNCHANGED <<log, rows, ran, agreed, faults>>

(* Mutant: one user message for each result. *)
GiveOneResult(p) ==
  /\ turn[p].pc = "calling" /\ turn[p].sent = {} /\ turn[p].hold = {}
  /\ \E r \in turn[p].got :
       Store(p, "platform", {}, {r},
             [turn[p] EXCEPT !.got = @ \ {r},
                             !.pc = IF turn[p].got = {r} THEN "loop" ELSE @])
  /\ UNCHANGED <<pending, ran, agreed, faults>>

GiveResults(p) ==
  /\ turn[p].pc = "calling" /\ turn[p].sent = {} /\ turn[p].hold = {}
  /\ Store(p, "platform", {}, turn[p].got, [turn[p] EXCEPT !.pc = "loop", !.got = {}])
  /\ UNCHANGED <<pending, ran, agreed, faults>>

(* A call raises (the MCP server is restarted, the connection drops): the  *)
(* task group cancels the others.  Any of the calls may have been executed *)
(* by its tool all the same; none is sent again.                           *)
BridgeFails(p) ==
  /\ turn[p].pc \in {"settling", "calling"} /\ turn[p].sent # {}
  /\ Fault("bridge")
  /\ \E done \in SUBSET turn[p].sent :
       ran' = [u \in Uses |-> IF u \in done THEN ran[u] + 1 ELSE ran[u]]
  /\ Become(p, [turn[p] EXCEPT !.pc = "failed", !.sent = {}])
  /\ UNCHANGED <<log, rows, pending, agreed>>

(* _discard_unanswered: a failed turn that stored nothing but the          *)
(* designer's text takes it back.                                          *)
Discard(p) ==
  /\ turn[p].pc = "failed"
  /\ LET s == turn[p].stored
         textOnly == Len(s) = 1 /\ s[1].results = {} IN
     IF textOnly
       THEN \E i \in 1..Len(log) : log[i] = s[1] /\ log' = RemoveAt(log, i)
       ELSE UNCHANGED log
  /\ Become(p, Blank("error"))
  /\ UNCHANGED <<rows, pending, ran, agreed, faults>>

(* The browser closes the event stream or the process stops: the turn is   *)
(* cancelled where it waits, and no handler of post_message runs.  Calls   *)
(* already sent may still be executed.                                     *)
Lost(p) ==
  /\ turn[p].pc \in Running
  /\ Fault("lost")
  /\ \E done \in SUBSET turn[p].sent :
       ran' = [u \in Uses |-> IF u \in done THEN ran[u] + 1 ELSE ran[u]]
  /\ Become(p, Blank("lost"))
  /\ UNCHANGED <<log, rows, pending, agreed>>

Advance(p) ==
  \/ \E u \in Uses : CallReturns(p, u)
  \/ ClearPending(p) \/ Greet(p) \/ ProviderFails(p)
  \/ Reply(p) \/ Remind(p) \/ Refuse(p) \/ Pause(p) \/ GiveResults(p)
  \/ BridgeFails(p) \/ Discard(p)

Step(p) == Advance(p) \/ LimitReached(p)

Next == \E p \in Posts : Load(p) \/ Step(p) \/ Lost(p)

Spec == Init /\ [][Next]_vars

(* Every await of a turn ends: the provider's and the bridge's requests    *)
(* have timeouts, a tool call is bounded by the pipeline's, and asyncio    *)
(* resumes a coroutine whose await is done.  POSTs need not arrive, and    *)
(* the deadline and the budget are not relied on.                          *)
FairSpec == Spec /\ \A p \in Posts : WF_vars(Advance(p))

TypeOK ==
  /\ log \in Seq(Message) /\ rows \in Nat /\ pending \in PendingCalls
  /\ turn \in [Posts -> Turn] /\ ran \in [Uses -> Nat]
  /\ agreed \subseteq Uses \X Posts /\ faults \in 0..MaxFaults

-----------------------------------------------------------------------------
(* Properties.  `Quiet' ones are about turns that follow one another and   *)
(* are not cut short: runs with Overlapping FALSE and no fault but the     *)
(* provider's.  The others hold whatever happens.                          *)

(* A tool whose cost class asks the user first is never executed before a  *)
(* POST confirmed that very call (loop.py _step, _settle_pending).         *)
CostlyNeedsYes ==
  \A u \in Costly : ran[u] > 0 => \E p \in Posts : <<u, p>> \in agreed

(* A call that needs no confirmation is executed at most once, and a       *)
(* costly one at most once for each POST that confirmed it, also when      *)
(* POSTs overlap, connections drop and turns are cut short.                *)
RunsBounded ==
  \A u \in Uses :
    ran[u] <= IF u \in Costly THEN Cardinality({p \in Posts : <<u, p>> \in agreed}) ELSE 1

(* A result never precedes, in the stored history, the message that made   *)
(* the call: no interleaving of turns stores the answer first.             *)
ResultsFollowCalls ==
  \A i \in 1..Len(log) : \A u \in Answered(log[i]) : \E j \in 1..(i - 1) : u \in log[j].uses

(* Nothing runs more often, or is answered earlier, than it was asked for. *)
RunsInOrder == RunsBounded /\ ResultsFollowCalls

(* Quiet: the history sent with every model request answers each tool_use  *)
(* in the next message, through pauses, limits, skipped forms, failed      *)
(* requests and discarded messages (loop.py:175-190).                      *)
HistoryPaired == \A p \in Posts : turn[p].pc = "loop" => Paired(turn[p].hist)

(* Quiet: what the model is told of a call is what happened to it: a call  *)
(* reported as run ran exactly once, and one reported as declined,         *)
(* refused or not repeated never ran.                                      *)
TheModelIsToldTheTruth ==
  \A i \in 1..Len(log) : \A r \in log[i].results :
    ran[r[1]] = IF r[2] = "ran" THEN 1 ELSE 0

(* Quiet: calls are pending exactly when the stored history ends with the  *)
(* message that made them, and they are all of that message's calls.       *)
PendingCoversTheTail ==
  (\A p \in Posts : turn[p].pc \notin Running) =>
    Owes(pending) = IF log = <<>> THEN {} ELSE log[Len(log)].uses

(* Quiet: a message that got no answer is not in the history any more,     *)
(* unless it carried results or the turn ran into a limit                  *)
(* (_discard_unanswered: "every failed attempt would stay in the history,  *)
(* and the next successful turn would send the model all of them").        *)
FailedTextIsGone ==
  \A i \in 1..Len(log) :
    (i < Len(log) /\ log[i].role = "designer" /\ log[i + 1].role = "designer")
      => \/ log[i].results # {}
         \/ \E p \in Posts : turn[p].pc = "limit"

(* A turn asks the model at most MaxToolCalls + 3 times: every request but *)
(* the last makes a call, goes over the limit or gets the one reminder     *)
(* (loop.py _step).  The deadline and the token budget are not needed.     *)
RequestsBounded ==
  \A p \in Posts :
    Cardinality({i \in 1..Len(turn[p].stored) : turn[p].stored[i].role = "assistant"})
      < MaxToolCalls + 3

(* Quiet: the stored history is one a later turn can go on from, and no    *)
(* turn has made it longer than its limit on calls lets it.                *)
HistoryStands ==
  HistoryPaired /\ TheModelIsToldTheTruth /\ PendingCoversTheTail /\ FailedTextIsGone /\ RequestsBounded

(* Every turn ends, whatever the model replies and also on a history the   *)
(* provider refuses, without the help of the deadline or the token budget  *)
(* (loop.py run_turn, _step; post_message).                                *)
EveryTurnEnds == \A p \in Posts : turn[p].pc \in Running ~> turn[p].pc \in Over

-----------------------------------------------------------------------------
(* What the repository says and the code does not keep (see the README).   *)

(* loop.py:176: "every tool_use in an assistant message is answered by a   *)
(* tool_result in the NEXT user message".  Between turns the conversation  *)
(* can go on: every tool_use is answered or pending.                       *)
EveryCallAnswered ==
  (\A p \in Posts : turn[p].pc \notin Running) =>
    \A i \in 1..Len(log) :
      \/ log[i].uses = {}
      \/ i < Len(log) /\ Answered(log[i + 1]) = log[i].uses
      \/ i = Len(log) /\ Owes(pending) = log[i].uses

(* transcript.py:72-75: a conversation whose last message is the user's is *)
(* one whose "turn was cut short (a restart, a lost connection) or is      *)
(* still running".                                                         *)
UnfinishedMeansCutShort ==
  (log # <<>> /\ log[Len(log)].role # "assistant") =>
    \E p \in Posts : turn[p].pc \in Running \cup {"lost", "error"}

=============================================================================
