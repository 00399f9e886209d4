------------------------- MODULE ConversationProofs -------------------------
(***************************************************************************)
(* For any number of POSTs, calls and faults, in any interleaving: the     *)
(* state is well typed, no costly tool is executed before a POST confirmed *)
(* that call, and nothing runs more often, or is answered earlier, than it *)
(* was asked for.  For turns that wait for one another and are not cut     *)
(* short, also: the stored history is one a later turn can go on from, and *)
(* the calls of one reply are answered all together (Calm, at the end).    *)
(*                                                                         *)
(* Consent is not inductive by itself: a call executed now was put into    *)
(* `sent' by an earlier step.  SentHasConsent says that whatever a turn    *)
(* has sent and is costly was confirmed, which the two places that fill    *)
(* `sent' establish: Load takes pending calls the POST confirms, Reply     *)
(* leaves costly calls out.  The account that RunsInOrder needs is below.  *)
(***************************************************************************)
EXTENDS ConversationRefinement, FiniteSetTheorems, SequenceTheorems, TLAPS

Consented(u) == \E q \in Posts : <<u, q>> \in agreed

SentHasConsent == \A p \in Posts : \A u \in turn[p].sent \cap Costly : Consented(u)

Inv == TypeOK /\ CostlyNeedsYes /\ SentHasConsent

(* The record Blank(pc) is a turn that has sent nothing.                   *)
LEMMA BlankIsTurn ==
  ASSUME NEW pc \in {"idle"} \cup Running \cup Over
  PROVE  Blank(pc) \in Turn /\ Blank(pc).sent = {} /\ Blank(pc).pc = pc
BY DEF Blank, Turn

(* A turn replaced by one whose costly sent calls are confirmed keeps the  *)
(* two invariants about turns.                                             *)
LEMMA BecomeKeeps ==
  ASSUME turn \in [Posts -> Turn], SentHasConsent, NEW p \in Posts, NEW r \in Turn,
         Become(p, r), agreed \subseteq agreed',
         \A u \in r.sent \cap Costly : Consented(u)'
  PROVE  turn' \in [Posts -> Turn] /\ SentHasConsent'
<1>1. turn' \in [Posts -> Turn]
  BY DEF Become
<1>2. ASSUME NEW q \in Posts, NEW u \in turn'[q].sent \cap Costly
      PROVE  Consented(u)'
  <2>1. CASE q = p
    BY <1>2, <2>1 DEF Become
  <2>2. CASE q # p
    <3>1. u \in turn[q].sent \cap Costly
      BY <1>2, <2>2 DEF Become
    <3>2. Consented(u)
      BY <3>1 DEF SentHasConsent
    <3> QED BY <3>2 DEF Consented
  <2> QED BY <2>1, <2>2
<1> QED BY <1>1, <1>2 DEF SentHasConsent

(* A step that executes nothing and forgets no confirmation keeps consent. *)
LEMMA ConsentStays ==
  ASSUME CostlyNeedsYes, UNCHANGED ran, agreed \subseteq agreed'
  PROVE  CostlyNeedsYes'
BY DEF CostlyNeedsYes

(* Executing calls that were sent keeps consent: what is costly among them *)
(* was confirmed.                                                          *)
LEMMA ConsentExecutes ==
  ASSUME TypeOK, CostlyNeedsYes, SentHasConsent, NEW p \in Posts,
         NEW done \in SUBSET turn[p].sent, UNCHANGED agreed,
         \A u \in Uses : u \notin done => ran'[u] = ran[u]
  PROVE  CostlyNeedsYes'
<1> SUFFICES ASSUME NEW u \in Costly, ran'[u] > 0
             PROVE  \E q \in Posts : <<u, q>> \in agreed
  BY DEF CostlyNeedsYes
<1>1. CASE u \in done
  <2>1. u \in turn[p].sent \cap Costly
    BY <1>1
  <2> QED BY <2>1 DEF SentHasConsent, Consented
<1>2. CASE u \notin done
  BY <1>2, ConversationAssumption DEF CostlyNeedsYes
<1> QED BY <1>1, <1>2

(* Storing a message.                                                      *)
LEMMA StoreKeeps ==
  ASSUME Inv, NEW p \in Posts, NEW role \in {"designer", "platform", "assistant"},
         NEW uses \in SUBSET Uses, NEW results \in SUBSET (Uses \X Said), NEW r \in Turn,
         Store(p, role, uses, results, r), UNCHANGED <<ran, agreed>>,
         \A u \in r.sent \cap Costly : Consented(u)
  PROVE  /\ log' \in Seq(Message) /\ rows' \in Nat /\ turn' \in [Posts -> Turn]
         /\ SentHasConsent' /\ CostlyNeedsYes'
<1> DEFINE m == [row |-> rows + 1, role |-> role, uses |-> uses, results |-> results]
           n == IF r.pc \in Over THEN r
                ELSE [r EXCEPT !.hist = Append(@, m), !.stored = Append(@, m)]
<1>1. m \in Message
  BY DEF Inv, TypeOK, Message
<1>2. log' \in Seq(Message) /\ rows' \in Nat
  BY <1>1 DEF Inv, TypeOK, Store
<1>3. Append(r.hist, m) \in Seq(Message) /\ Append(r.stored, m) \in Seq(Message)
  BY <1>1 DEF Turn
<1>4. n \in Turn /\ n.sent = r.sent
  BY <1>3 DEF Turn
<1>5. Become(p, n)
  BY DEF Store
<1>6. \A u \in n.sent \cap Costly : Consented(u)'
  BY <1>4 DEF Consented
<1>7. turn' \in [Posts -> Turn] /\ SentHasConsent'
  BY <1>4, <1>5, <1>6, BecomeKeeps DEF Inv, TypeOK
<1>8. CostlyNeedsYes'
  BY ConsentStays DEF Inv
<1> QED BY <1>2, <1>7, <1>8

(* What a reply leads to: a turn that sends no costly call, holds nothing  *)
(* but the calls of the reply and what it held, and is over or goes on     *)
(* with what it has stored.                                                *)
Ids(S)  == {r[1] : r \in S}
Held(t) == Ids(t.got) \cup t.sent \cup t.hold

Follows(t, calls, r) ==
  /\ r \in Turn /\ r.sent \subseteq t.sent \cup (calls \ Costly)
  /\ Held(r) \subseteq Held(t) \cup calls
  /\ \/ r.pc \in Over /\ r.stored = <<>>
     \/ r.pc \in {"remind", "calling", "refuse"} /\ r.stored = t.stored

LEMMA AfterReplyFollows ==
  ASSUME NEW t \in Turn, NEW calls \in SUBSET Uses, NEW stop, NEW idle \in BOOLEAN
  PROVE  Follows(t, calls, AfterReply(t, calls, stop, idle))
<1> DEFINE asked == t.tools + Cardinality(calls)
           forms == calls \cap Forms
           known == {u \in calls \ (Forms \cup BadForms \cup Costly) : Args[u] \in t.failed}
           r == AfterReply(t, calls, stop, idle)
<1>1. asked \in Nat
  <2>1. IsFiniteSet(calls)
    BY ConversationAssumption, FS_Subset
  <2>2. Cardinality(calls) \in Nat
    BY <2>1, FS_CardinalityType
  <2> QED BY <2>2 DEF Turn
<1>2. known \subseteq calls /\ forms \subseteq Uses
  OBVIOUS
<1>3. CASE r = [t EXCEPT !.pc = "remind"]
  <2> DEFINE s == [t EXCEPT !.pc = "remind"]
  <2>1. /\ s \in Turn /\ s.sent = t.sent /\ s.got = t.got /\ s.hold = t.hold
        /\ s.stored = t.stored /\ s.pc = "remind"
    BY DEF Turn, Running
  <2> HIDE DEF s
  <2>2. Follows(t, calls, s)
    BY <2>1 DEF Follows, Held
  <2> QED BY <1>3, <2>2 DEF s
<1>4. CASE r = Blank(IF stop \in {"end_turn", "refusal"} THEN "final" ELSE "limit")
  <2>1. ASSUME NEW pc \in {"final", "limit"} PROVE Follows(t, calls, Blank(pc))
    <3>1. /\ Blank(pc) \in Turn /\ Blank(pc).sent = {} /\ Blank(pc).got = {} /\ Blank(pc).hold = {}
          /\ Blank(pc).stored = <<>> /\ Blank(pc).pc \in Over
      BY BlankIsTurn DEF Blank, Over
    <3> QED BY <3>1 DEF Follows, Held, Ids
  <2> QED BY <1>4, <2>1
<1>5. CASE r = [t EXCEPT !.pc = "refuse", !.tools = asked, !.sent = {},
                         !.got = {<<u, "refused">> : u \in calls}]
  <2> DEFINE got == {<<u, "refused">> : u \in calls}
             n == asked
             s == [t EXCEPT !.pc = "refuse", !.tools = n, !.sent = {}, !.got = got]
  <2>1. got \subseteq Uses \X Said /\ Ids(got) \subseteq calls /\ n \in Nat
    BY <1>1 DEF Said, Ids
  <2>2. r = s
    BY <1>5
  <2> HIDE DEF got, n
  <2>3. /\ s \in Turn /\ s.sent = {} /\ s.got = got /\ s.hold = t.hold
        /\ s.stored = t.stored /\ s.pc = "refuse"
    BY <2>1 DEF Turn, Running
  <2> HIDE DEF s, r
  <2>4. Follows(t, calls, s)
    BY <2>1, <2>3 DEF Follows, Held
  <2> QED BY <2>2, <2>4 DEF r
<1>6. CASE r = [t EXCEPT !.pc = "calling", !.tools = asked,
                 !.hold = forms \cup (calls \cap Costly),
                 !.sent = calls \ (Forms \cup BadForms \cup Costly \cup known),
                 !.got = {<<u, "invalid">> : u \in calls \cap BadForms}
                         \cup {<<u, "repeat">> : u \in known}]
  <2> DEFINE hold == forms \cup (calls \cap Costly)
             sent == calls \ (Forms \cup BadForms \cup Costly \cup known)
             got == {<<u, "invalid">> : u \in calls \cap BadForms}
                    \cup {<<u, "repeat">> : u \in known}
             n == asked
             s == [t EXCEPT !.pc = "calling", !.tools = n, !.hold = hold,
                            !.sent = sent, !.got = got]
  <2>1. got \subseteq Uses \X Said /\ Ids(got) \subseteq calls
    <3>1. \A x \in got : x[1] \in calls /\ x \in Uses \X Said
      BY <1>2 DEF Said
    <3> QED BY <3>1 DEF Ids
  <2>2. /\ hold \subseteq Uses /\ hold \subseteq calls /\ sent \subseteq Uses
        /\ sent \subseteq calls \ Costly /\ n \in Nat
    BY <1>1, <1>2
  <2>3. r = s
    BY <1>6
  <2> HIDE DEF hold, sent, got, n
  <2>4. /\ s \in Turn /\ s.sent = sent /\ s.got = got /\ s.hold = hold
        /\ s.stored = t.stored /\ s.pc = "calling"
    BY <2>1, <2>2 DEF Turn, Running
  <2> HIDE DEF s, r
  <2>5. Follows(t, calls, s)
    BY <2>1, <2>2, <2>4 DEF Follows, Held
  <2> QED BY <2>3, <2>5 DEF r
<1> QED BY <1>3, <1>4, <1>5, <1>6 DEF AfterReply

(* In particular it sends nothing costly that was not confirmed.           *)
LEMMA AfterReplyIsTurn ==
  ASSUME NEW t \in Turn, NEW calls \in SUBSET Uses, NEW stop, NEW idle \in BOOLEAN,
         \A u \in t.sent \cap Costly : Consented(u)
  PROVE  LET r == AfterReply(t, calls, stop, idle) IN
         r \in Turn /\ \A u \in r.sent \cap Costly : Consented(u)
<1> DEFINE r == AfterReply(t, calls, stop, idle)
<1>1. Follows(t, calls, r)
  BY AfterReplyFollows
<1> HIDE DEF r
<1>2. r \in Turn /\ r.sent \subseteq t.sent \cup (calls \ Costly)
  BY <1>1 DEF Follows
<1>3. \A u \in r.sent \cap Costly : Consented(u)
  BY <1>2
<1> QED BY <1>2, <1>3 DEF r

LEMMA InitInv == Init => Inv
<1> SUFFICES ASSUME Init PROVE Inv
  OBVIOUS
<1>1. Blank("idle") \in Turn /\ Blank("idle").sent = {}
  BY BlankIsTurn
<1>2. turn \in [Posts -> Turn] /\ SentHasConsent
  BY <1>1 DEF Init, SentHasConsent
<1>3. pending \in PendingCalls
  BY DEF Init, NoPending, PendingCalls
<1>4. log \in Seq(Message) /\ rows \in Nat /\ faults \in 0..MaxFaults
  BY ConversationAssumption DEF Init
<1>5. ran \in [Uses -> Nat] /\ agreed \subseteq Uses \X Posts /\ CostlyNeedsYes
  BY ConversationAssumption DEF Init, CostlyNeedsYes
<1> QED BY <1>2, <1>3, <1>4, <1>5 DEF Inv, TypeOK

(* The parts of TypeOK a step may leave alone, all at once.                *)
LEMMA Assemble ==
  ASSUME log' \in Seq(Message), rows' \in Nat, pending' \in PendingCalls,
         turn' \in [Posts -> Turn], ran' \in [Uses -> Nat],
         agreed' \subseteq Uses \X Posts, faults' \in 0..MaxFaults,
         CostlyNeedsYes', SentHasConsent'
  PROVE  Inv'
BY DEF Inv, TypeOK

LEMMA FaultBounded == ASSUME NEW k, faults \in 0..MaxFaults, Fault(k) PROVE faults' \in 0..MaxFaults
BY ConversationAssumption DEF Fault

LEMMA NextInv == Inv /\ [Next]_vars => Inv'
<1> SUFFICES ASSUME Inv, [Next]_vars PROVE Inv'
  OBVIOUS
<1>T. TypeOK /\ CostlyNeedsYes /\ SentHasConsent
  BY DEF Inv
<1>t. /\ log \in Seq(Message) /\ rows \in Nat /\ pending \in PendingCalls
      /\ turn \in [Posts -> Turn] /\ ran \in [Uses -> Nat]
      /\ agreed \subseteq Uses \X Posts /\ faults \in 0..MaxFaults
  BY DEF Inv, TypeOK
<1>1. ASSUME NEW p \in Posts, Load(p) PROVE Inv'
  <2>1. PICK yes \in SUBSET (Issued \cap Costly), filled \in SUBSET pending.forms :
          LET declined == pending.awaiting \ yes
              told == pending.ready
                      \cup {<<u, "answers">> : u \in filled}
                      \cup {<<u, "skipped">> : u \in pending.forms \ filled}
                      \cup {<<u, "declined">> : u \in declined} IN
          /\ Become(p, [Blank(IF pending = NoPending THEN "greet" ELSE "settling")
                          EXCEPT !.hist = log, !.sent = pending.awaiting \cap yes,
                                 !.got = told])
          /\ agreed' = agreed \cup (yes \X {p})
    BY <1>1 DEF Load
  <2> DEFINE told == pending.ready
                     \cup {<<u, "answers">> : u \in filled}
                     \cup {<<u, "skipped">> : u \in pending.forms \ filled}
                     \cup {<<u, "declined">> : u \in pending.awaiting \ yes}
             pc == IF pending = NoPending THEN "greet" ELSE "settling"
             r == [Blank(pc) EXCEPT !.hist = log, !.sent = pending.awaiting \cap yes,
                                    !.got = told]
  <2>2. pc \in {"idle"} \cup Running \cup Over
    BY DEF Running
  <2>3. Blank(pc) \in Turn
    BY <2>2, BlankIsTurn
  <2>4. pending.awaiting \subseteq Uses /\ pending.forms \subseteq Uses
        /\ pending.ready \subseteq Uses \X Said
    BY <1>t DEF PendingCalls
  <2>5. told \subseteq Uses \X Said
    BY <2>4 DEF Said
  <2>6. yes \subseteq Uses
    BY ConversationAssumption
  <2>7. r \in Turn /\ r.sent = pending.awaiting \cap yes
    <3> HIDE DEF told, pc
    <3> QED BY <1>t, <2>3, <2>4, <2>5 DEF Turn
  <2>8. Become(p, r)
    BY <2>1
  <2>9. agreed \subseteq agreed' /\ agreed' \subseteq Uses \X Posts
    BY <1>t, <2>1, <2>6
  <2>10. \A u \in r.sent \cap Costly : Consented(u)'
    BY <2>1, <2>7 DEF Consented
  <2>11. turn' \in [Posts -> Turn] /\ SentHasConsent'
    <3> HIDE DEF r
    <3> QED BY <1>T, <1>t, <2>7, <2>8, <2>9, <2>10, BecomeKeeps
  <2>12. UNCHANGED <<log, rows, pending, ran, faults>>
    BY <1>1 DEF Load
  <2>13. CostlyNeedsYes'
    BY <1>T, <2>9, <2>12, ConsentStays
  <2> QED BY <1>t, <2>9, <2>11, <2>12, <2>13, Assemble
<1>2. ASSUME NEW p \in Posts, NEW u \in Uses, CallReturns(p, u) PROVE Inv'
  <2>1. PICK ok \in BOOLEAN :
          Become(p, [turn[p] EXCEPT !.sent = @ \ {u}, !.got = @ \cup {<<u, "ran">>},
                       !.failed = IF ok \/ turn[p].pc = "settling" THEN @
                                  ELSE @ \cup {Args[u]}])
    BY <1>2 DEF CallReturns
  <2> DEFINE f == IF ok \/ turn[p].pc = "settling" THEN turn[p].failed
                  ELSE turn[p].failed \cup {Args[u]}
             r == [turn[p] EXCEPT !.sent = @ \ {u}, !.got = @ \cup {<<u, "ran">>},
                                  !.failed = f]
  <2>2. turn[p] \in Turn
    BY <1>t
  <2>3. f \in SUBSET {Args[v] : v \in Uses}
    BY <2>2 DEF Turn
  <2>4. turn[p].got \cup {<<u, "ran">>} \subseteq Uses \X Said
    BY <2>2 DEF Turn, Said
  <2>5. r \in Turn /\ r.sent = turn[p].sent \ {u}
    <3> HIDE DEF f
    <3> QED BY <2>2, <2>3, <2>4 DEF Turn
  <2>6. Become(p, r)
    BY <2>1
  <2>7. /\ UNCHANGED <<log, rows, pending, agreed, faults>> /\ u \in turn[p].sent
        /\ ran' = [ran EXCEPT ![u] = @ + 1]
    BY <1>2 DEF CallReturns
  <2>8. \A v \in r.sent \cap Costly : Consented(v)'
    BY <1>T, <2>5, <2>7 DEF SentHasConsent, Consented
  <2>9. turn' \in [Posts -> Turn] /\ SentHasConsent'
    <3> HIDE DEF r
    <3> QED BY <1>T, <1>t, <2>5, <2>6, <2>7, <2>8, BecomeKeeps
  <2>10. ran' \in [Uses -> Nat] /\ \A v \in Uses : v \notin {u} => ran'[v] = ran[v]
    BY <1>t, <2>7
  <2>11. CostlyNeedsYes'
    <3>1. {u} \in SUBSET turn[p].sent
      BY <2>7
    <3> QED BY <1>T, <2>7, <2>10, <3>1, ConsentExecutes
  <2> QED BY <1>t, <2>7, <2>9, <2>10, <2>11, Assemble
(* Steps that only move the turn on, with the same or no calls sent.       *)
<1>q. ASSUME NEW p \in Posts, NEW r \in Turn, Become(p, r), r.sent \subseteq turn[p].sent,
             UNCHANGED <<ran, agreed>>, log' \in Seq(Message), rows' \in Nat,
             pending' \in PendingCalls, faults' \in 0..MaxFaults
      PROVE  Inv'
  <2>1. \A u \in r.sent \cap Costly : Consented(u)'
    BY <1>T, <1>q DEF SentHasConsent, Consented
  <2>2. turn' \in [Posts -> Turn] /\ SentHasConsent'
    BY <1>T, <1>t, <1>q, <2>1, BecomeKeeps
  <2>3. CostlyNeedsYes'
    BY <1>T, <1>q, ConsentStays
  <2> QED BY <1>t, <1>q, <2>2, <2>3, Assemble
(* Steps that store a message, and with it a turn that sends no more.      *)
<1>m. ASSUME NEW p \in Posts, NEW role \in {"designer", "platform", "assistant"},
             NEW uses \in SUBSET Uses, NEW results \in SUBSET (Uses \X Said), NEW r \in Turn,
             Store(p, role, uses, results, r), UNCHANGED <<pending, ran, agreed>>,
             faults' \in 0..MaxFaults, \A u \in r.sent \cap Costly : Consented(u)
      PROVE  Inv'
  <2>1. /\ log' \in Seq(Message) /\ rows' \in Nat /\ turn' \in [Posts -> Turn]
        /\ SentHasConsent' /\ CostlyNeedsYes'
    BY <1>m, StoreKeeps
  <2> QED BY <1>t, <1>m, <2>1, Assemble
<1>c. \A p \in Posts : \A u \in turn[p].sent \cap Costly : Consented(u)
  BY <1>T DEF SentHasConsent
<1>B. /\ \A pc \in Over : Blank(pc) \in Turn /\ Blank(pc).sent = {}
  BY BlankIsTurn
<1>3. ASSUME NEW p \in Posts, ClearPending(p) PROVE Inv'
  <2> DEFINE r == [turn[p] EXCEPT !.pc = "greet"]
  <2>1. r \in Turn /\ r.sent = turn[p].sent
    BY <1>t, ZenonT(40) DEF Turn, Running
  <2>2. NoPending \in PendingCalls
    BY DEF NoPending, PendingCalls
  <2> QED BY <1>3, <1>q, <1>t, <2>1, <2>2 DEF ClearPending
<1>4. ASSUME NEW p \in Posts, Greet(p) PROVE Inv'
  <2> DEFINE r == [turn[p] EXCEPT !.pc = "loop", !.got = {}]
  <2>1. r \in Turn /\ r.sent = turn[p].sent /\ turn[p].got \in SUBSET (Uses \X Said)
    BY <1>t, ZenonT(40) DEF Turn, Running
  <2>2. Store(p, "designer", {}, turn[p].got, r) /\ UNCHANGED <<pending, ran, agreed, faults>>
    BY <1>4 DEF Greet
  <2> QED BY <1>c, <1>m, <1>t, <2>1, <2>2
<1>5. ASSUME NEW p \in Posts, LimitReached(p) PROVE Inv'
  <2>1. Blank("limit") \in Turn /\ Blank("limit").sent \subseteq turn[p].sent
    BY <1>B DEF Over
  <2> QED BY <1>5, <1>q, <1>t, <2>1 DEF LimitReached
<1>6. ASSUME NEW p \in Posts, ProviderFails(p) PROVE Inv'
  <2> DEFINE r == [turn[p] EXCEPT !.pc = "failed"]
  <2>1. r \in Turn /\ r.sent = turn[p].sent
    BY <1>t, ZenonT(40) DEF Turn, Running
  <2>2. faults' \in 0..MaxFaults
    BY <1>6, <1>t, FaultBounded DEF ProviderFails
  <2> QED BY <1>6, <1>q, <1>t, <2>1, <2>2 DEF ProviderFails
<1>7. ASSUME NEW p \in Posts, Reply(p) PROVE Inv'
  <2>1. PICK calls \in SUBSET (Uses \ Issued), idle \in BOOLEAN,
             stop \in {"tool_use", "end_turn", "refusal", "max_tokens"} :
          /\ \/ (stop = "tool_use") = (calls # {}) /\ UNCHANGED faults
             \/ stop = "max_tokens" /\ calls # {} /\ Fault("cut")
          /\ idle => calls = {}
          /\ Store(p, "assistant", calls, {}, AfterReply(turn[p], calls, stop, idle))
    BY <1>7 DEF Reply
  <2> DEFINE r == AfterReply(turn[p], calls, stop, idle)
  <2>2. turn[p] \in Turn /\ calls \in SUBSET Uses
    BY <1>t
  <2>3. r \in Turn /\ \A u \in r.sent \cap Costly : Consented(u)
    BY <1>c, <2>2, AfterReplyIsTurn
  <2>4. faults' \in 0..MaxFaults
    BY <1>t, <2>1, FaultBounded
  <2>5. UNCHANGED <<pending, ran, agreed>>
    BY <1>7 DEF Reply
  <2> HIDE DEF r
  <2> QED BY <1>m, <2>1, <2>2, <2>3, <2>4, <2>5 DEF r
<1>8. ASSUME NEW p \in Posts, Remind(p) PROVE Inv'
  <2> DEFINE r == [turn[p] EXCEPT !.pc = "loop", !.reminded = TRUE]
  <2>1. r \in Turn /\ r.sent = turn[p].sent
    BY <1>t, ZenonT(40) DEF Turn, Running
  <2>2. Store(p, "platform", {}, {}, r) /\ UNCHANGED <<pending, ran, agreed, faults>>
    BY <1>8 DEF Remind
  <2> QED BY <1>c, <1>m, <1>t, <2>1, <2>2
<1>9. ASSUME NEW p \in Posts, Refuse(p) PROVE Inv'
  <2>1. Blank("limit") \in Turn /\ Blank("limit").sent = {}
    BY <1>B DEF Over
  <2>2. turn[p].got \in SUBSET (Uses \X Said)
    BY <1>t DEF Turn
  <2>3. Store(p, "platform", {}, turn[p].got, Blank("limit"))
        /\ UNCHANGED <<pending, ran, agreed, faults>>
    BY <1>9 DEF Refuse
  <2> QED BY <1>m, <1>t, <2>1, <2>2, <2>3
<1>10. ASSUME NEW p \in Posts, Pause(p) PROVE Inv'
  <2>1. Blank("waiting") \in Turn /\ Blank("waiting").sent \subseteq turn[p].sent
    BY <1>B DEF Over
  <2>2. turn[p] \in Turn
    BY <1>t
  <2>3. [ready |-> turn[p].got, awaiting |-> turn[p].hold \cap Costly,
         forms |-> turn[p].hold \cap Forms] \in PendingCalls
    BY <2>2 DEF Turn, PendingCalls
  <2> QED BY <1>10, <1>q, <1>t, <2>1, <2>3 DEF Pause
<1>11. ASSUME NEW p \in Posts, GiveResults(p) PROVE Inv'
  <2> DEFINE r == [turn[p] EXCEPT !.pc = "loop", !.got = {}]
  <2>1. r \in Turn /\ r.sent = turn[p].sent /\ turn[p].got \in SUBSET (Uses \X Said)
    BY <1>t, ZenonT(40) DEF Turn, Running
  <2>2. Store(p, "platform", {}, turn[p].got, r) /\ UNCHANGED <<pending, ran, agreed, faults>>
    BY <1>11 DEF GiveResults
  <2> QED BY <1>c, <1>m, <1>t, <2>1, <2>2
(* Calls of a turn that is cut short may have been executed.               *)
<1>x. ASSUME NEW p \in Posts, NEW r \in Turn, Become(p, r), r.sent \subseteq turn[p].sent,
             NEW k, Fault(k), UNCHANGED <<log, rows, pending, agreed>>,
             \E done \in SUBSET turn[p].sent :
               ran' = [u \in Uses |-> IF u \in done THEN ran[u] + 1 ELSE ran[u]]
      PROVE  Inv'
  <2>1. PICK done \in SUBSET turn[p].sent :
          ran' = [u \in Uses |-> IF u \in done THEN ran[u] + 1 ELSE ran[u]]
    BY <1>x
  <2>2. ran' \in [Uses -> Nat] /\ \A u \in Uses : u \notin done => ran'[u] = ran[u]
    BY <1>t, <2>1
  <2>3. CostlyNeedsYes'
    BY <1>T, <1>x, <2>2, ConsentExecutes
  <2>4. \A u \in r.sent \cap Costly : Consented(u)'
    BY <1>c, <1>x DEF Consented
  <2>5. turn' \in [Posts -> Turn] /\ SentHasConsent'
    BY <1>T, <1>t, <1>x, <2>4, BecomeKeeps
  <2>6. faults' \in 0..MaxFaults
    BY <1>t, <1>x, FaultBounded
  <2> QED BY <1>t, <1>x, <2>2, <2>3, <2>5, <2>6, Assemble
<1>12. ASSUME NEW p \in Posts, BridgeFails(p) PROVE Inv'
  <2> DEFINE r == [turn[p] EXCEPT !.pc = "failed", !.sent = {}]
  <2>1. r \in Turn /\ r.sent \subseteq turn[p].sent
    BY <1>t, ZenonT(40) DEF Turn, Running
  <2> QED BY <1>12, <1>x, <2>1 DEF BridgeFails
<1>13. ASSUME NEW p \in Posts, Discard(p) PROVE Inv'
  <2>1. Blank("error") \in Turn /\ Blank("error").sent \subseteq turn[p].sent
    BY <1>B DEF Over
  <2>2. log' \in Seq(Message)
    <3>1. ASSUME NEW i \in 1..Len(log) PROVE RemoveAt(log, i) \in Seq(Message)
      <4>1. SubSeq(log, 1, i - 1) \in Seq(Message) /\ SubSeq(log, i + 1, Len(log)) \in Seq(Message)
        BY <1>t
      <4> QED BY <4>1 DEF RemoveAt
    <3> QED BY <1>13, <1>t, <3>1 DEF Discard
  <2> QED BY <1>13, <1>q, <1>t, <2>1, <2>2 DEF Discard
<1>14. ASSUME NEW p \in Posts, Lost(p) PROVE Inv'
  <2>1. Blank("lost") \in Turn /\ Blank("lost").sent \subseteq turn[p].sent
    BY <1>B DEF Over
  <2> QED BY <1>14, <1>x, <2>1 DEF Lost
<1>15. CASE UNCHANGED vars
  BY <1>15 DEF vars, Inv, TypeOK, CostlyNeedsYes, SentHasConsent, Consented
<1> QED
  BY <1>1, <1>2, <1>3, <1>4, <1>5, <1>6, <1>7, <1>8, <1>9, <1>10, <1>11, <1>12, <1>13,
     <1>14, <1>15 DEF Next, Step, Advance

(* Every reachable state is well typed (the messages table, the pending    *)
(* calls, every turn).                                                     *)
THEOREM ConversationType == Spec => []TypeOK
<1>1. Inv => TypeOK
  BY DEF Inv
<1> QED BY <1>1, InitInv, NextInv, PTL DEF Spec

(* No costly tool is executed before a POST confirmed that call, whatever  *)
(* overlaps, fails or is lost (loop.py _step, _settle_pending).            *)
THEOREM Consent == Spec => []CostlyNeedsYes
<1>1. Inv => CostlyNeedsYes
  BY DEF Inv
<1> QED BY <1>1, InitInv, NextInv, PTL DEF Spec

-----------------------------------------------------------------------------
(***************************************************************************)
(* Nothing runs more often than it was asked for, and no answer comes      *)
(* before its call.  Of the first the induction needs an account: what a   *)
(* call has run, and the turns that still hold it as sent, are covered by  *)
(* the POSTs that confirmed it, or by the one reply that made it.  A POST  *)
(* confirms once, because it loads once; a reply makes new calls only, and *)
(* a message taken back (Discard) is one that made none.                   *)
(***************************************************************************)
Holders(u)  == {p \in Posts : u \in turn[p].sent}
Agreeing(u) == {p \in Posts : <<u, p>> \in agreed}
Allowed(u)  == IF u \in Costly THEN Cardinality(Agreeing(u)) ELSE IF u \in Issued THEN 1 ELSE 0
RunsPaid    == \A u \in Uses : ran[u] + Cardinality(Holders(u)) <= Allowed(u)

IdleFresh ==
  \A p \in Posts : turn[p].pc = "idle" => turn[p].sent = {} /\ \A u \in Uses : <<u, p>> \notin agreed

Mentioned ==
  /\ \A p \in Posts : Held(turn[p]) \subseteq Issued
  /\ Owes(pending) \subseteq Issued /\ pending.awaiting \subseteq Costly

OpensWithText(t) ==
  /\ t.pc \in {"idle", "settling", "greet"} => t.stored = <<>>
  /\ t.pc \in {"loop", "remind", "calling", "refuse"} => t.stored # <<>>
  /\ t.stored # <<>> => t.stored[1].uses = {}
Opened == \A p \in Posts : OpensWithText(turn[p])

Account == RunsPaid /\ IdleFresh /\ Mentioned /\ Opened /\ ResultsFollowCalls

(* Counting among the POSTs.                                               *)
LEMMA Counts ==
  ASSUME NEW S \in SUBSET Posts
  PROVE  IsFiniteSet(S) /\ Cardinality(S) \in Nat
BY ConversationAssumption, FS_Subset, FS_CardinalityType

LEMMA FewerCount ==
  ASSUME NEW S \in SUBSET Posts, NEW T \in SUBSET S
  PROVE  Cardinality(T) <= Cardinality(S)
BY Counts, FS_Subset

LEMMA OneMoreCounts ==
  ASSUME NEW S \in SUBSET Posts, NEW p \in Posts
  PROVE  /\ Cardinality(S \cup {p}) = IF p \in S THEN Cardinality(S) ELSE Cardinality(S) + 1
         /\ Cardinality(S \ {p}) = IF p \in S THEN Cardinality(S) - 1 ELSE Cardinality(S)
BY Counts, FS_AddElement, FS_RemoveElement

LEMMA NobodyCounts ==
  ASSUME NEW S \in SUBSET Posts, Cardinality(S) = 0 PROVE S = {}
BY Counts, FS_EmptySet

(* What is stored: a message more, or one less that made no calls.         *)
LEMMA IssuedAppend ==
  ASSUME log \in Seq(Message), NEW m \in Message, log' = Append(log, m)
  PROVE  Issued' = Issued \cup m.uses
<1>1. /\ Len(log') = Len(log) + 1 /\ log'[Len(log) + 1] = m
      /\ \A i \in 1..Len(log) : log'[i] = log[i]
  BY AppendProperties
<1>2. 1..Len(log') = 1..Len(log) \cup {Len(log) + 1} /\ Len(log) \in Nat
  BY <1>1
<1>3. Issued' = UNION {log'[i].uses : i \in 1..Len(log')}
  BY DEF Issued
<1> QED BY <1>1, <1>2, <1>3 DEF Issued

LEMMA OrderAppend ==
  ASSUME log \in Seq(Message), NEW m \in Message, log' = Append(log, m),
         ResultsFollowCalls, Answered(m) \subseteq Issued
  PROVE  ResultsFollowCalls'
<1>1. /\ Len(log') = Len(log) + 1 /\ log'[Len(log) + 1] = m
      /\ \A i \in 1..Len(log) : log'[i] = log[i]
  BY AppendProperties
<1>2. Len(log) \in Nat
  OBVIOUS
<1> SUFFICES ASSUME NEW i \in 1..Len(log'), NEW u \in Answered(log'[i])
             PROVE  \E j \in 1..(i - 1) : u \in log'[j].uses
  BY DEF ResultsFollowCalls, Answered
<1>3. CASE i \in 1..Len(log)
  <2>1. u \in Answered(log[i])
    BY <1>1, <1>3
  <2>2. PICK j \in 1..(i - 1) : u \in log[j].uses
    BY <1>3, <2>1 DEF ResultsFollowCalls
  <2> QED BY <1>1, <1>2, <1>3, <2>2
<1>4. CASE i = Len(log) + 1
  <2>1. u \in Issued
    BY <1>1, <1>4
  <2>2. PICK j \in 1..Len(log) : u \in log[j].uses
    BY <2>1 DEF Issued
  <2> QED BY <1>1, <1>2, <1>4, <2>2
<1> QED BY <1>1, <1>2, <1>3, <1>4

LEMMA RemoveShape ==
  ASSUME log \in Seq(Message), NEW i \in 1..Len(log), log' = RemoveAt(log, i)
  PROVE  /\ log' \in Seq(Message) /\ Len(log') = Len(log) - 1
         /\ \A k \in 1..Len(log') : log'[k] = IF k < i THEN log[k] ELSE log[k + 1]
<1> DEFINE before == SubSeq(log, 1, i - 1)
           after == SubSeq(log, i + 1, Len(log))
<1>1. Len(log) \in Nat /\ i \in Nat /\ \A k \in 1..Len(log) : log[k] \in Message
  OBVIOUS
<1>2. before \in Seq(Message) /\ Len(before) = i - 1 /\ \A k \in 1..(i - 1) : before[k] = log[k]
  BY <1>1
<1>3. after \in Seq(Message) /\ Len(after) = Len(log) - i /\ \A k \in 1..(Len(log) - i) : after[k] = log[k + i]
  BY <1>1
<1>4. log' = before \o after
  BY DEF RemoveAt
<1> HIDE DEF before, after
<1>5. /\ log' \in Seq(Message) /\ Len(log') = Len(log) - 1
      /\ \A k \in 1..(Len(log) - 1) : log'[k] = IF k <= i - 1 THEN before[k] ELSE after[k - (i - 1)]
  <2>1. /\ before \o after \in Seq(Message)
        /\ Len(before \o after) = Len(before) + Len(after)
        /\ \A k \in 1..(Len(before) + Len(after)) :
             (before \o after)[k] = IF k <= Len(before) THEN before[k] ELSE after[k - Len(before)]
    BY <1>2, <1>3, ConcatProperties
  <2>2. Len(before) + Len(after) = Len(log) - 1
    BY <1>1, <1>2, <1>3
  <2> QED BY <1>2, <1>4, <2>1, <2>2
<1>6. ASSUME NEW k \in 1..(Len(log) - 1) PROVE log'[k] = IF k < i THEN log[k] ELSE log[k + 1]
  <2>1. CASE k < i
    BY <1>1, <1>2, <1>5, <2>1
  <2>2. CASE k >= i
    <3>1. k - (i - 1) \in 1..(Len(log) - i) /\ (k - (i - 1)) + i = k + 1
      BY <1>1, <2>2
    <3> QED BY <1>1, <1>3, <1>5, <2>2, <3>1
  <2> QED BY <1>1, <2>1, <2>2
<1> QED BY <1>5, <1>6

LEMMA Removed ==
  ASSUME log \in Seq(Message), NEW i \in 1..Len(log), log[i].uses = {}, log' = RemoveAt(log, i),
         ResultsFollowCalls
  PROVE  Issued' = Issued /\ ResultsFollowCalls'
<1>1. /\ Len(log) \in Nat /\ Len(log') = Len(log) - 1
      /\ \A k \in 1..Len(log') : log'[k] = IF k < i THEN log[k] ELSE log[k + 1]
  BY RemoveShape
<1> DEFINE New(k) == IF k < i THEN k ELSE k - 1
<1>2. ASSUME NEW k \in 1..Len(log), k # i
      PROVE  New(k) \in 1..Len(log') /\ log'[New(k)] = log[k]
  BY <1>1, <1>2
<1>3. Issued' = Issued
  <2>1. Issued' = UNION {log'[k].uses : k \in 1..Len(log')}
    BY DEF Issued
  <2>2. ASSUME NEW u \in Issued PROVE u \in Issued'
    <3>1. PICK k \in 1..Len(log) : u \in log[k].uses
      BY DEF Issued
    <3>2. k # i
      BY <3>1
    <3> HIDE DEF New
    <3> QED BY <1>2, <2>1, <3>1, <3>2
  <2>3. ASSUME NEW u \in Issued' PROVE u \in Issued
    <3>1. PICK k \in 1..Len(log') : u \in log'[k].uses
      BY <2>1, <2>3
    <3>2. \E j \in 1..Len(log) : u \in log[j].uses
      BY <1>1, <3>1
    <3> QED BY <3>2 DEF Issued
  <2> QED BY <2>2, <2>3
<1>4. ASSUME NEW k \in 1..Len(log'), NEW u \in Answered(log'[k])
      PROVE  \E j \in 1..(k - 1) : u \in log'[j].uses
  <2> DEFINE o == IF k < i THEN k ELSE k + 1
  <2>1. o \in 1..Len(log) /\ u \in Answered(log[o]) /\ o # i /\ New(o) = k
    BY <1>1, <1>4
  <2>2. PICK j \in 1..(o - 1) : u \in log[j].uses
    BY <2>1 DEF ResultsFollowCalls
  <2>3. j \in 1..Len(log) /\ j # i
    BY <1>1, <2>1, <2>2
  <2>4. New(j) \in 1..(k - 1)
    BY <1>1, <2>1, <2>2, <2>3
  <2> HIDE DEF New
  <2> QED BY <1>2, <2>2, <2>3, <2>4
<1> QED BY <1>3, <1>4 DEF ResultsFollowCalls, Answered
(* The account after each kind of step: what a turn sent has run or not,   *)
(* a reply sends new calls, a POST sends what it confirmed.                *)
LEMMA PaidShrinks ==
  ASSUME TypeOK, RunsPaid, NEW p \in Posts, NEW r \in Turn, Become(p, r), r.sent \subseteq turn[p].sent,
         NEW done \in SUBSET (turn[p].sent \ r.sent), UNCHANGED agreed, Issued \subseteq Issued',
         ran' = [u \in Uses |-> IF u \in done THEN ran[u] + 1 ELSE ran[u]]
  PROVE  RunsPaid'
<1> SUFFICES ASSUME NEW u \in Uses PROVE ran'[u] + Cardinality(Holders(u)') <= Allowed(u)'
  BY DEF RunsPaid
<1>1. turn \in [Posts -> Turn] /\ ran \in [Uses -> Nat] /\ turn' = [turn EXCEPT ![p] = r]
  BY DEF TypeOK, Become
<1>2. ran[u] + Cardinality(Holders(u)) <= Allowed(u)
  BY DEF RunsPaid
<1>3. Agreeing(u)' = Agreeing(u)
  BY DEF Agreeing
<1>4. Allowed(u) <= Allowed(u)' /\ Allowed(u) \in Nat /\ Allowed(u)' \in Nat
  <2>1. Agreeing(u) \in SUBSET Posts
    BY DEF Agreeing
  <2>2. Cardinality(Agreeing(u)) \in Nat
    BY <2>1, Counts
  <2> QED BY <1>3, <2>2 DEF Allowed
<1>5. Holders(u) \in SUBSET Posts /\ Holders(u)' \in SUBSET Posts
  BY DEF Holders
<1>6. Cardinality(Holders(u)) \in Nat /\ Cardinality(Holders(u)') \in Nat
  BY <1>5, Counts
<1>7. CASE u \in done
  <2>1. Holders(u)' = Holders(u) \ {p} /\ p \in Holders(u)
    BY <1>1, <1>7 DEF Holders
  <2>2. Cardinality(Holders(u)') = Cardinality(Holders(u)) - 1
    BY <1>5, <2>1, OneMoreCounts
  <2>3. ran'[u] = ran[u] + 1 /\ ran[u] \in Nat
    BY <1>1, <1>7
  <2> QED BY <1>2, <1>4, <1>6, <2>2, <2>3
<1>8. CASE u \notin done
  <2>1. Holders(u)' \in SUBSET Holders(u)
    BY <1>1 DEF Holders
  <2>2. Cardinality(Holders(u)') <= Cardinality(Holders(u))
    BY <1>5, <2>1, FewerCount
  <2>3. ran'[u] = ran[u] /\ ran[u] \in Nat
    BY <1>1, <1>8
  <2> QED BY <1>2, <1>4, <1>6, <2>2, <2>3
<1> QED BY <1>7, <1>8

LEMMA PaidReplies ==
  ASSUME TypeOK, RunsPaid, NEW p \in Posts, NEW r \in Turn, Become(p, r), NEW calls \in SUBSET (Uses \ Issued),
         r.sent \subseteq turn[p].sent \cup (calls \ Costly), UNCHANGED <<ran, agreed>>, Issued' = Issued \cup calls
  PROVE  RunsPaid'
<1> SUFFICES ASSUME NEW u \in Uses PROVE ran[u] + Cardinality(Holders(u)') <= Allowed(u)'
  BY DEF RunsPaid
<1>1. turn \in [Posts -> Turn] /\ ran \in [Uses -> Nat] /\ turn' = [turn EXCEPT ![p] = r]
  BY DEF TypeOK, Become
<1>2. ran[u] + Cardinality(Holders(u)) <= Allowed(u) /\ ran[u] \in Nat
  BY <1>1 DEF RunsPaid
<1>3. Agreeing(u)' = Agreeing(u)
  BY DEF Agreeing
<1>4. Holders(u) \in SUBSET Posts /\ Holders(u)' \in SUBSET Posts
  BY DEF Holders
<1>5. Cardinality(Holders(u)) \in Nat /\ Cardinality(Holders(u)') \in Nat
  BY <1>4, Counts
<1>6. Cardinality(Agreeing(u)) \in Nat
  <2>1. Agreeing(u) \in SUBSET Posts
    BY DEF Agreeing
  <2> QED BY <2>1, Counts
<1>7. CASE u \in calls /\ u \notin Costly
  <2>1. Allowed(u) = 0 /\ Allowed(u)' = 1
    BY <1>7 DEF Allowed
  <2>2. ran[u] = 0 /\ Cardinality(Holders(u)) = 0
    BY <1>2, <1>5, <2>1
  <2>3. Holders(u) = {}
    BY <1>4, <2>2, NobodyCounts
  <2>4. Holders(u)' \in SUBSET {p}
    BY <1>1, <2>3 DEF Holders
  <2>5. Cardinality({p}) = 1
    BY FS_Singleton
  <2>6. Cardinality(Holders(u)') <= 1
    BY <2>4, <2>5, FewerCount
  <2> QED BY <1>5, <2>1, <2>2, <2>6
<1>8. CASE u \notin calls \/ u \in Costly
  <2>1. Holders(u)' \in SUBSET Holders(u)
    BY <1>1, <1>8 DEF Holders
  <2>2. Cardinality(Holders(u)') <= Cardinality(Holders(u))
    BY <1>4, <2>1, FewerCount
  <2>3. Allowed(u) <= Allowed(u)' /\ Allowed(u) \in Nat /\ Allowed(u)' \in Nat
    BY <1>3, <1>6 DEF Allowed
  <2> QED BY <1>2, <1>5, <2>2, <2>3
<1> QED BY <1>7, <1>8

LEMMA PaidLoads ==
  ASSUME TypeOK, RunsPaid, NEW p \in Posts, NEW r \in Turn, Become(p, r), NEW yes \in SUBSET Costly,
         r.sent \subseteq yes, agreed' = agreed \cup (yes \X {p}), UNCHANGED <<ran, log>>,
         turn[p].sent = {}, \A u \in Uses : <<u, p>> \notin agreed
  PROVE  RunsPaid'
<1> SUFFICES ASSUME NEW u \in Uses PROVE ran[u] + Cardinality(Holders(u)') <= Allowed(u)'
  BY DEF RunsPaid
<1>1. turn \in [Posts -> Turn] /\ ran \in [Uses -> Nat] /\ turn' = [turn EXCEPT ![p] = r]
  BY DEF TypeOK, Become
<1>2. ran[u] + Cardinality(Holders(u)) <= Allowed(u) /\ ran[u] \in Nat
  BY <1>1 DEF RunsPaid
<1>3. Issued' = Issued
  BY DEF Issued
<1>4. /\ Holders(u) \in SUBSET Posts /\ Holders(u)' \in SUBSET Posts /\ p \notin Holders(u)
      /\ Agreeing(u) \in SUBSET Posts /\ p \notin Agreeing(u)
  BY DEF Holders, Agreeing
<1>5. /\ Cardinality(Holders(u)) \in Nat /\ Cardinality(Holders(u)') \in Nat
      /\ Cardinality(Agreeing(u)) \in Nat
  BY <1>4, Counts
<1>6. CASE u \in yes
  <2>1. Holders(u)' \in SUBSET (Holders(u) \cup {p}) /\ Holders(u) \cup {p} \in SUBSET Posts
    BY <1>1, <1>4 DEF Holders
  <2>2. Cardinality(Holders(u)') <= Cardinality(Holders(u) \cup {p})
    BY <2>1, FewerCount
  <2>3. Cardinality(Holders(u) \cup {p}) = Cardinality(Holders(u)) + 1
    BY <1>4, OneMoreCounts
  <2>4. Agreeing(u)' = Agreeing(u) \cup {p}
    BY <1>6 DEF Agreeing
  <2>5. Cardinality(Agreeing(u)') = Cardinality(Agreeing(u)) + 1
    BY <1>4, <2>4, OneMoreCounts
  <2> QED BY <1>2, <1>5, <1>6, <2>2, <2>3, <2>5 DEF Allowed
<1>7. CASE u \notin yes
  <2>1. Holders(u)' \in SUBSET Holders(u) /\ Agreeing(u)' = Agreeing(u)
    BY <1>1, <1>7 DEF Holders, Agreeing
  <2>2. Cardinality(Holders(u)') <= Cardinality(Holders(u))
    BY <1>4, <2>1, FewerCount
  <2>3. Allowed(u)' = Allowed(u) /\ Allowed(u) \in Nat
    BY <1>3, <1>5, <2>1 DEF Allowed
  <2> QED BY <1>2, <1>5, <2>2, <2>3
<1> QED BY <1>6, <1>7

(* The rest of the account, from what is so of the turn that moved.        *)
LEMMA AccountMoves ==
  ASSUME TypeOK, Account, NEW p \in Posts, NEW r \in Turn, Become(p, r), r.pc # "idle",
         agreed' \subseteq agreed \cup (Uses \X {p}), Issued \subseteq Issued', Held(r) \subseteq Issued',
         Owes(pending') \subseteq Issued', pending'.awaiting \subseteq Costly,
         OpensWithText(r), RunsPaid', ResultsFollowCalls'
  PROVE  Account'
<1>1. turn \in [Posts -> Turn] /\ turn' = [turn EXCEPT ![p] = r]
  BY DEF TypeOK, Become
<1>2. turn'[p] = r /\ \A q \in Posts : q # p => turn'[q] = turn[q]
  BY <1>1
<1>3. IdleFresh'
  <2>1. ASSUME NEW q \in Posts, turn'[q].pc = "idle" PROVE turn'[q].sent = {} /\ \A u \in Uses : <<u, q>> \notin agreed'
    BY <1>2, <2>1 DEF Account, IdleFresh
  <2> QED BY <2>1 DEF IdleFresh
<1>4. Mentioned'
  <2>1. \A q \in Posts : Held(turn'[q]) \subseteq Issued'
    BY <1>2 DEF Account, Mentioned
  <2> QED BY <2>1 DEF Mentioned, Held, Ids, Owes
<1>5. Opened'
  <2>1. \A q \in Posts : OpensWithText(turn'[q])
    BY <1>2 DEF Account, Opened
  <2> QED BY <2>1 DEF Opened, OpensWithText
<1> QED BY <1>3, <1>4, <1>5 DEF Account

(* A step that stores nothing and sends nothing.                           *)
LEMMA AccountRests ==
  ASSUME TypeOK, Account, NEW p \in Posts, NEW r \in Turn, Become(p, r), r.pc # "idle",
         r.sent \subseteq turn[p].sent, NEW done \in SUBSET (turn[p].sent \ r.sent),
         ran' = [u \in Uses |-> IF u \in done THEN ran[u] + 1 ELSE ran[u]],
         UNCHANGED <<log, agreed>>, Held(r) \subseteq Issued, OpensWithText(r),
         Owes(pending') \subseteq Issued, pending'.awaiting \subseteq Costly
  PROVE  Account'
<1>1. Issued' = Issued
  BY DEF Issued
<1>2. RunsPaid'
  BY <1>1, PaidShrinks DEF Account
<1>3. ResultsFollowCalls'
  BY DEF Account, ResultsFollowCalls
<1>4. agreed' \subseteq agreed \cup (Uses \X {p})
  OBVIOUS
<1> QED BY <1>1, <1>2, <1>3, <1>4, AccountMoves

(* A step that stores a message, after the text that opens the turn.       *)
LEMMA AccountStores ==
  ASSUME TypeOK, Account, NEW p \in Posts, NEW role \in {"designer", "platform", "assistant"},
         NEW uses \in SUBSET (Uses \ Issued), NEW results \in SUBSET (Uses \X Said), NEW r \in Turn,
         Store(p, role, uses, results, r), UNCHANGED <<pending, ran, agreed>>,
         Ids(results) \subseteq Issued, r.sent \subseteq turn[p].sent \cup (uses \ Costly),
         Held(r) \subseteq Issued \cup uses,
         \/ r.pc \in Over /\ r.stored = <<>>
         \/ /\ r.pc \in {"loop", "remind", "calling", "refuse"}
            /\ r.stored = turn[p].stored /\ (turn[p].stored = <<>> => uses = {})
  PROVE  Account'
<1> DEFINE m == [row |-> rows + 1, role |-> role, uses |-> uses, results |-> results]
           n == IF r.pc \in Over THEN r
                ELSE [r EXCEPT !.hist = Append(@, m), !.stored = Append(@, m)]
<1>1. m \in Message /\ m.uses = uses /\ m.results = results
  BY DEF TypeOK, Message
<1>2. log' = Append(log, m) /\ Become(p, n)
  BY DEF Store
<1>3. log \in Seq(Message) /\ turn \in [Posts -> Turn]
  BY DEF TypeOK
<1>4. Issued' = Issued \cup uses
  BY <1>1, <1>2, <1>3, IssuedAppend
<1>5. ResultsFollowCalls'
  <2>1. Answered(m) \subseteq Issued
    BY <1>1 DEF Answered, Ids
  <2> HIDE DEF m
  <2> QED BY <1>1, <1>2, <1>3, <2>1, OrderAppend DEF Account
<1>6. CASE r.pc \in Over /\ r.stored = <<>>
  <2>1. n = r
    BY <1>6
  <2>2. OpensWithText(r) /\ r.pc # "idle"
    BY <1>6 DEF OpensWithText, Over
  <2>a. Become(p, r)
    BY <1>2, <2>1
  <2> HIDE DEF n, m
  <2>3. RunsPaid'
    BY <1>4, <2>a, PaidReplies DEF Account
  <2>4. Owes(pending') \subseteq Issued' /\ pending'.awaiting \subseteq Costly
    BY <1>4 DEF Account, Mentioned
  <2> QED BY <1>4, <1>5, <2>a, <2>2, <2>3, <2>4, AccountMoves
<1>7. CASE /\ r.pc \in {"loop", "remind", "calling", "refuse"}
           /\ r.stored = turn[p].stored /\ (turn[p].stored = <<>> => uses = {})
  <2>1. r.stored \in Seq(Message) /\ r.hist \in Seq(Message)
    BY DEF Turn
  <2>2. /\ Append(r.stored, m) \in Seq(Message) /\ Append(r.hist, m) \in Seq(Message)
        /\ Append(r.stored, m) # <<>>
        /\ Append(r.stored, m)[1] = IF r.stored = <<>> THEN m ELSE r.stored[1]
    <3> HIDE DEF m
    <3>1. r.stored # <<>> => 1 \in 1..Len(r.stored)
      BY <2>1
    <3> QED BY <1>1, <2>1, <3>1, AppendProperties
  <2>3. n = [r EXCEPT !.hist = Append(@, m), !.stored = Append(@, m)]
    BY <1>7 DEF Over
  <2>4. /\ n \in Turn /\ n.pc = r.pc /\ n.sent = r.sent /\ n.got = r.got /\ n.hold = r.hold
        /\ n.stored = Append(r.stored, m)
    <3> HIDE DEF m
    <3> QED BY <2>2, <2>3 DEF Turn
  <2>5. OpensWithText(turn[p])
    BY DEF Account, Opened
  <2>6. OpensWithText(n)
    <3> HIDE DEF n
    <3>1. n.stored # <<>> /\ n.stored[1].uses = {}
      BY <1>1, <1>7, <2>2, <2>4, <2>5 DEF OpensWithText
    <3> QED BY <1>7, <2>4, <3>1 DEF OpensWithText
  <2>7. Held(n) \subseteq Issued' /\ n.pc # "idle"
    BY <1>4, <1>7, <2>4 DEF Held
  <2> HIDE DEF n
  <2>8. RunsPaid'
    BY <1>2, <1>4, <2>4, PaidReplies DEF Account
  <2>9. Owes(pending') \subseteq Issued' /\ pending'.awaiting \subseteq Costly
    BY <1>4 DEF Account, Mentioned
  <2> QED BY <1>2, <1>4, <1>5, <2>4, <2>6, <2>7, <2>8, <2>9, AccountMoves
<1> QED BY <1>6, <1>7

(* Initially nothing has run, been sent or been stored.                    *)
LEMMA InitAccount == Init => Account
<1> SUFFICES ASSUME Init PROVE Account
  OBVIOUS
<1>1. \A p \in Posts : turn[p] = Blank("idle")
  BY DEF Init
<1>2. log = <<>> /\ Issued = {}
  BY DEF Init, Issued
<1>3. IdleFresh /\ Opened
  BY <1>1 DEF Init, IdleFresh, Opened, OpensWithText, Blank
<1>4. Mentioned
  <2>1. \A p \in Posts : Held(turn[p]) = {}
    BY <1>1 DEF Held, Ids, Blank
  <2>2. Owes(pending) = {} /\ pending.awaiting = {}
    BY DEF Init, NoPending, Owes
  <2> QED BY <2>1, <2>2 DEF Mentioned
<1>5. RunsPaid
  <2>1. ASSUME NEW u \in Uses PROVE ran[u] + Cardinality(Holders(u)) <= Allowed(u)
    <3>1. Holders(u) = {} /\ Agreeing(u) = {}
      BY <1>1 DEF Init, Holders, Agreeing, Blank
    <3>2. Cardinality({}) = 0
      BY FS_EmptySet
    <3>3. ran[u] = 0
      BY DEF Init
    <3> QED BY <1>2, <3>1, <3>2, <3>3 DEF Allowed
  <2> QED BY <2>1 DEF RunsPaid
<1>6. ResultsFollowCalls
  BY <1>2 DEF ResultsFollowCalls
<1> QED BY <1>3, <1>4, <1>5, <1>6 DEF Account

LEMMA LoadAccount == ASSUME TypeOK, Account, NEW p \in Posts, Load(p) PROVE Account'
<1>1. PICK yes \in SUBSET (Issued \cap Costly), filled \in SUBSET pending.forms :
        LET declined == pending.awaiting \ yes
            told == pending.ready
                    \cup {<<u, "answers">> : u \in filled}
                    \cup {<<u, "skipped">> : u \in pending.forms \ filled}
                    \cup {<<u, "declined">> : u \in declined} IN
        /\ Become(p, [Blank(IF pending = NoPending THEN "greet" ELSE "settling")
                        EXCEPT !.hist = log, !.sent = pending.awaiting \cap yes,
                               !.got = told])
        /\ agreed' = agreed \cup (yes \X {p})
  BY DEF Load
<1>2. turn[p].pc = "idle" /\ UNCHANGED <<log, rows, pending, ran, faults>>
  BY DEF Load
<1>3. /\ pending.ready \subseteq Uses \X Said /\ pending.awaiting \subseteq Uses /\ pending.forms \subseteq Uses
      /\ log \in Seq(Message) /\ turn \in [Posts -> Turn]
  BY DEF TypeOK, PendingCalls
<1> DEFINE told == pending.ready
                   \cup {<<u, "answers">> : u \in filled}
                   \cup {<<u, "skipped">> : u \in pending.forms \ filled}
                   \cup {<<u, "declined">> : u \in pending.awaiting \ yes}
           pc == IF pending = NoPending THEN "greet" ELSE "settling"
           sent == pending.awaiting \cap yes
           r == [Blank(pc) EXCEPT !.hist = log, !.sent = sent, !.got = told]
<1>4. Become(p, r)
  BY <1>1
<1>5. told \subseteq Uses \X Said
  BY <1>3 DEF Said
<1>6. Ids(told) \subseteq Owes(pending)
  <2>1. ASSUME NEW x \in told PROVE x[1] \in Owes(pending)
    BY DEF Owes
  <2> HIDE DEF told
  <2> QED BY <2>1 DEF Ids
<1>7. pc \in {"greet", "settling"} /\ sent \subseteq yes /\ sent \subseteq Owes(pending) /\ sent \subseteq Uses
  BY <1>3 DEF Owes
<1>8. Blank(pc) \in Turn
  <2> HIDE DEF pc
  <2> QED BY <1>7, BlankIsTurn DEF Running
<1>9. /\ r \in Turn /\ r.sent = sent /\ r.got = told /\ r.hold = {} /\ r.pc = pc /\ r.stored = <<>>
  <2> HIDE DEF told, pc, sent
  <2> QED BY <1>3, <1>5, <1>7, <1>8 DEF Turn, Blank
<1> HIDE DEF told, pc, sent, r
<1>10. Issued' = Issued
  BY <1>2 DEF Issued
<1>11. turn[p].sent = {} /\ \A u \in Uses : <<u, p>> \notin agreed
  BY <1>2 DEF Account, IdleFresh
<1>12. RunsPaid'
  <2>1. yes \in SUBSET Costly /\ agreed' = agreed \cup (yes \X {p})
    BY <1>1
  <2> QED BY <1>2, <1>4, <1>7, <1>9, <1>11, <2>1, PaidLoads DEF Account
<1>13. ResultsFollowCalls'
  BY <1>2 DEF Account, ResultsFollowCalls
<1>14. Held(r) \subseteq Issued' /\ Owes(pending') \subseteq Issued' /\ pending'.awaiting \subseteq Costly
  BY <1>2, <1>6, <1>7, <1>9, <1>10 DEF Account, Mentioned, Held
<1>15. OpensWithText(r) /\ r.pc # "idle"
  BY <1>7, <1>9 DEF OpensWithText
<1>16. agreed' \subseteq agreed \cup (Uses \X {p})
  BY <1>1, ConversationAssumption
<1> QED BY <1>4, <1>9, <1>10, <1>12, <1>13, <1>14, <1>15, <1>16, AccountMoves

LEMMA ReplyAccount == ASSUME TypeOK, Account, NEW p \in Posts, Reply(p) PROVE Account'
<1>1. PICK calls \in SUBSET (Uses \ Issued), idle \in BOOLEAN,
           stop \in {"tool_use", "end_turn", "refusal", "max_tokens"} :
        Store(p, "assistant", calls, {}, AfterReply(turn[p], calls, stop, idle))
  BY DEF Reply
<1>2. turn[p].pc = "loop" /\ UNCHANGED <<pending, ran, agreed>>
  BY DEF Reply
<1> DEFINE r == AfterReply(turn[p], calls, stop, idle)
<1>3. turn[p] \in Turn /\ calls \in SUBSET Uses
  BY DEF TypeOK
<1>4. Held(turn[p]) \subseteq Issued /\ turn[p].stored # <<>>
  BY <1>2 DEF Account, Mentioned, Opened, OpensWithText
<1>5. Follows(turn[p], calls, r)
  BY <1>3, AfterReplyFollows
<1>6. Store(p, "assistant", calls, {}, r)
  BY <1>1
<1> HIDE DEF r
<1>7. /\ r \in Turn /\ r.sent \subseteq turn[p].sent \cup (calls \ Costly) /\ Held(r) \subseteq Issued \cup calls
      /\ \/ r.pc \in Over /\ r.stored = <<>>
         \/ r.pc \in {"remind", "calling", "refuse"} /\ r.stored = turn[p].stored
  BY <1>4, <1>5 DEF Follows
<1>8. Ids({}) \subseteq Issued /\ {} \in SUBSET (Uses \X Said)
  BY DEF Ids
<1>9. \/ r.pc \in Over /\ r.stored = <<>>
      \/ /\ r.pc \in {"loop", "remind", "calling", "refuse"}
         /\ r.stored = turn[p].stored /\ (turn[p].stored = <<>> => calls = {})
  BY <1>4, <1>7
<1> QED BY <1>2, <1>6, <1>7, <1>8, <1>9, AccountStores

(* The other steps that store a message: what owes an answer is answered   *)
(* by ids that are in the history, and nothing is sent.                    *)
LEMMA AnswerAccount ==
  ASSUME TypeOK, Account, NEW p \in Posts, NEW role \in {"designer", "platform"},
         NEW results \in SUBSET turn[p].got, NEW r \in Turn, Store(p, role, {}, results, r),
         UNCHANGED <<pending, ran, agreed>>, r.sent \subseteq turn[p].sent, Held(r) \subseteq Held(turn[p]),
         \/ r.pc \in Over /\ r.stored = <<>>
         \/ r.pc = "loop" /\ r.stored = turn[p].stored
  PROVE  Account'
<1>1. turn[p] \in Turn /\ Held(turn[p]) \subseteq Issued
  BY DEF TypeOK, Account, Mentioned
<1>2. results \in SUBSET (Uses \X Said) /\ Ids(results) \subseteq Issued
  BY <1>1 DEF Turn, Held, Ids
<1>3. {} \in SUBSET (Uses \ Issued) /\ Held(r) \subseteq Issued \cup {} /\ r.sent \subseteq turn[p].sent \cup ({} \ Costly)
  BY <1>1
<1>4. \/ r.pc \in Over /\ r.stored = <<>>
      \/ /\ r.pc \in {"loop", "remind", "calling", "refuse"}
         /\ r.stored = turn[p].stored /\ (turn[p].stored = <<>> => {} = {})
  OBVIOUS
<1> QED BY <1>2, <1>3, <1>4, AccountStores

LEMMA AnswersAccount ==
  ASSUME TypeOK, Account, NEW p \in Posts, Greet(p) \/ Remind(p) \/ Refuse(p) \/ GiveResults(p)
  PROVE  Account'
<1>1. turn[p] \in Turn
  BY DEF TypeOK
<1>2. CASE Greet(p) \/ GiveResults(p)
  <2> DEFINE r == [turn[p] EXCEPT !.pc = "loop", !.got = {}]
  <2>1. /\ r \in Turn /\ r.sent = turn[p].sent /\ r.got = {} /\ r.hold = turn[p].hold
        /\ r.pc = "loop" /\ r.stored = turn[p].stored
    BY <1>1 DEF Turn, Running
  <2>2. \E role \in {"designer", "platform"} : Store(p, role, {}, turn[p].got, r)
    BY <1>2 DEF Greet, GiveResults
  <2>3. UNCHANGED <<pending, ran, agreed>>
    BY <1>2 DEF Greet, GiveResults
  <2> HIDE DEF r
  <2>4. Held(r) \subseteq Held(turn[p])
    BY <2>1 DEF Held, Ids
  <2> QED BY <2>1, <2>2, <2>3, <2>4, AnswerAccount
<1>3. CASE Remind(p)
  <2> DEFINE r == [turn[p] EXCEPT !.pc = "loop", !.reminded = TRUE]
  <2>1. /\ r \in Turn /\ r.sent = turn[p].sent /\ r.got = turn[p].got /\ r.hold = turn[p].hold
        /\ r.pc = "loop" /\ r.stored = turn[p].stored
    BY <1>1 DEF Turn, Running
  <2>2. Store(p, "platform", {}, {}, r) /\ UNCHANGED <<pending, ran, agreed>>
    BY <1>3 DEF Remind
  <2> HIDE DEF r
  <2>3. Held(r) \subseteq Held(turn[p]) /\ {} \in SUBSET turn[p].got
    BY <2>1 DEF Held
  <2> QED BY <2>1, <2>2, <2>3, AnswerAccount
<1>4. CASE Refuse(p)
  <2>1. /\ Blank("limit") \in Turn /\ Blank("limit").sent = {} /\ Blank("limit").got = {}
        /\ Blank("limit").hold = {} /\ Blank("limit").pc \in Over /\ Blank("limit").stored = <<>>
    BY BlankIsTurn DEF Blank, Over
  <2>2. Store(p, "platform", {}, turn[p].got, Blank("limit")) /\ UNCHANGED <<pending, ran, agreed>>
    BY <1>4 DEF Refuse
  <2>3. Held(Blank("limit")) \subseteq Held(turn[p])
    BY <2>1 DEF Held, Ids
  <2> QED BY <2>1, <2>2, <2>3, AnswerAccount
<1> QED BY <1>2, <1>3, <1>4

(* The steps that store nothing.  First those that execute nothing: the    *)
(* turn drops what it holds, or keeps it.                                  *)
LEMMA QuietAccount ==
  ASSUME TypeOK, Account, NEW p \in Posts, NEW r \in Turn, Become(p, r), r.pc # "idle",
         r.sent \subseteq turn[p].sent, Held(r) \subseteq Held(turn[p]), OpensWithText(r),
         UNCHANGED <<log, ran, agreed>>, Owes(pending') \subseteq Issued, pending'.awaiting \subseteq Costly
  PROVE  Account'
<1>1. ran' = [u \in Uses |-> IF u \in {} THEN ran[u] + 1 ELSE ran[u]]
  BY DEF TypeOK
<1>2. {} \in SUBSET (turn[p].sent \ r.sent) /\ Held(r) \subseteq Issued
  BY DEF Account, Mentioned
<1> QED BY <1>1, <1>2, AccountRests

LEMMA BlankHolds ==
  ASSUME NEW pc \in Over
  PROVE  /\ Blank(pc) \in Turn /\ Blank(pc).sent = {} /\ Held(Blank(pc)) = {}
         /\ Blank(pc).pc # "idle" /\ OpensWithText(Blank(pc))
<1>1. Blank(pc) \in Turn /\ Blank(pc).sent = {} /\ Blank(pc).pc = pc
  BY BlankIsTurn
<1>2. Blank(pc).got = {} /\ Blank(pc).hold = {} /\ Blank(pc).stored = <<>>
  BY DEF Blank
<1>3. Held(Blank(pc)) = {}
  BY <1>1, <1>2 DEF Held, Ids
<1>4. pc \notin {"idle", "settling", "greet", "loop", "remind", "calling", "refuse"}
  BY DEF Over
<1> QED BY <1>1, <1>2, <1>3, <1>4 DEF OpensWithText

LEMMA ClearAccount == ASSUME TypeOK, Account, NEW p \in Posts, ClearPending(p) PROVE Account'
<1> DEFINE r == [turn[p] EXCEPT !.pc = "greet"]
<1>1. turn[p] \in Turn /\ OpensWithText(turn[p]) /\ turn[p].pc = "settling"
  BY DEF TypeOK, Account, Opened, ClearPending
<1>2. /\ r \in Turn /\ r.sent = turn[p].sent /\ r.got = turn[p].got /\ r.hold = turn[p].hold
      /\ r.pc = "greet" /\ r.stored = turn[p].stored
  BY <1>1 DEF Turn, Running
<1>3. Become(p, r) /\ UNCHANGED <<log, ran, agreed>> /\ pending' = NoPending
  BY DEF ClearPending
<1> HIDE DEF r
<1>4. Held(r) \subseteq Held(turn[p]) /\ OpensWithText(r)
  BY <1>1, <1>2 DEF Held, OpensWithText
<1>5. Owes(pending') \subseteq Issued /\ pending'.awaiting \subseteq Costly
  BY <1>3 DEF NoPending, Owes
<1> QED BY <1>2, <1>3, <1>4, <1>5, QuietAccount

LEMMA FailsAccount == ASSUME TypeOK, Account, NEW p \in Posts, ProviderFails(p) PROVE Account'
<1> DEFINE r == [turn[p] EXCEPT !.pc = "failed"]
<1>1. turn[p] \in Turn /\ OpensWithText(turn[p])
  BY DEF TypeOK, Account, Opened
<1>2. /\ r \in Turn /\ r.sent = turn[p].sent /\ r.got = turn[p].got /\ r.hold = turn[p].hold
      /\ r.pc = "failed" /\ r.stored = turn[p].stored
  BY <1>1 DEF Turn, Running
<1>3. Become(p, r) /\ UNCHANGED <<log, ran, agreed>> /\ UNCHANGED pending
  BY DEF ProviderFails
<1> HIDE DEF r
<1>4. Held(r) \subseteq Held(turn[p]) /\ OpensWithText(r)
  BY <1>1, <1>2 DEF Held, OpensWithText
<1>5. Owes(pending') \subseteq Issued /\ pending'.awaiting \subseteq Costly
  BY <1>3 DEF Account, Mentioned
<1> QED BY <1>2, <1>3, <1>4, <1>5, QuietAccount

LEMMA LimitAccount == ASSUME TypeOK, Account, NEW p \in Posts, LimitReached(p) PROVE Account'
<1>1. Become(p, Blank("limit")) /\ UNCHANGED <<log, ran, agreed>> /\ UNCHANGED pending
  BY DEF LimitReached
<1>2. Owes(pending') \subseteq Issued /\ pending'.awaiting \subseteq Costly
  BY <1>1 DEF Account, Mentioned
<1>3. "limit" \in Over
  BY DEF Over
<1> QED BY <1>1, <1>2, <1>3, BlankHolds, QuietAccount

(* Pausing makes pending what the turn held.                               *)
LEMMA PauseAccount == ASSUME TypeOK, Account, NEW p \in Posts, Pause(p) PROVE Account'
<1>1. Become(p, Blank("waiting")) /\ UNCHANGED <<log, ran, agreed>>
  BY DEF Pause
<1>2. Held(turn[p]) \subseteq Issued
  BY DEF Account, Mentioned
<1>3. Owes(pending') \subseteq Issued /\ pending'.awaiting \subseteq Costly
  <2>1. /\ pending'.ready = turn[p].got /\ pending'.awaiting = turn[p].hold \cap Costly
        /\ pending'.forms = turn[p].hold \cap Forms
    BY DEF Pause
  <2> QED BY <1>2, <2>1 DEF Owes, Held, Ids
<1>4. "waiting" \in Over
  BY DEF Over
<1> QED BY <1>1, <1>3, <1>4, BlankHolds, QuietAccount

(* Those that execute calls.                                               *)
LEMMA ReturnAccount ==
  ASSUME TypeOK, Account, NEW p \in Posts, NEW u \in Uses, CallReturns(p, u) PROVE Account'
<1>1. PICK ok \in BOOLEAN :
        Become(p, [turn[p] EXCEPT !.sent = @ \ {u}, !.got = @ \cup {<<u, "ran">>},
                     !.failed = IF ok \/ turn[p].pc = "settling" THEN @ ELSE @ \cup {Args[u]}])
  BY DEF CallReturns
<1> DEFINE failed == IF ok \/ turn[p].pc = "settling" THEN turn[p].failed
                     ELSE turn[p].failed \cup {Args[u]}
           got == turn[p].got \cup {<<u, "ran">>}
           sent == turn[p].sent \ {u}
           r == [turn[p] EXCEPT !.sent = sent, !.got = got, !.failed = failed]
<1>2. /\ turn[p] \in Turn /\ OpensWithText(turn[p]) /\ Held(turn[p]) \subseteq Issued
      /\ turn[p].pc \in {"settling", "calling"} /\ u \in turn[p].sent
  BY DEF TypeOK, Account, Opened, Mentioned, CallReturns
<1>3. Become(p, r)
  BY <1>1
<1>4. failed \subseteq {Args[w] : w \in Uses} /\ got \subseteq Uses \X Said /\ sent \subseteq Uses
  <2>1. turn[p].failed \subseteq {Args[w] : w \in Uses} /\ Args[u] \in {Args[w] : w \in Uses}
    BY <1>2 DEF Turn
  <2>2. turn[p].got \subseteq Uses \X Said /\ turn[p].sent \subseteq Uses /\ "ran" \in Said
    BY <1>2 DEF Turn, Said
  <2> QED BY <2>1, <2>2
<1>5. sent \subseteq turn[p].sent /\ {u} \in SUBSET (turn[p].sent \ sent)
  BY <1>2
<1>6. Ids(got) \subseteq Held(turn[p])
  BY <1>2 DEF Ids, Held
<1> HIDE DEF failed, got, sent
<1>7. /\ r \in Turn /\ r.sent = sent /\ r.got = got /\ r.hold = turn[p].hold /\ r.pc = turn[p].pc
      /\ r.stored = turn[p].stored
  BY <1>2, <1>4 DEF Turn
<1> HIDE DEF r
<1>8. Held(r) \subseteq Issued /\ OpensWithText(r) /\ r.pc # "idle"
  BY <1>2, <1>5, <1>6, <1>7 DEF Held, OpensWithText
<1>9. ran' = [w \in Uses |-> IF w \in {u} THEN ran[w] + 1 ELSE ran[w]]
  BY DEF TypeOK, CallReturns
<1>10. UNCHANGED <<log, agreed>> /\ Owes(pending') \subseteq Issued /\ pending'.awaiting \subseteq Costly
  BY DEF CallReturns, Account, Mentioned
<1> QED BY <1>3, <1>5, <1>7, <1>8, <1>9, <1>10, AccountRests

LEMMA CutAccount ==
  ASSUME TypeOK, Account, NEW p \in Posts, BridgeFails(p) \/ Lost(p) PROVE Account'
<1>1. PICK done \in SUBSET turn[p].sent :
        ran' = [u \in Uses |-> IF u \in done THEN ran[u] + 1 ELSE ran[u]]
  BY DEF BridgeFails, Lost
<1>2. UNCHANGED <<log, agreed>> /\ Owes(pending') \subseteq Issued /\ pending'.awaiting \subseteq Costly
  BY DEF BridgeFails, Lost, Account, Mentioned
<1>3. turn[p] \in Turn /\ OpensWithText(turn[p]) /\ Held(turn[p]) \subseteq Issued
  BY DEF TypeOK, Account, Opened, Mentioned
<1>4. CASE BridgeFails(p)
  <2> DEFINE r == [turn[p] EXCEPT !.pc = "failed", !.sent = {}]
  <2>1. /\ r \in Turn /\ r.sent = {} /\ r.got = turn[p].got /\ r.hold = turn[p].hold /\ r.pc = "failed"
        /\ r.stored = turn[p].stored
    BY <1>3 DEF Turn, Running
  <2>2. Become(p, r)
    BY <1>4 DEF BridgeFails
  <2> HIDE DEF r
  <2>3. Held(r) \subseteq Issued /\ OpensWithText(r)
    BY <1>3, <2>1 DEF Held, OpensWithText
  <2> QED BY <1>1, <1>2, <2>1, <2>2, <2>3, AccountRests
<1>5. CASE Lost(p)
  <2>1. Become(p, Blank("lost")) /\ "lost" \in Over
    BY <1>5 DEF Lost, Over
  <2>2. /\ Blank("lost") \in Turn /\ Blank("lost").sent = {} /\ Held(Blank("lost")) = {}
        /\ Blank("lost").pc # "idle" /\ OpensWithText(Blank("lost"))
    BY <2>1, BlankHolds
  <2>3. Held(Blank("lost")) \subseteq Issued /\ done \in SUBSET (turn[p].sent \ Blank("lost").sent)
    BY <2>2
  <2> QED BY <1>1, <1>2, <2>1, <2>2, <2>3, AccountRests
<1> QED BY <1>4, <1>5

(* Taking the text back: what the turn stored first made no call.          *)
LEMMA DiscardAccount == ASSUME TypeOK, Account, NEW p \in Posts, Discard(p) PROVE Account'
<1>1. Become(p, Blank("error")) /\ UNCHANGED <<pending, ran, agreed>> /\ "error" \in Over
  BY DEF Discard, Over
<1>2. /\ Blank("error") \in Turn /\ Blank("error").sent = {} /\ Held(Blank("error")) = {}
      /\ Blank("error").pc # "idle" /\ OpensWithText(Blank("error"))
  BY <1>1, BlankHolds
<1>3. Issued' = Issued /\ ResultsFollowCalls'
  <2>1. CASE UNCHANGED log
    BY <2>1 DEF Account, ResultsFollowCalls, Issued
  <2>2. CASE /\ Len(turn[p].stored) = 1
             /\ \E i \in 1..Len(log) : log[i] = turn[p].stored[1] /\ log' = RemoveAt(log, i)
    <3>1. PICK i \in 1..Len(log) : log[i] = turn[p].stored[1] /\ log' = RemoveAt(log, i)
      BY <2>2
    <3>2. turn[p].stored # <<>>
      BY <2>2
    <3>3. log[i].uses = {}
      BY <3>1, <3>2 DEF Account, Opened, OpensWithText
    <3>4. log \in Seq(Message) /\ ResultsFollowCalls
      BY DEF TypeOK, Account
    <3> QED BY <3>1, <3>3, <3>4, Removed
  <2> QED BY <2>1, <2>2 DEF Discard
<1>4. RunsPaid'
  <2>1. ran' = [u \in Uses |-> IF u \in {} THEN ran[u] + 1 ELSE ran[u]]
    BY <1>1 DEF TypeOK
  <2> QED BY <1>1, <1>2, <1>3, <2>1, PaidShrinks DEF Account
<1>5. Owes(pending') \subseteq Issued' /\ pending'.awaiting \subseteq Costly
  BY <1>1, <1>3 DEF Account, Mentioned
<1>6. agreed' \subseteq agreed \cup (Uses \X {p}) /\ Held(Blank("error")) \subseteq Issued'
  BY <1>1, <1>2
<1> QED BY <1>1, <1>2, <1>3, <1>4, <1>5, <1>6, AccountMoves

LEMMA StutterAccount == ASSUME Account, UNCHANGED vars PROVE Account'
<1>1. UNCHANGED <<log, pending, turn, ran, agreed>>
  BY DEF vars
<1>2. RunsPaid'
  BY <1>1 DEF Account, RunsPaid, Holders, Agreeing, Allowed, Issued
<1>3. IdleFresh' /\ ResultsFollowCalls'
  BY <1>1 DEF Account, IdleFresh, ResultsFollowCalls
<1>4. Mentioned' /\ Opened'
  BY <1>1, ZenonT(40) DEF Account, Mentioned, Opened, OpensWithText, Held, Ids, Owes, Issued
<1> QED BY <1>2, <1>3, <1>4 DEF Account

LEMMA NextAccount == TypeOK /\ Account /\ [Next]_vars => Account'
<1> SUFFICES ASSUME TypeOK, Account, [Next]_vars PROVE Account'
  OBVIOUS
<1>1. CASE UNCHANGED vars
  BY <1>1, StutterAccount
<1>2. ASSUME NEW p \in Posts, Load(p) PROVE Account'
  BY <1>2, LoadAccount
<1>3. ASSUME NEW p \in Posts, Lost(p) PROVE Account'
  BY <1>3, CutAccount
<1>4. ASSUME NEW p \in Posts, LimitReached(p) PROVE Account'
  BY <1>4, LimitAccount
<1>5. ASSUME NEW p \in Posts, Advance(p) PROVE Account'
  <2>1. CASE \E u \in Uses : CallReturns(p, u)
    BY <2>1, ReturnAccount
  <2>2. CASE Greet(p) \/ Remind(p) \/ Refuse(p) \/ GiveResults(p)
    BY <2>2, AnswersAccount
  <2>3. CASE ClearPending(p)
    BY <2>3, ClearAccount
  <2>4. CASE ProviderFails(p)
    BY <2>4, FailsAccount
  <2>5. CASE Reply(p)
    BY <2>5, ReplyAccount
  <2>6. CASE Pause(p)
    BY <2>6, PauseAccount
  <2>7. CASE BridgeFails(p)
    BY <2>7, CutAccount
  <2>8. CASE Discard(p)
    BY <2>8, DiscardAccount
  <2> QED BY <1>5, <2>1, <2>2, <2>3, <2>4, <2>5, <2>6, <2>7, <2>8 DEF Advance
<1> QED BY <1>1, <1>2, <1>3, <1>4, <1>5 DEF Next, Step

(* What is paid for is what the property allows.                           *)
LEMMA AccountBounds == ASSUME TypeOK, Account PROVE RunsInOrder
<1> SUFFICES ASSUME NEW u \in Uses
             PROVE  ran[u] <= IF u \in Costly THEN Cardinality(Agreeing(u)) ELSE 1
  BY DEF RunsInOrder, RunsBounded, Account, Agreeing
<1>1. ran[u] + Cardinality(Holders(u)) <= Allowed(u) /\ ran[u] \in Nat
  BY DEF Account, RunsPaid, TypeOK
<1>2. Holders(u) \in SUBSET Posts /\ Agreeing(u) \in SUBSET Posts
  BY DEF Holders, Agreeing
<1>3. Cardinality(Holders(u)) \in Nat /\ Cardinality(Agreeing(u)) \in Nat
  BY <1>2, Counts
<1>4. Allowed(u) <= IF u \in Costly THEN Cardinality(Agreeing(u)) ELSE 1
  BY <1>3 DEF Allowed
<1>5. Allowed(u) \in Nat
  BY <1>3 DEF Allowed
<1> QED BY <1>1, <1>3, <1>4, <1>5

(* However turns overlap, connections drop and processes stop: a call that *)
(* needs no confirmation is executed at most once, a costly one at most    *)
(* once for each POST that confirmed it, and no result is stored before    *)
(* the message that made the call (loop.py _step, _settle_pending,         *)
(* _load_turn, _discard_unanswered).                                       *)
THEOREM NothingRunsTwice == Spec => []RunsInOrder
<1>1. Init => Inv /\ Account
  BY InitInv, InitAccount
<1>2. Inv /\ Account /\ [Next]_vars => (Inv /\ Account)'
  BY NextInv, NextAccount DEF Inv
<1>3. Inv /\ Account => RunsInOrder
  BY AccountBounds DEF Inv
<1> QED BY <1>1, <1>2, <1>3, PTL DEF Spec
-----------------------------------------------------------------------------
(***************************************************************************)
(* Quiet turns: POSTs that wait for one another and are not cut short      *)
(* (the model request may still fail and the limits be reached).  Then the *)
(* stored history is one a later turn can go on from.  The invariant ties  *)
(* what the one running turn holds, and between turns what is pending, to  *)
(* the calls of the LAST stored message: they are the same calls, each     *)
(* with its fate known and none of them run twice.                         *)
(***************************************************************************)
Quiet == ~Overlapping /\ FaultKinds \subseteq {"provider", "limit"}

Active(p) == turn[p].pc \in Running
Alone     == \A p, q \in Posts : Active(p) /\ Active(q) => p = q

TailUses == IF log = <<>> THEN {} ELSE log[Len(log)].uses

(* Every message answers the calls of the one before it and no others.     *)
Chain    == \A i \in 1..Len(log) : Answered(log[i]) = IF i = 1 THEN {} ELSE log[i - 1].uses
Distinct == \A i, k \in 1..Len(log) : i # k => log[i].uses \cap log[k].uses = {}
RowsGrow == /\ \A i \in 1..Len(log) : log[i].row <= rows
            /\ \A i, k \in 1..Len(log) : log[i].row = log[k].row => i = k

Truthful(S) == \A r \in S : ran[r[1]] = IF r[2] = "ran" THEN 1 ELSE 0
Unrun(U)    == \A u \in U : ran[u] = 0

History == /\ Chain /\ Distinct /\ RowsGrow
           /\ TheModelIsToldTheTruth
           /\ Unrun(Uses \ Issued)

(* What is pending between turns.                                          *)
Rest == /\ Owes(pending) = TailUses
        /\ Truthful(pending.ready) /\ Unrun(pending.awaiting \cup pending.forms)
        /\ Ids(pending.ready) \cap (pending.awaiting \cup pending.forms) = {}
        /\ pending.awaiting \cap pending.forms = {}

(* What a running turn holds: the history, the calls of its last message,  *)
(* and their fates.                                                        *)
Fates(t) == /\ Truthful(t.got) /\ Unrun(t.sent \cup t.hold)
            /\ Ids(t.got) \cap (t.sent \cup t.hold) = {} /\ t.sent \cap t.hold = {}
            /\ t.hold \subseteq Costly \cup Forms
            /\ t.pc # "settling" => pending = NoPending
            /\ t.pc \notin {"settling", "calling"} => t.sent = {}
            /\ t.pc # "calling" => t.hold = {}
            /\ t.pc \in {"loop", "remind", "failed"} => t.got = {}
Work(t)  == t.hist = log /\ Held(t) = TailUses /\ Fates(t)

(* What a running turn has stored: its text first, and then only messages  *)
(* that are not the designer's.                                            *)
Own(t) == LET n == Len(t.stored) IN
          /\ n = 0 <=> t.pc \in {"settling", "greet"}
          /\ t.pc \in {"remind", "calling", "refuse"} => n >= 2
          /\ n > 0 => log # <<>> /\ t.stored[n] = log[Len(log)]
          /\ \A k \in 1..n : t.stored[k].role = "designer" <=> k = 1

(* Requests made: each but the last made a call or was the reminder's.     *)
Replies(s) == {i \in 1..Len(s) : s[i].role = "assistant"}
Asked(t) == LET n == Cardinality(Replies(t.stored)) IN
            /\ t.pc \notin Running => t.stored = <<>>
            /\ t.pc \in Running \ {"refuse"} =>
                 /\ t.tools <= MaxToolCalls
                 /\ n <= t.tools + IF t.reminded \/ t.pc = "remind" THEN 1 ELSE 0
            /\ t.pc = "refuse" => n <= MaxToolCalls + 2

(* A text that got no answer, at the end of the history.  A turn that ran  *)
(* into a limit excuses it, and stays so.                                  *)
Excuse   == \E p \in Posts : turn[p].pc = "limit"
Early    == \A p \in Posts : Active(p) => turn[p].pc \in {"settling", "greet"}
TailGone == log # <<>> /\ log[Len(log)].role = "designer" =>
              log[Len(log)].results # {} \/ Excuse
Clean    == FailedTextIsGone /\ (Early => TailGone)

Calm == /\ Alone /\ History /\ Clean
        /\ (\A p \in Posts : ~Active(p)) => Rest
        /\ \A p \in Posts : Asked(turn[p]) /\ (Active(p) => Work(turn[p]) /\ Own(turn[p]))

(* What a step does to the history: it stores a message, ...               *)
LEMMA HistoryAppends ==
  ASSUME TypeOK, History, NEW m \in Message, m.row = rows + 1, log' = Append(log, m),
         rows' = rows + 1, UNCHANGED ran, Answered(m) = TailUses, m.uses \cap Issued = {},
         Truthful(m.results)
  PROVE  History' /\ TailUses' = m.uses
<1>1. /\ Len(log) \in Nat /\ Len(log') = Len(log) + 1 /\ log'[Len(log) + 1] = m
      /\ \A i \in 1..Len(log) : log'[i] = log[i]
      /\ log \in Seq(Message) /\ rows \in Nat
  BY AppendProperties DEF TypeOK
<1>2. Chain'
  <2> SUFFICES ASSUME NEW i \in 1..Len(log')
               PROVE  Answered(log'[i]) = IF i = 1 THEN {} ELSE log'[i - 1].uses
    BY DEF Chain, Answered
  <2>1. CASE i \in 1..Len(log)
    <3>1. Answered(log[i]) = IF i = 1 THEN {} ELSE log[i - 1].uses
      BY <2>1 DEF History, Chain
    <3> QED BY <1>1, <2>1, <3>1
  <2>2. CASE i = Len(log) + 1 /\ i = 1
    <3>1. log = <<>> /\ log'[i] = m
      BY <1>1, <2>2
    <3> QED BY <2>2, <3>1 DEF TailUses
  <2>3. CASE i = Len(log) + 1 /\ i # 1
    <3>1. log # <<>> /\ log'[i] = m /\ log'[i - 1] = log[Len(log)]
      BY <1>1, <2>3
    <3> QED BY <2>3, <3>1 DEF TailUses
  <2> QED BY <1>1, <2>1, <2>2, <2>3
<1>3. Distinct'
  <2>1. \A k \in 1..Len(log) : log[k].uses \cap m.uses = {}
    BY DEF Issued
  <2> SUFFICES ASSUME NEW i \in 1..Len(log'), NEW k \in 1..Len(log'), i # k
               PROVE  log'[i].uses \cap log'[k].uses = {}
    BY DEF Distinct
  <2>2. CASE i \in 1..Len(log) /\ k \in 1..Len(log)
    BY <1>1, <2>2 DEF History, Distinct
  <2>3. CASE i = Len(log) + 1 /\ k \in 1..Len(log)
    BY <1>1, <2>1, <2>3
  <2>4. CASE i \in 1..Len(log) /\ k = Len(log) + 1
    BY <1>1, <2>1, <2>4
  <2> QED BY <1>1, <2>2, <2>3, <2>4
<1>4. RowsGrow'
  <2>0. \A i \in 1..Len(log) : log[i] \in Message
    BY <1>1
  <2>1. \A i \in 1..Len(log) : log[i].row <= rows /\ log[i].row \in Nat
    BY <2>0 DEF History, RowsGrow, Message
  <2>2. \A i \in 1..Len(log') : log'[i].row <= rows + 1
    BY <1>1, <2>1
  <2>3. ASSUME NEW i \in 1..Len(log'), NEW k \in 1..Len(log'), log'[i].row = log'[k].row
        PROVE  i = k
    <3>1. CASE i \in 1..Len(log) /\ k \in 1..Len(log)
      BY <1>1, <2>3, <3>1 DEF History, RowsGrow
    <3>2. CASE i = Len(log) + 1 \/ k = Len(log) + 1
      BY <1>1, <2>1, <2>3, <3>2
    <3> QED BY <1>1, <3>1, <3>2
  <2> QED BY <2>2, <2>3 DEF RowsGrow
<1>5. TheModelIsToldTheTruth'
  <2>1. \A i \in 1..Len(log) : \A r \in log[i].results : ran[r[1]] = IF r[2] = "ran" THEN 1 ELSE 0
    BY DEF History, TheModelIsToldTheTruth
  <2>2. \A i \in 1..Len(log') : \A r \in log'[i].results : ran[r[1]] = IF r[2] = "ran" THEN 1 ELSE 0
    BY <1>1, <2>1 DEF Truthful
  <2> QED BY <2>2 DEF TheModelIsToldTheTruth
<1>6. Unrun(Uses \ Issued)'
  BY <1>1, IssuedAppend DEF History, Unrun
<1>7. TailUses' = m.uses
  BY <1>1 DEF TailUses
<1> QED BY <1>2, <1>3, <1>4, <1>5, <1>6, <1>7 DEF History

(* ... leaves it as it is, ...                                             *)
LEMMA HistoryStays ==
  ASSUME History, UNCHANGED <<log, rows, ran>> PROVE History' /\ TailUses' = TailUses
<1>1. Chain' /\ TailUses' = TailUses
  BY DEF History, Chain, Answered, TailUses
<1>2. Distinct' /\ RowsGrow'
  BY DEF History, Distinct, RowsGrow
<1>3. TheModelIsToldTheTruth' /\ Unrun(Uses \ Issued)'
  BY DEF History, TheModelIsToldTheTruth, Unrun, Issued
<1> QED BY <1>1, <1>2, <1>3 DEF History

(* ... runs one of the calls of the last message, ...                      *)
LEMMA HistoryRuns ==
  ASSUME TypeOK, History, NEW u \in TailUses, UNCHANGED <<log, rows>>, ran' = [ran EXCEPT ![u] = @ + 1]
  PROVE  History' /\ TailUses' = TailUses
<1>1. log # <<>> /\ Len(log) \in Nat /\ Len(log) > 0 /\ u \in log[Len(log)].uses
  BY DEF TailUses, TypeOK
<1>2. ASSUME NEW i \in 1..Len(log) PROVE u \notin Answered(log[i])
  <2>1. CASE i = 1
    BY <2>1 DEF History, Chain
  <2>2. CASE i # 1
    <3>1. Answered(log[i]) = log[i - 1].uses /\ i - 1 \in 1..Len(log) /\ i - 1 # Len(log)
      BY <1>1, <2>2 DEF History, Chain
    <3>2. log[i - 1].uses \cap log[Len(log)].uses = {}
      BY <1>1, <3>1 DEF History, Distinct
    <3> QED BY <1>1, <3>1, <3>2
  <2> QED BY <2>1, <2>2
<1>3. ASSUME NEW i \in 1..Len(log), NEW x \in log[i].results
      PROVE  ran'[x[1]] = IF x[2] = "ran" THEN 1 ELSE 0
  <2>1. x[1] # u
    BY <1>2, <1>3 DEF Answered
  <2>2. log[i] \in Message
    BY <1>3 DEF TypeOK
  <2>3. x[1] \in Uses
    BY <1>3, <2>2 DEF Message
  <2>4. ran'[x[1]] = ran[x[1]]
    BY <2>1, <2>3 DEF TypeOK
  <2> QED BY <2>4 DEF History, TheModelIsToldTheTruth
<1>4. u \in Issued
  BY <1>1 DEF Issued
<1>5. \A x \in Uses \ Issued : ran'[x] = 0
  BY <1>4 DEF History, Unrun, TypeOK
<1>6. /\ Chain' /\ Distinct' /\ RowsGrow'
      /\ TailUses' = TailUses /\ Issued' = Issued
  <2>1. Chain' /\ TailUses' = TailUses
    BY DEF History, Chain, TailUses, Answered
  <2>2. Distinct' /\ RowsGrow' /\ Issued' = Issued
    BY DEF History, Distinct, RowsGrow, Issued
  <2> QED BY <2>1, <2>2
<1>7. TheModelIsToldTheTruth'
  BY <1>3 DEF TheModelIsToldTheTruth
<1>8. Unrun(Uses \ Issued)'
  BY <1>5, <1>6 DEF Unrun
<1> QED BY <1>6, <1>7, <1>8 DEF History

(* ... or takes its last message back, one that carried nothing.           *)
LEMMA HistoryDrops ==
  ASSUME TypeOK, History, log # <<>>, NEW i \in 1..Len(log), log[i] = log[Len(log)],
         log' = RemoveAt(log, i), UNCHANGED <<rows, ran>>, TailUses = {}, log[Len(log)].results = {}
  PROVE  /\ History' /\ TailUses' = {} /\ Issued' = Issued
         /\ Len(log') = Len(log) - 1 /\ Len(log) \in Nat
         /\ \A k \in 1..Len(log') : log'[k] = log[k]
<1>1. i = Len(log) /\ Len(log) \in Nat
  BY DEF TypeOK, History, RowsGrow
<1>2. /\ log' \in Seq(Message) /\ Len(log') = Len(log) - 1
      /\ \A k \in 1..Len(log') : log'[k] = log[k]
  BY <1>1, RemoveShape DEF TypeOK
<1>3. log[i].uses = {}
  BY <1>1 DEF TailUses
<1>4. Issued' = Issued
  <2>1. Issued = UNION {log[k].uses : k \in 1..Len(log)}
    BY DEF Issued
  <2>2. Issued' = UNION {log'[k].uses : k \in 1..Len(log')}
    BY DEF Issued
  <2>3. 1..Len(log) = 1..Len(log') \cup {i}
    BY <1>1, <1>2
  <2> QED BY <1>2, <1>3, <2>1, <2>2, <2>3
<1>5. Chain'
  <2>1. ASSUME NEW k \in 1..Len(log')
        PROVE  Answered(log[k]) = IF k = 1 THEN {} ELSE log[k - 1].uses
    BY <1>1, <1>2, <2>1 DEF History, Chain
  <2>2. \A k \in 1..Len(log') : k # 1 => log'[k - 1] = log[k - 1]
    BY <1>1, <1>2
  <2> QED BY <1>2, <2>1, <2>2 DEF Chain, Answered
<1>6. Distinct'
  BY <1>1, <1>2 DEF History, Distinct
<1>7. RowsGrow'
  BY <1>1, <1>2 DEF History, RowsGrow
<1>8. TheModelIsToldTheTruth'
  BY <1>1, <1>2 DEF History, TheModelIsToldTheTruth
<1>9. Unrun(Uses \ Issued)'
  BY <1>4 DEF History, Unrun
<1>10. TailUses' = {}
  <2>1. CASE Len(log) = 1
    BY <1>2, <2>1 DEF TailUses
  <2>2. CASE Len(log) # 1
    <3>1. /\ Len(log') \in 1..Len(log') /\ log'[Len(log')] = log[Len(log) - 1]
      BY <1>1, <1>2, <2>2
    <3>2. Answered(log[Len(log)]) = log[Len(log) - 1].uses
      BY <1>1, <2>2 DEF History, Chain
    <3> QED BY <3>1, <3>2 DEF TailUses, Answered
  <2> QED BY <2>1, <2>2
<1> QED BY <1>1, <1>2, <1>4, <1>5, <1>6, <1>7, <1>8, <1>9, <1>10 DEF History


(* What a step does to the texts without an answer.                        *)
LEMMA CleanAppends ==
  ASSUME TypeOK, Clean, NEW m \in Message, log' = Append(log, m), Excuse => Excuse',
         m.role = "designer" => Early /\ ~Early'
  PROVE  Clean'
<1>1. /\ Len(log) \in Nat /\ Len(log') = Len(log) + 1 /\ log'[Len(log) + 1] = m
      /\ \A i \in 1..Len(log) : log'[i] = log[i]
  BY AppendProperties DEF TypeOK
<1>2. CASE Excuse'
  <2>1. \E p \in Posts : turn'[p].pc = "limit"
    BY <1>2 DEF Excuse
  <2>2. FailedTextIsGone' /\ TailGone'
    BY <1>2, <2>1 DEF FailedTextIsGone, TailGone
  <2> QED BY <2>2 DEF Clean
<1>3. CASE ~Excuse'
  <2>1. ~Excuse
    BY <1>3
  <2>2. ASSUME NEW i \in 1..Len(log), i < Len(log), log[i].role = "designer",
               log[i + 1].role = "designer"
        PROVE  log[i].results # {}
    BY <2>1, <2>2 DEF Clean, FailedTextIsGone, Excuse
  <2>3. ASSUME m.role = "designer", log # <<>>, log[Len(log)].role = "designer"
        PROVE  log[Len(log)].results # {}
    BY <2>1, <2>3 DEF Clean, TailGone
  <2>4. ASSUME NEW i \in 1..Len(log'), i < Len(log'), log'[i].role = "designer",
               log'[i + 1].role = "designer"
        PROVE  log'[i].results # {}
    <3>1. CASE i < Len(log)
      <4>1. i \in 1..Len(log) /\ i + 1 \in 1..Len(log)
        BY <1>1, <2>4, <3>1
      <4> QED BY <1>1, <2>2, <2>4, <3>1, <4>1
    <3>2. CASE i = Len(log)
      <4>1. log # <<>> /\ log'[i] = log[Len(log)] /\ log'[i + 1] = m
        BY <1>1, <2>4, <3>2
      <4> QED BY <2>3, <2>4, <3>2, <4>1
    <3> QED BY <1>1, <2>4, <3>1, <3>2
  <2>5. FailedTextIsGone'
    BY <2>4 DEF FailedTextIsGone
  <2>6. Early' => TailGone'
    BY <1>1 DEF TailGone
  <2> QED BY <2>5, <2>6 DEF Clean
<1> QED BY <1>2, <1>3

LEMMA CleanStays ==
  ASSUME Clean, UNCHANGED log, Excuse => Excuse', Early' => Excuse' \/ TailGone
  PROVE  Clean'
<1>1. FailedTextIsGone'
  BY DEF Clean, FailedTextIsGone, Excuse
<1>2. Early' => TailGone'
  BY DEF TailGone
<1> QED BY <1>1, <1>2 DEF Clean

LEMMA CleanDrops ==
  ASSUME TypeOK, Clean, log # <<>>, log[Len(log)].role = "designer",
         log' \in Seq(Message), Len(log') = Len(log) - 1,
         \A k \in 1..Len(log') : log'[k] = log[k],
         Excuse => Excuse'
  PROVE  Clean'
<1>1. Len(log) \in Nat /\ Len(log) > 0
  BY DEF TypeOK
<1>2. CASE Excuse'
  <2>1. \E p \in Posts : turn'[p].pc = "limit"
    BY <1>2 DEF Excuse
  <2>2. FailedTextIsGone' /\ TailGone'
    BY <1>2, <2>1 DEF FailedTextIsGone, TailGone
  <2> QED BY <2>2 DEF Clean
<1>3. CASE ~Excuse'
  <2>1. ASSUME NEW i \in 1..Len(log), i < Len(log), log[i].role = "designer",
               log[i + 1].role = "designer"
        PROVE  log[i].results # {}
    BY <1>3, <2>1 DEF Clean, FailedTextIsGone, Excuse
  <2>2. FailedTextIsGone'
    <3> SUFFICES ASSUME NEW i \in 1..Len(log'), i < Len(log'), log'[i].role = "designer",
                        log'[i + 1].role = "designer"
                 PROVE  log'[i].results # {}
      BY DEF FailedTextIsGone
    <3>1. i \in 1..Len(log) /\ i < Len(log) /\ i + 1 \in 1..Len(log')
      BY <1>1
    <3> QED BY <2>1, <3>1
  <2>3. TailGone'
    <3> SUFFICES ASSUME log' # <<>>, log'[Len(log')].role = "designer", Len(log) > 1
                 PROVE  log'[Len(log')].results # {}
      <4>1. Len(log) = 1 => log' = <<>>
        BY EmptySeq
      <4> QED BY <1>1, <4>1 DEF TailGone
    <3>1. Len(log') \in 1..Len(log) /\ Len(log') < Len(log) /\ Len(log') \in 1..Len(log')
          /\ Len(log') + 1 = Len(log)
      BY <1>1
    <3> QED BY <2>1, <3>1
  <2> QED BY <2>2, <2>3 DEF Clean
<1> QED BY <1>2, <1>3

(* The turn that runs goes on, ...                                         *)
LEMMA Goes ==
  ASSUME TypeOK, Calm, NEW p \in Posts, \A q \in Posts : Active(q) => q = p,
         NEW r, turn' = [turn EXCEPT ![p] = r], r.pc \in Running,
         History', Clean', Work(r)', Own(r)', Asked(r)
  PROVE  Calm'
<1>1. /\ turn'[p] = r /\ turn \in [Posts -> Turn]
      /\ \A q \in Posts : q # p => turn'[q] = turn[q] /\ ~Active(q)
  BY DEF TypeOK
<1>2. \A q \in Posts : Active(q)' <=> q = p
  BY <1>1 DEF Active
<1>3. Alone' /\ ((\A q \in Posts : ~Active(q)) => Rest)'
  BY <1>2 DEF Alone
<1>4. \A q \in Posts : Asked(turn'[q])
  BY <1>1 DEF Calm
<1>5. \A q \in Posts : Asked(turn[q])'
  BY <1>4 DEF Asked
<1>6. ASSUME NEW q \in Posts, Active(q)' PROVE (Work(turn[q]) /\ Own(turn[q]))'
  <2>1. q = p /\ turn'[q] = r
    BY <1>1, <1>2, <1>6
  <2> QED BY <2>1 DEF Work, Own
<1> QED BY <1>3, <1>5, <1>6 DEF Calm

(* ... or ends.                                                            *)
LEMMA Stops ==
  ASSUME TypeOK, Calm, NEW p \in Posts, \A q \in Posts : Active(q) => q = p,
         NEW r, turn' = [turn EXCEPT ![p] = r], r.pc \notin Running, r.stored = <<>>,
         History', Clean', Rest'
  PROVE  Calm'
<1>1. /\ turn'[p] = r /\ turn \in [Posts -> Turn]
      /\ \A q \in Posts : q # p => turn'[q] = turn[q] /\ ~Active(q)
  BY DEF TypeOK
<1>2. \A q \in Posts : ~Active(q)'
  BY <1>1 DEF Active
<1>3. Alone'
  BY <1>2 DEF Alone
<1>4. Asked(r)
  BY DEF Asked, Running
<1>5. \A q \in Posts : Asked(turn'[q])
  BY <1>1, <1>4 DEF Calm
<1>6. \A q \in Posts : Asked(turn[q])'
  BY <1>5 DEF Asked
<1> QED BY <1>2, <1>3, <1>6 DEF Calm

(* The turn that stores a message goes on, ...                             *)
LEMMA RepliesAppend ==
  ASSUME NEW s \in Seq(Message), NEW m \in Message
  PROVE  /\ Cardinality(Replies(s)) \in Nat
         /\ Cardinality(Replies(Append(s, m)))
              = Cardinality(Replies(s)) + IF m.role = "assistant" THEN 1 ELSE 0
<1>1. /\ Len(s) \in Nat /\ Len(Append(s, m)) = Len(s) + 1
      /\ \A i \in 1..Len(s) : Append(s, m)[i] = s[i]
      /\ Append(s, m)[Len(s) + 1] = m
  BY AppendProperties
<1>2. IsFiniteSet(Replies(s))
  <2>1. Replies(s) \subseteq 1..Len(s) /\ IsFiniteSet(1..Len(s))
    BY <1>1, FS_Interval DEF Replies
  <2> QED BY <2>1, FS_Subset
<1>3. Cardinality(Replies(s)) \in Nat
  BY <1>2, FS_CardinalityType
<1>4. CASE m.role = "assistant"
  <2>1. Replies(Append(s, m)) = Replies(s) \cup {Len(s) + 1} /\ Len(s) + 1 \notin Replies(s)
    BY <1>1, <1>4 DEF Replies
  <2> QED BY <1>2, <1>3, <1>4, <2>1, FS_AddElement
<1>5. CASE m.role # "assistant"
  <2>1. Replies(Append(s, m)) = Replies(s)
    BY <1>1, <1>5 DEF Replies
  <2> QED BY <1>3, <1>5, <2>1
<1> QED BY <1>3, <1>4, <1>5

LEMMA ExcuseStays ==
  ASSUME turn \in [Posts -> Turn], NEW p \in Posts, turn[p].pc # "limit", NEW r,
         turn' = [turn EXCEPT ![p] = r]
  PROVE  Excuse => Excuse'
BY DEF Excuse

LEMMA Only ==
  ASSUME Calm, NEW p \in Posts, turn[p].pc \in Running
  PROVE  /\ \A q \in Posts : Active(q) => q = p
         /\ Work(turn[p]) /\ Own(turn[p]) /\ Asked(turn[p])
BY DEF Calm, Alone, Active

LEMMA GoesStoring ==
  ASSUME TypeOK, Calm, NEW p \in Posts, turn[p].pc \in Running,
         NEW m \in Message, m.row = rows + 1, log' = Append(log, m), rows' = rows + 1,
         UNCHANGED <<pending, ran>>,
         Answered(m) = TailUses, m.uses \cap Issued = {}, Truthful(m.results),
         NEW r \in Turn, turn' = [turn EXCEPT ![p] = r],
         r.pc \in Running \ {"settling", "greet"},
         r.hist = Append(turn[p].hist, m), r.stored = Append(turn[p].stored, m),
         r.pc \in {"remind", "calling", "refuse"} => turn[p].pc # "greet",
         m.role = "designer" <=> turn[p].pc = "greet", turn[p].pc # "settling",
         Held(r) = m.uses, Fates(r), Asked(r)
  PROVE  Calm'
<1>1. /\ \A q \in Posts : Active(q) => q = p
      /\ Work(turn[p]) /\ Own(turn[p])
  BY Only
<1>2. turn[p] \in Turn /\ turn \in [Posts -> Turn]
  BY DEF TypeOK
<1>3. History' /\ TailUses' = m.uses
  <2>1. History
    BY DEF Calm
  <2> QED BY <2>1, HistoryAppends
<1>4. Work(r)'
  <2>1. r.hist = log'
    BY <1>1 DEF Work
  <2>2. Fates(r)'
    BY DEF Fates, Truthful, Unrun
  <2> QED BY <1>3, <2>1, <2>2 DEF Work, Held
<1>5. Own(r)'
  <2> DEFINE s == turn[p].stored
  <2>1. s \in Seq(Message)
    BY <1>2 DEF Turn
  <2>2. /\ Len(s) \in Nat /\ Len(r.stored) = Len(s) + 1 /\ r.stored[Len(s) + 1] = m
        /\ \A i \in 1..Len(s) : r.stored[i] = s[i]
    BY <2>1, AppendProperties
  <2>3. /\ log \in Seq(Message) /\ log' # <<>> /\ log'[Len(log')] = m
    BY AppendProperties DEF TypeOK
  <2>4. Len(s) = 0 <=> turn[p].pc = "greet"
    BY <1>1 DEF Own
  <2>5. \A k \in 1..Len(s) : s[k].role = "designer" <=> k = 1
    BY <1>1 DEF Own
  <2>6. \A k \in 1..Len(r.stored) : r.stored[k].role = "designer" <=> k = 1
    BY <2>2, <2>4, <2>5
  <2> HIDE DEF s
  <2> QED BY <2>2, <2>3, <2>4, <2>6 DEF Own
<1>6. Clean'
  <2>1. turn'[p] = r
    BY <1>2
  <2>2. ~Early'
    BY <2>1 DEF Early, Active
  <2>3. turn[p].pc = "greet" => Early
    BY <1>1 DEF Early
  <2>4. Excuse => Excuse'
    BY <1>2, ExcuseStays DEF Running
  <2>5. Clean
    BY DEF Calm
  <2> QED BY <2>2, <2>3, <2>4, <2>5, CleanAppends
<1> QED BY <1>1, <1>3, <1>4, <1>5, <1>6, Goes

(* ... or ends.                                                            *)
LEMMA NothingOwed == Owes(NoPending) = {} /\ NoPending.ready = {} /\ NoPending.awaiting = {} /\ NoPending.forms = {}
BY DEF Owes, NoPending

LEMMA RestsEmpty == ASSUME TailUses = {}, pending = NoPending PROVE Rest
BY NothingOwed DEF Rest, Truthful, Unrun, Ids

LEMMA StopsStoring ==
  ASSUME TypeOK, Calm, NEW p \in Posts, turn[p].pc \in Running,
         NEW m \in Message, m.row = rows + 1, log' = Append(log, m), rows' = rows + 1,
         UNCHANGED <<pending, ran>>, pending = NoPending,
         Answered(m) = TailUses, m.uses = {}, Truthful(m.results), m.role # "designer",
         NEW r \in Turn, turn' = [turn EXCEPT ![p] = r],
         r.pc \notin Running, r.stored = <<>>
  PROVE  Calm'
<1>1. \A q \in Posts : Active(q) => q = p
  BY Only
<1>2. History' /\ TailUses' = {}
  <2>1. History
    BY DEF Calm
  <2> QED BY <2>1, HistoryAppends
<1>3. Rest'
  <2>1. TailUses' = {} /\ pending' = NoPending
    BY <1>2
  <2> QED BY <2>1, NothingOwed DEF Rest, Truthful, Unrun, Ids
<1>4. Clean'
  <2>1. Excuse => Excuse'
    BY ExcuseStays DEF TypeOK, Running
  <2> QED BY <2>1, CleanAppends DEF Calm
<1> QED BY <1>1, <1>2, <1>3, <1>4, Stops

(* Between turns, and before a turn, the texts stay as they are.           *)
LEMMA CleanWaits ==
  ASSUME TypeOK, Clean, Early, NEW p \in Posts, turn[p].pc # "limit", NEW r,
         turn' = [turn EXCEPT ![p] = r], UNCHANGED log
  PROVE  Clean'
<1>1. Excuse => Excuse'
  BY ExcuseStays DEF TypeOK
<1> QED BY <1>1, CleanStays DEF Clean

(* The POST, which arrives when no other turn runs, takes over what is     *)
(* pending: every call of it is now told or sent.                          *)
LEMMA LoadCalm == ASSUME Quiet, TypeOK, Calm, NEW p \in Posts, Load(p) PROVE Calm'
<1>1. /\ turn[p].pc = "idle" /\ UNCHANGED <<log, rows, pending, ran, faults>>
      /\ \A q \in Posts : ~Active(q)
  BY DEF Load, Quiet, Active
<1>2. PICK yes \in SUBSET (Issued \cap Costly), filled \in SUBSET pending.forms :
        LET declined == pending.awaiting \ yes
            told == pending.ready
                    \cup {<<u, "answers">> : u \in filled}
                    \cup {<<u, "skipped">> : u \in pending.forms \ filled}
                    \cup {<<u, "declined">> : u \in declined} IN
        /\ Become(p, [Blank(IF pending = NoPending THEN "greet" ELSE "settling")
                        EXCEPT !.hist = log, !.sent = pending.awaiting \cap yes,
                               !.got = told])
        /\ agreed' = agreed \cup (yes \X {p})
  BY DEF Load
<1>3. PICK told : told = pending.ready
                         \cup {<<u, "answers">> : u \in filled}
                         \cup {<<u, "skipped">> : u \in pending.forms \ filled}
                         \cup {<<u, "declined">> : u \in pending.awaiting \ yes}
  OBVIOUS
<1>4. PICK pc : pc = IF pending = NoPending THEN "greet" ELSE "settling"
  OBVIOUS
<1>5. PICK sent : sent = pending.awaiting \cap yes
  OBVIOUS
<1>6. PICK r : r = [Blank(pc) EXCEPT !.hist = log, !.sent = sent, !.got = told]
  OBVIOUS
<1>7. turn' = [turn EXCEPT ![p] = r]
  BY <1>2, <1>3, <1>4, <1>5, <1>6 DEF Become
<1>8. /\ r.pc = pc /\ r.hist = log /\ r.sent = sent /\ r.got = told /\ r.hold = {}
      /\ r.tools = 0 /\ r.reminded = FALSE /\ r.stored = <<>>
  BY <1>6 DEF Blank
<1>9. Rest /\ History /\ Clean
  BY <1>1 DEF Calm
<1>10. /\ Ids(told) = Ids(pending.ready) \cup pending.forms \cup (pending.awaiting \ yes)
       /\ \A x \in told : \/ x \in pending.ready
                          \/ x[1] \in pending.forms \cup pending.awaiting /\ x[2] # "ran"
  <2>1. \A x \in told : \/ x \in pending.ready
                        \/ x[1] \in pending.forms \cup pending.awaiting /\ x[2] # "ran"
    BY <1>3
  <2>2. Ids(told) \subseteq Ids(pending.ready) \cup pending.forms \cup (pending.awaiting \ yes)
    BY <1>3 DEF Ids
  <2>3. Ids(pending.ready) \subseteq Ids(told)
    BY <1>3 DEF Ids
  <2>4. ASSUME NEW u \in pending.forms PROVE u \in Ids(told)
    <3>1. <<u, "answers">> \in told \/ <<u, "skipped">> \in told
      BY <1>3, <2>4
    <3> QED BY <3>1 DEF Ids
  <2>5. ASSUME NEW u \in pending.awaiting \ yes PROVE u \in Ids(told)
    <3>1. <<u, "declined">> \in told
      BY <1>3, <2>5
    <3> QED BY <3>1 DEF Ids
  <2> QED BY <2>1, <2>2, <2>3, <2>4, <2>5
<1>11. History' /\ TailUses' = TailUses
  BY <1>1, <1>9, HistoryStays
<1>12. Work(r)'
  <2>1. r.hist = log'
    BY <1>1, <1>8
  <2>2. Owes(pending) = Ids(pending.ready) \cup pending.awaiting \cup pending.forms
    BY DEF Owes, Ids
  <2>3. Held(r) = TailUses'
    BY <1>5, <1>8, <1>9, <1>10, <1>11, <2>2 DEF Held, Rest
  <2>4. Truthful(r.got) /\ Unrun(r.sent \cup r.hold)
    BY <1>5, <1>8, <1>9, <1>10 DEF Rest, Truthful, Unrun
  <2>5. Ids(r.got) \cap (r.sent \cup r.hold) = {}
    BY <1>5, <1>8, <1>9, <1>10 DEF Rest
  <2>6. r.pc # "settling" => pending = NoPending /\ r.sent = {}
    BY <1>4, <1>5, <1>8, NothingOwed
  <2>7. Fates(r)
    BY <1>4, <1>8, <2>4, <2>5, <2>6 DEF Fates
  <2>8. Fates(r)'
    BY <1>1, <2>7 DEF Fates, Truthful, Unrun
  <2> QED BY <2>1, <2>3, <2>8 DEF Work, Held
<1>13. Own(r)'
  <2>1. Len(r.stored) = 0 /\ r.pc \in {"settling", "greet"}
    BY <1>4, <1>8
  <2> QED BY <2>1 DEF Own
<1>14. Asked(r)
  <2>1. Replies(r.stored) = {}
    BY <1>8 DEF Replies
  <2>2. Cardinality(Replies(r.stored)) = 0
    BY <2>1, FS_EmptySet
  <2> QED BY <1>4, <1>8, <2>2, ConversationAssumption DEF Asked, Running
<1>15. Clean'
  <2>1. Early
    BY <1>1 DEF Early
  <2> QED BY <1>1, <1>7, <1>9, <2>1, CleanWaits
<1> QED BY <1>1, <1>4, <1>7, <1>8, <1>11, <1>12, <1>13, <1>14, <1>15, Goes DEF Running

(* A call that comes back moves from what is sent to what is known.        *)
LEMMA ReturnCalm ==
  ASSUME TypeOK, Calm, NEW p \in Posts, NEW u \in Uses, CallReturns(p, u) PROVE Calm'
<1>1. /\ turn[p].pc \in {"settling", "calling"} /\ u \in turn[p].sent
      /\ ran' = [ran EXCEPT ![u] = @ + 1]
      /\ UNCHANGED <<log, rows, pending, agreed, faults>>
  BY DEF CallReturns
<1>2. PICK ok \in BOOLEAN :
        Become(p, [turn[p] EXCEPT !.sent = @ \ {u}, !.got = @ \cup {<<u, "ran">>},
                     !.failed = IF ok \/ turn[p].pc = "settling" THEN @
                                ELSE @ \cup {Args[u]}])
  BY DEF CallReturns
<1>3. PICK f : f = IF ok \/ turn[p].pc = "settling" THEN turn[p].failed
                   ELSE turn[p].failed \cup {Args[u]}
  OBVIOUS
<1>4. PICK r : r = [turn[p] EXCEPT !.sent = @ \ {u}, !.got = @ \cup {<<u, "ran">>}, !.failed = f]
  OBVIOUS
<1>5. turn' = [turn EXCEPT ![p] = r]
  BY <1>2, <1>3, <1>4 DEF Become
<1>6. turn[p] \in Turn /\ turn[p].pc \in Running /\ turn \in [Posts -> Turn]
  BY <1>1 DEF TypeOK, Running
<1>7. /\ r.pc = turn[p].pc /\ r.hist = turn[p].hist /\ r.sent = turn[p].sent \ {u}
      /\ r.got = turn[p].got \cup {<<u, "ran">>} /\ r.hold = turn[p].hold
      /\ r.tools = turn[p].tools /\ r.reminded = turn[p].reminded /\ r.stored = turn[p].stored
  BY <1>4, <1>6 DEF Turn
<1>8. /\ \A q \in Posts : Active(q) => q = p
      /\ Work(turn[p]) /\ Own(turn[p]) /\ Asked(turn[p])
  BY <1>6, Only
<1>9. Ids(r.got) = Ids(turn[p].got) \cup {u}
  <2>1. Ids(r.got) \subseteq Ids(turn[p].got) \cup {u}
    BY <1>7 DEF Ids
  <2>2. Ids(turn[p].got) \subseteq Ids(r.got)
    BY <1>7 DEF Ids
  <2>3. u \in Ids(r.got)
    <3>1. <<u, "ran">> \in r.got
      BY <1>7
    <3> QED BY <3>1 DEF Ids
  <2> QED BY <2>1, <2>2, <2>3
<1>10. Held(r) = Held(turn[p]) /\ u \in TailUses
  BY <1>1, <1>7, <1>8, <1>9 DEF Held, Work
<1>11. History' /\ TailUses' = TailUses
  <2>1. History /\ UNCHANGED <<log, rows>>
    BY <1>1 DEF Calm
  <2> QED BY <1>1, <1>10, <2>1, HistoryRuns
<1>12. /\ Truthful(turn[p].got) /\ Unrun(turn[p].sent \cup turn[p].hold)
       /\ Ids(turn[p].got) \cap (turn[p].sent \cup turn[p].hold) = {}
       /\ turn[p].sent \cap turn[p].hold = {}
  BY <1>8 DEF Work, Fates
<1>13. /\ ran'[u] = 1
       /\ \A v \in Uses : v # u => ran'[v] = ran[v]
  BY <1>1, <1>12 DEF TypeOK, Unrun
<1>14. Truthful(r.got)'
  <2> SUFFICES ASSUME NEW x \in r.got PROVE ran'[x[1]] = IF x[2] = "ran" THEN 1 ELSE 0
    BY DEF Truthful
  <2>1. CASE x \in turn[p].got
    <3>1. x[1] \in Ids(turn[p].got)
      BY <2>1 DEF Ids
    <3>2. x[1] # u /\ x[1] \in Uses
      BY <1>1, <1>6, <1>12, <2>1, <3>1 DEF Turn
    <3> QED BY <1>12, <1>13, <2>1, <3>2 DEF Truthful
  <2>2. CASE x = <<u, "ran">>
    BY <1>13, <2>2
  <2> QED BY <1>7, <2>1, <2>2
<1>15. Unrun(r.sent \cup r.hold)'
  <2> SUFFICES ASSUME NEW v \in r.sent \cup r.hold PROVE ran'[v] = 0
    BY DEF Unrun
  <2>1. v # u /\ v \in Uses /\ v \in turn[p].sent \cup turn[p].hold
    BY <1>1, <1>6, <1>7, <1>12 DEF Turn
  <2> QED BY <1>12, <1>13, <2>1 DEF Unrun
<1>16. Fates(r)'
  <2>1. Ids(r.got) \cap (r.sent \cup r.hold) = {} /\ r.sent \cap r.hold = {}
    BY <1>1, <1>7, <1>9, <1>12
  <2>2. /\ r.hold \subseteq Costly \cup Forms
        /\ r.pc # "settling" => pending' = NoPending
        /\ r.pc # "calling" => r.hold = {}
    BY <1>1, <1>7, <1>8 DEF Work, Fates
  <2> QED BY <1>1, <1>7, <1>14, <1>15, <2>1, <2>2 DEF Fates
<1>17. Work(r)'
  <2>1. r.hist = log' /\ Held(r) = TailUses'
    BY <1>1, <1>7, <1>8, <1>10, <1>11 DEF Work
  <2> QED BY <1>16, <2>1 DEF Work, Held
<1>18. Own(r)' /\ Asked(r)
  BY <1>1, <1>7, <1>8 DEF Own, Asked
<1>19. Clean'
  <2>1. turn'[p] = r /\ turn[p].pc # "limit"
    BY <1>1, <1>5, <1>6
  <2>2. Early' => Early
    BY <1>5, <1>6, <1>7, <1>8, <2>1 DEF Early, Active
  <2>3. Excuse => Excuse'
    BY <1>5, <1>6, <2>1, ExcuseStays
  <2> QED BY <1>1, <2>2, <2>3, CleanStays DEF Calm, Clean
<1> QED BY <1>5, <1>6, <1>7, <1>8, <1>11, <1>17, <1>18, <1>19, Goes

(* What was pending has its results; the turn's text takes them along.     *)
LEMMA ClearCalm == ASSUME TypeOK, Calm, NEW p \in Posts, ClearPending(p) PROVE Calm'
<1>1. /\ turn[p].pc = "settling" /\ turn[p].sent = {} /\ pending' = NoPending
      /\ UNCHANGED <<log, rows, ran>>
  BY DEF ClearPending
<1>2. PICK r : r = [turn[p] EXCEPT !.pc = "greet"]
  OBVIOUS
<1>3. turn' = [turn EXCEPT ![p] = r]
  BY <1>2 DEF ClearPending, Become
<1>4. turn[p] \in Turn /\ turn[p].pc \in Running /\ turn \in [Posts -> Turn]
  BY <1>1 DEF TypeOK, Running
<1>5. /\ r.pc = "greet" /\ r.hist = turn[p].hist /\ r.sent = {} /\ r.got = turn[p].got
      /\ r.hold = turn[p].hold /\ r.tools = turn[p].tools /\ r.reminded = turn[p].reminded
      /\ r.stored = turn[p].stored
  BY <1>1, <1>2, <1>4 DEF Turn
<1>6. /\ \A q \in Posts : Active(q) => q = p
      /\ Work(turn[p]) /\ Own(turn[p]) /\ Asked(turn[p])
  BY <1>4, Only
<1>7. History' /\ TailUses' = TailUses
  <2>1. History /\ UNCHANGED <<log, rows, ran>>
    BY <1>1 DEF Calm
  <2> QED BY <2>1, HistoryStays
<1>8. Work(r)'
  <2>1. r.hold = {} /\ Truthful(r.got)
    BY <1>1, <1>5, <1>6 DEF Work, Fates
  <2>2. Fates(r)'
    BY <1>1, <1>5, <2>1 DEF Fates, Truthful, Unrun
  <2>3. r.hist = log' /\ Held(r) = TailUses'
    BY <1>1, <1>5, <1>6, <1>7 DEF Work, Held
  <2> QED BY <2>2, <2>3 DEF Work, Held
<1>9. Own(r)' /\ Asked(r)
  <2>1. Len(r.stored) = 0
    BY <1>1, <1>5, <1>6 DEF Own
  <2>2. Own(r)'
    BY <1>5, <2>1 DEF Own
  <2> QED BY <1>1, <1>5, <1>6, <2>2 DEF Asked, Running
<1>10. Clean'
  <2>1. Early /\ Clean
    BY <1>1, <1>6 DEF Early, Calm
  <2> QED BY <1>1, <1>3, <2>1, CleanWaits
<1> QED BY <1>3, <1>5, <1>6, <1>7, <1>8, <1>9, <1>10, Goes DEF Running

(* Storing a message m with the turn s leaves the turn r.                  *)
Stored(p, s, m, r) ==
  /\ m.row = rows + 1 /\ log' = Append(log, m) /\ rows' = rows + 1
  /\ turn' = [turn EXCEPT ![p] = r]
  /\ r.pc = s.pc /\ r.sent = s.sent /\ r.got = s.got /\ r.hold = s.hold
  /\ r.tools = s.tools /\ r.reminded = s.reminded
  /\ IF s.pc \in Over THEN r.hist = s.hist /\ r.stored = s.stored
     ELSE r.hist = Append(s.hist, m) /\ r.stored = Append(s.stored, m)

LEMMA StoresMessage ==
  ASSUME TypeOK, NEW p \in Posts, NEW role \in {"designer", "platform", "assistant"},
         NEW uses \in SUBSET Uses, NEW results \in SUBSET (Uses \X Said), NEW s \in Turn,
         Store(p, role, uses, results, s)
  PROVE  \E m \in Message, r \in Turn :
           /\ m.role = role /\ m.uses = uses /\ m.results = results /\ Answered(m) = Ids(results)
           /\ Stored(p, s, m, r)
<1>1. PICK m : m = [row |-> rows + 1, role |-> role, uses |-> uses, results |-> results]
  OBVIOUS
<1>2. m \in Message
  BY <1>1 DEF TypeOK, Message
<1>3. PICK r : r = IF s.pc \in Over THEN s
                   ELSE [s EXCEPT !.hist = Append(@, m), !.stored = Append(@, m)]
  OBVIOUS
<1>4. log' = Append(log, m) /\ rows' = rows + 1 /\ turn' = [turn EXCEPT ![p] = r]
  BY <1>1, <1>3 DEF Store, Become
<1>5. Append(s.hist, m) \in Seq(Message) /\ Append(s.stored, m) \in Seq(Message)
  BY <1>2 DEF Turn
<1>6. /\ r \in Turn
      /\ r.pc = s.pc /\ r.sent = s.sent /\ r.got = s.got /\ r.hold = s.hold
      /\ r.tools = s.tools /\ r.reminded = s.reminded
      /\ IF s.pc \in Over THEN r.hist = s.hist /\ r.stored = s.stored
         ELSE r.hist = Append(s.hist, m) /\ r.stored = Append(s.stored, m)
  BY <1>3, <1>5 DEF Turn
<1>7. /\ m.row = rows + 1 /\ m.role = role /\ m.uses = uses /\ m.results = results
      /\ Answered(m) = Ids(results)
  BY <1>1 DEF Answered, Ids
<1>8. Stored(p, s, m, r)
  BY <1>4, <1>6, <1>7 DEF Stored
<1> QED BY <1>2, <1>6, <1>7, <1>8

(* A turn that has answered everything owes nothing.                       *)
LEMMA FatesEmpty ==
  ASSUME NEW r, r.got = {}, r.sent = {}, r.hold = {}, pending = NoPending
  PROVE  Held(r) = {} /\ Fates(r)
BY DEF Held, Ids, Fates, Truthful, Unrun

LEMMA NoIds == Ids({}) = {} /\ Truthful({})
BY DEF Ids, Truthful

(* The turn's text answers what was owed.                                  *)
LEMMA GreetCalm == ASSUME TypeOK, Calm, NEW p \in Posts, Greet(p) PROVE Calm'
<1>1. turn[p].pc = "greet" /\ UNCHANGED <<pending, ran, agreed, faults>>
  BY DEF Greet
<1>2. PICK s : s = [turn[p] EXCEPT !.pc = "loop", !.got = {}]
  OBVIOUS
<1>3. Store(p, "designer", {}, turn[p].got, s)
  BY <1>2 DEF Greet
<1>4. turn[p] \in Turn /\ turn[p].pc \in Running
  BY <1>1 DEF TypeOK, Running
<1>5. /\ s \in Turn /\ s.pc = "loop" /\ s.hist = turn[p].hist /\ s.sent = turn[p].sent
      /\ s.got = {} /\ s.hold = turn[p].hold /\ s.tools = turn[p].tools
      /\ s.reminded = turn[p].reminded /\ s.stored = turn[p].stored
      /\ turn[p].got \in SUBSET (Uses \X Said)
  BY <1>2, <1>4 DEF Turn, Running
<1>p. PICK m \in Message, r \in Turn :
        /\ m.role = "designer" /\ m.uses = {} /\ m.results = turn[p].got
        /\ Answered(m) = Ids(turn[p].got) /\ Stored(p, s, m, r)
  BY <1>3, <1>5, StoresMessage
<1>6. /\ m.row = rows + 1 /\ log' = Append(log, m) /\ rows' = rows + 1
      /\ turn' = [turn EXCEPT ![p] = r] /\ r.pc = "loop" /\ r.sent = turn[p].sent
      /\ r.got = {} /\ r.hold = turn[p].hold /\ r.tools = turn[p].tools
      /\ r.reminded = turn[p].reminded
      /\ r.hist = Append(turn[p].hist, m) /\ r.stored = Append(turn[p].stored, m)
  BY <1>5, <1>p DEF Stored, Over
<1>7. /\ Work(turn[p]) /\ Own(turn[p]) /\ Asked(turn[p])
  BY <1>4, Only
<1>8. turn[p].sent = {} /\ turn[p].hold = {} /\ pending = NoPending /\ Truthful(turn[p].got)
  BY <1>1, <1>7 DEF Work, Fates
<1>9. Answered(m) = TailUses
  BY <1>p, <1>7, <1>8 DEF Work, Held
<1>10. Held(r) = m.uses /\ Fates(r)
  BY <1>p, <1>6, <1>8, FatesEmpty
<1>11. Asked(r)
  <2>1. turn[p].stored \in Seq(Message) /\ m.role # "assistant"
    BY <1>4, <1>p DEF Turn
  <2>2. Cardinality(Replies(r.stored)) = Cardinality(Replies(turn[p].stored))
    BY <1>6, <2>1, RepliesAppend
  <2> QED BY <1>1, <1>6, <1>7, <2>2 DEF Asked, Running
<1> QED BY <1>1, <1>4, <1>p, <1>6, <1>8, <1>9, <1>10, <1>11, GoesStoring DEF Running

(* The model request fails, or the turn ran into a limit.                  *)
LEMMA FailsCalm == ASSUME TypeOK, Calm, NEW p \in Posts, ProviderFails(p) PROVE Calm'
<1>1. turn[p].pc = "loop" /\ UNCHANGED <<log, rows, pending, ran, agreed>>
  BY DEF ProviderFails
<1>2. PICK r : r = [turn[p] EXCEPT !.pc = "failed"]
  OBVIOUS
<1>3. turn' = [turn EXCEPT ![p] = r]
  BY <1>2 DEF ProviderFails, Become
<1>4. turn[p] \in Turn /\ turn[p].pc \in Running /\ turn \in [Posts -> Turn]
  BY <1>1 DEF TypeOK, Running
<1>5. /\ r.pc = "failed" /\ r.hist = turn[p].hist /\ r.sent = turn[p].sent
      /\ r.got = turn[p].got /\ r.hold = turn[p].hold /\ r.tools = turn[p].tools
      /\ r.reminded = turn[p].reminded /\ r.stored = turn[p].stored
  BY <1>2, <1>4 DEF Turn
<1>6. /\ \A q \in Posts : Active(q) => q = p
      /\ Work(turn[p]) /\ Own(turn[p]) /\ Asked(turn[p])
  BY <1>4, Only
<1>7. History' /\ TailUses' = TailUses
  <2>1. History /\ UNCHANGED <<log, rows, ran>>
    BY <1>1 DEF Calm
  <2> QED BY <2>1, HistoryStays
<1>8. Work(r)'
  <2>1. /\ turn[p].got = {} /\ turn[p].sent = {} /\ turn[p].hold = {} /\ pending = NoPending
    BY <1>1, <1>6 DEF Work, Fates
  <2>2. Held(r) = {} /\ Fates(r)
    BY <1>5, <2>1, FatesEmpty
  <2>3. Fates(r)'
    BY <1>1, <2>2 DEF Fates, Truthful, Unrun
  <2>4. r.hist = log' /\ Held(r) = TailUses'
    BY <1>1, <1>5, <1>6, <1>7 DEF Work, Held
  <2> QED BY <2>3, <2>4 DEF Work, Held
<1>9. Own(r)' /\ Asked(r)
  BY <1>1, <1>5, <1>6 DEF Own, Asked, Running
<1>10. Clean'
  <2>1. turn'[p] = r
    BY <1>3, <1>4
  <2>2. ~Early'
    BY <1>5, <2>1 DEF Early, Active, Running
  <2>3. Excuse => Excuse'
    BY <1>1, <1>3, <1>4, ExcuseStays
  <2> QED BY <1>1, <2>2, <2>3, CleanStays DEF Calm
<1> QED BY <1>3, <1>5, <1>6, <1>7, <1>8, <1>9, <1>10, Goes DEF Running

LEMMA LimitCalm == ASSUME TypeOK, Calm, NEW p \in Posts, LimitReached(p) PROVE Calm'
<1>1. turn[p].pc = "loop" /\ UNCHANGED <<log, rows, pending, ran, agreed, faults>>
  BY DEF LimitReached
<1>2. PICK r : r = Blank("limit")
  OBVIOUS
<1>3. turn' = [turn EXCEPT ![p] = r] /\ r.pc = "limit" /\ r.stored = <<>>
  BY <1>2 DEF LimitReached, Become, Blank
<1>4. /\ \A q \in Posts : Active(q) => q = p
      /\ Work(turn[p])
  BY <1>1, Only DEF Running
<1>5. History' /\ TailUses' = TailUses
  <2>1. History /\ UNCHANGED <<log, rows, ran>>
    BY <1>1 DEF Calm
  <2> QED BY <2>1, HistoryStays
<1>6. Rest'
  <2>1. /\ turn[p].got = {} /\ turn[p].sent = {} /\ turn[p].hold = {} /\ pending = NoPending
    BY <1>1, <1>4 DEF Work, Fates
  <2>2. TailUses = {}
    BY <1>4, <2>1, FatesEmpty DEF Work
  <2>3. Rest
    BY <2>1, <2>2, RestsEmpty
  <2> QED BY <1>1, <1>5, <2>3 DEF Rest, Truthful, Unrun, Owes
<1>7. Clean'
  <2>1. Excuse'
    BY <1>3 DEF Excuse, TypeOK
  <2> QED BY <1>1, <2>1, CleanStays DEF Calm
<1> QED BY <1>3, <1>4, <1>5, <1>6, <1>7, Stops DEF Running

(* The reminder adds a message that carries nothing.                       *)
LEMMA RemindCalm == ASSUME TypeOK, Calm, NEW p \in Posts, Remind(p) PROVE Calm'
<1>1. turn[p].pc = "remind" /\ UNCHANGED <<pending, ran, agreed, faults>>
  BY DEF Remind
<1>2. PICK s : s = [turn[p] EXCEPT !.pc = "loop", !.reminded = TRUE]
  OBVIOUS
<1>3. Store(p, "platform", {}, {}, s)
  BY <1>2 DEF Remind
<1>4. turn[p] \in Turn /\ turn[p].pc \in Running
  BY <1>1 DEF TypeOK, Running
<1>5. /\ s \in Turn /\ s.pc = "loop" /\ s.hist = turn[p].hist /\ s.sent = turn[p].sent
      /\ s.got = turn[p].got /\ s.hold = turn[p].hold /\ s.tools = turn[p].tools
      /\ s.reminded = TRUE /\ s.stored = turn[p].stored
  BY <1>2, <1>4 DEF Turn, Running
<1>p. PICK m \in Message, r \in Turn :
        /\ m.role = "platform" /\ m.uses = {} /\ m.results = {}
        /\ Answered(m) = Ids({}) /\ Stored(p, s, m, r)
  BY <1>3, <1>5, StoresMessage
<1>6. /\ m.row = rows + 1 /\ log' = Append(log, m) /\ rows' = rows + 1
      /\ turn' = [turn EXCEPT ![p] = r] /\ r.pc = "loop" /\ r.sent = turn[p].sent
      /\ r.got = turn[p].got /\ r.hold = turn[p].hold /\ r.tools = turn[p].tools
      /\ r.reminded = TRUE
      /\ r.hist = Append(turn[p].hist, m) /\ r.stored = Append(turn[p].stored, m)
  BY <1>5, <1>p DEF Stored, Over
<1>7. /\ Work(turn[p]) /\ Own(turn[p]) /\ Asked(turn[p])
  BY <1>4, Only
<1>8. turn[p].got = {} /\ turn[p].sent = {} /\ turn[p].hold = {} /\ pending = NoPending
  BY <1>1, <1>7 DEF Work, Fates
<1>9. Answered(m) = TailUses /\ Truthful(m.results)
  BY <1>p, <1>7, <1>8, NoIds DEF Work, Held
<1>10. Held(r) = m.uses /\ Fates(r)
  BY <1>p, <1>6, <1>8, FatesEmpty
<1>11. Asked(r)
  <2>1. turn[p].stored \in Seq(Message) /\ m.role # "assistant" /\ turn[p].tools \in Nat
    BY <1>4, <1>p DEF Turn
  <2>2. /\ Cardinality(Replies(r.stored)) = Cardinality(Replies(turn[p].stored))
        /\ Cardinality(Replies(turn[p].stored)) \in Nat
    BY <1>6, <2>1, RepliesAppend
  <2> QED BY <1>1, <1>6, <1>7, <2>1, <2>2 DEF Asked, Running
<1> QED BY <1>1, <1>4, <1>p, <1>6, <1>8, <1>9, <1>10, <1>11, GoesStoring DEF Running

(* Calls over the limit are answered all the same.                         *)
LEMMA RefuseCalm == ASSUME TypeOK, Calm, NEW p \in Posts, Refuse(p) PROVE Calm'
<1>1. turn[p].pc = "refuse" /\ UNCHANGED <<pending, ran, agreed, faults>>
  BY DEF Refuse
<1>2. PICK s : s = Blank("limit")
  OBVIOUS
<1>3. Store(p, "platform", {}, turn[p].got, s)
  BY <1>2 DEF Refuse
<1>4. turn[p] \in Turn /\ turn[p].pc \in Running
  BY <1>1 DEF TypeOK, Running
<1>5. s \in Turn /\ s.pc = "limit" /\ s.stored = <<>> /\ turn[p].got \in SUBSET (Uses \X Said)
  BY <1>2, <1>4, BlankIsTurn DEF Blank, Turn, Over
<1>p. PICK m \in Message, r \in Turn :
        /\ m.role = "platform" /\ m.uses = {} /\ m.results = turn[p].got
        /\ Answered(m) = Ids(turn[p].got) /\ Stored(p, s, m, r)
  BY <1>3, <1>5, StoresMessage
<1>6. /\ m.row = rows + 1 /\ log' = Append(log, m) /\ rows' = rows + 1
      /\ turn' = [turn EXCEPT ![p] = r] /\ r.pc = "limit" /\ r.stored = <<>>
  BY <1>5, <1>p DEF Stored, Over
<1>7. Work(turn[p])
  BY <1>4, Only
<1>8. turn[p].sent = {} /\ turn[p].hold = {} /\ pending = NoPending /\ Truthful(turn[p].got)
  BY <1>1, <1>7 DEF Work, Fates
<1>9. Answered(m) = TailUses
  BY <1>p, <1>7, <1>8 DEF Work, Held
<1> QED BY <1>1, <1>4, <1>p, <1>6, <1>8, <1>9, StopsStoring DEF Running

(* All results go into the next message.                                   *)
LEMMA ResultsCalm == ASSUME TypeOK, Calm, NEW p \in Posts, GiveResults(p) PROVE Calm'
<1>1. /\ turn[p].pc = "calling" /\ turn[p].sent = {} /\ turn[p].hold = {}
      /\ UNCHANGED <<pending, ran, agreed, faults>>
  BY DEF GiveResults
<1>2. PICK s : s = [turn[p] EXCEPT !.pc = "loop", !.got = {}]
  OBVIOUS
<1>3. Store(p, "platform", {}, turn[p].got, s)
  BY <1>2 DEF GiveResults
<1>4. turn[p] \in Turn /\ turn[p].pc \in Running
  BY <1>1 DEF TypeOK, Running
<1>5. /\ s \in Turn /\ s.pc = "loop" /\ s.hist = turn[p].hist /\ s.sent = turn[p].sent
      /\ s.got = {} /\ s.hold = turn[p].hold /\ s.tools = turn[p].tools
      /\ s.reminded = turn[p].reminded /\ s.stored = turn[p].stored
      /\ turn[p].got \in SUBSET (Uses \X Said)
  BY <1>2, <1>4 DEF Turn, Running
<1>p. PICK m \in Message, r \in Turn :
        /\ m.role = "platform" /\ m.uses = {} /\ m.results = turn[p].got
        /\ Answered(m) = Ids(turn[p].got) /\ Stored(p, s, m, r)
  BY <1>3, <1>5, StoresMessage
<1>6. /\ m.row = rows + 1 /\ log' = Append(log, m) /\ rows' = rows + 1
      /\ turn' = [turn EXCEPT ![p] = r] /\ r.pc = "loop" /\ r.sent = turn[p].sent
      /\ r.got = {} /\ r.hold = turn[p].hold /\ r.tools = turn[p].tools
      /\ r.reminded = turn[p].reminded
      /\ r.hist = Append(turn[p].hist, m) /\ r.stored = Append(turn[p].stored, m)
  BY <1>5, <1>p DEF Stored, Over
<1>7. /\ Work(turn[p]) /\ Asked(turn[p])
  BY <1>4, Only
<1>8. pending = NoPending /\ Truthful(turn[p].got)
  BY <1>1, <1>7 DEF Work, Fates
<1>9. Answered(m) = TailUses
  BY <1>1, <1>p, <1>7 DEF Work, Held
<1>10. Held(r) = m.uses /\ Fates(r)
  BY <1>1, <1>p, <1>6, <1>8, FatesEmpty
<1>11. Asked(r)
  <2>1. turn[p].stored \in Seq(Message) /\ m.role # "assistant"
    BY <1>4, <1>p DEF Turn
  <2>2. Cardinality(Replies(r.stored)) = Cardinality(Replies(turn[p].stored))
    BY <1>6, <2>1, RepliesAppend
  <2> QED BY <1>1, <1>6, <1>7, <2>2 DEF Asked, Running
<1> QED BY <1>1, <1>4, <1>p, <1>6, <1>8, <1>9, <1>10, <1>11, GoesStoring DEF Running

(* A turn that pauses leaves what it holds pending.                        *)
LEMMA PauseCalm == ASSUME TypeOK, Calm, NEW p \in Posts, Pause(p) PROVE Calm'
<1>1. /\ turn[p].pc = "calling" /\ turn[p].sent = {} /\ UNCHANGED <<log, rows, ran>>
      /\ pending' = [ready |-> turn[p].got, awaiting |-> turn[p].hold \cap Costly,
                     forms |-> turn[p].hold \cap Forms]
  BY DEF Pause
<1>2. PICK r : r = Blank("waiting")
  OBVIOUS
<1>3. turn' = [turn EXCEPT ![p] = r] /\ r.pc = "waiting" /\ r.stored = <<>>
  BY <1>2 DEF Pause, Become, Blank
<1>4. turn[p] \in Turn /\ turn[p].pc \in Running /\ turn \in [Posts -> Turn]
  BY <1>1 DEF TypeOK, Running
<1>5. /\ \A q \in Posts : Active(q) => q = p
      /\ Work(turn[p]) /\ Own(turn[p])
  BY <1>4, Only
<1>6. History' /\ TailUses' = TailUses
  <2>1. History
    BY DEF Calm
  <2> QED BY <1>1, <2>1, HistoryStays
<1>7. PICK got : got = turn[p].got
  OBVIOUS
<1>8. PICK hold : hold = turn[p].hold
  OBVIOUS
<1>9. /\ pending'.ready = got /\ pending'.awaiting = hold \cap Costly
      /\ pending'.forms = hold \cap Forms
  BY <1>1, <1>7, <1>8
<1>10. /\ hold \subseteq Costly \cup Forms /\ Truthful(got) /\ Unrun(hold)
       /\ Ids(got) \cap hold = {} /\ Ids(got) \cup hold = TailUses
  BY <1>1, <1>5, <1>7, <1>8 DEF Work, Held, Fates, Unrun
<1>11. Truthful(got)' /\ Unrun(hold)'
  BY <1>1, <1>10 DEF Truthful, Unrun
<1>12. Rest'
  <2>1. Owes(pending') = Ids(got) \cup (hold \cap Costly) \cup (hold \cap Forms)
    BY <1>9 DEF Owes, Ids
  <2>2. Owes(pending') = TailUses'
    BY <1>6, <1>10, <2>1
  <2>3. /\ \A x \in pending'.ready : ran'[x[1]] = IF x[2] = "ran" THEN 1 ELSE 0
        /\ \A u \in pending'.awaiting \cup pending'.forms : ran'[u] = 0
    BY <1>9, <1>11 DEF Truthful, Unrun
  <2>4. /\ Ids(pending'.ready) \cap (pending'.awaiting \cup pending'.forms) = {}
        /\ pending'.awaiting \cap pending'.forms = {}
    BY <1>9, <1>10, ConversationAssumption
  <2> QED BY <2>2, <2>3, <2>4 DEF Rest, Truthful, Unrun, Owes, Ids
<1>13. Clean'
  <2>1. Excuse => Excuse'
    BY <1>1, <1>3, <1>4, ExcuseStays
  <2>2. TailGone
    <3> DEFINE n == Len(turn[p].stored)
    <3>1. turn[p].stored \in Seq(Message) /\ n \in Nat
      BY <1>4 DEF Turn
    <3>2. n >= 2 /\ log # <<>> /\ turn[p].stored[n] = log[Len(log)]
      BY <1>1, <1>5, <3>1 DEF Own
    <3>3. turn[p].stored[n].role # "designer"
      BY <1>5, <3>1, <3>2 DEF Own
    <3> QED BY <3>2, <3>3 DEF TailGone
  <2> QED BY <1>1, <2>1, <2>2, CleanStays DEF Calm
<1> QED BY <1>3, <1>5, <1>6, <1>12, <1>13, Stops DEF Running

(* A failed turn takes its text back, unless it carried results or more    *)
(* was stored.                                                             *)
LEMMA DiscardCalm == ASSUME TypeOK, Calm, NEW p \in Posts, Discard(p) PROVE Calm'
<1> DEFINE s == turn[p].stored
           n == Len(s)
<1>1. /\ turn[p].pc = "failed" /\ UNCHANGED <<rows, pending, ran, agreed, faults>>
      /\ IF n = 1 /\ s[1].results = {}
           THEN \E i \in 1..Len(log) : log[i] = s[1] /\ log' = RemoveAt(log, i)
           ELSE UNCHANGED log
  BY DEF Discard
<1>2. PICK r : r = Blank("error")
  OBVIOUS
<1>3. turn' = [turn EXCEPT ![p] = r] /\ r.pc = "error" /\ r.stored = <<>>
  BY <1>2 DEF Discard, Become, Blank
<1>4. turn[p] \in Turn /\ turn[p].pc \in Running /\ turn \in [Posts -> Turn]
  BY <1>1 DEF TypeOK, Running
<1>5. /\ \A q \in Posts : Active(q) => q = p
      /\ Work(turn[p]) /\ Own(turn[p])
  BY <1>4, Only
<1>6. s \in Seq(Message) /\ n \in Nat
  BY <1>4 DEF Turn
<1>7. n >= 1 /\ log # <<>> /\ s[n] = log[Len(log)] /\ \A k \in 1..n : s[k].role = "designer" <=> k = 1
  BY <1>1, <1>5, <1>6 DEF Own
<1>8. turn[p].got = {} /\ turn[p].sent = {} /\ turn[p].hold = {} /\ pending = NoPending
  BY <1>1, <1>5 DEF Work, Fates
<1>9. TailUses = {} /\ History /\ Clean
  BY <1>5, <1>8, FatesEmpty DEF Work, Calm
<1>10. Excuse => Excuse'
  BY <1>1, <1>3, <1>4, ExcuseStays
<1>11. History' /\ TailUses' = {} /\ Clean'
  <2>1. CASE n = 1 /\ s[1].results = {}
    <3>1. PICK i \in 1..Len(log) : log[i] = s[1] /\ log' = RemoveAt(log, i)
      BY <1>1, <2>1
    <3>2. log[i] = log[Len(log)] /\ log[Len(log)].results = {} /\ log[Len(log)].role = "designer"
      BY <1>7, <2>1, <3>1
    <3>3. /\ History' /\ TailUses' = {}
          /\ Len(log') = Len(log) - 1 /\ \A k \in 1..Len(log') : log'[k] = log[k]
      BY <1>1, <1>7, <1>9, <3>1, <3>2, HistoryDrops
    <3>4. log' \in Seq(Message)
      BY <3>1, RemoveShape DEF TypeOK
    <3>5. Clean'
      BY <1>7, <1>9, <1>10, <3>2, <3>3, <3>4, CleanDrops
    <3> QED BY <3>3, <3>5
  <2>2. CASE ~(n = 1 /\ s[1].results = {})
    <3>1. UNCHANGED <<log, rows, ran>>
      BY <1>1, <2>2
    <3>2. TailGone
      <4>1. CASE n = 1
        BY <1>7, <2>2, <4>1 DEF TailGone
      <4>2. CASE n # 1
        <5>1. n \in 1..n
          BY <1>6, <1>7
        <5>2. s[n].role # "designer"
          <6> HIDE DEF s, n
          <6> QED BY <1>7, <4>2, <5>1
        <5> QED BY <1>7, <5>2 DEF TailGone
      <4> QED BY <4>1, <4>2
    <3>3. Clean'
      BY <1>9, <1>10, <3>1, <3>2, CleanStays
    <3> QED BY <1>9, <3>1, <3>3, HistoryStays
  <2> QED BY <2>1, <2>2
<1>12. Rest'
  <2>1. TailUses' = {} /\ pending' = NoPending
    BY <1>1, <1>8, <1>11
  <2> QED BY <2>1, NothingOwed DEF Rest, Truthful, Unrun, Ids
<1> QED BY <1>3, <1>5, <1>11, <1>12, Stops DEF Running

(* A reply makes the calls the turn now holds, or ends the turn without    *)
(* any.                                                                    *)
LEMMA ReplyCases ==
  ASSUME NEW t \in Turn, t.pc = "loop", t.got = {}, t.sent = {}, t.hold = {}, Asked(t),
         NEW calls \in SUBSET Uses, Unrun(calls), pending = NoPending,
         NEW stop, (stop = "tool_use") = (calls # {}), NEW idle \in BOOLEAN,
         NEW s, s = AfterReply(t, calls, stop, idle)
  PROVE  /\ s \in Turn
         /\ \/ s.pc \in Over /\ s.stored = <<>> /\ calls = {}
            \/ /\ s.pc \in {"remind", "calling", "refuse"}
               /\ s.hist = t.hist /\ s.stored = t.stored
               /\ Held(s) = calls /\ Fates(s)
               /\ s.pc = "remind" => ~t.reminded /\ s.tools = t.tools
               /\ s.pc = "calling" =>
                    /\ s.tools >= t.tools + 1 /\ s.tools <= MaxToolCalls
                    /\ s.reminded = t.reminded
<1>1. s \in Turn
  BY AfterReplyFollows DEF Follows
<1>2. PICK asked : asked = t.tools + Cardinality(calls)
  OBVIOUS
<1>3. PICK known : known = {u \in calls \ (Forms \cup BadForms \cup Costly) : Args[u] \in t.failed}
  OBVIOUS
<1>4. Cardinality(calls) \in Nat /\ asked \in Nat /\ (calls # {} => asked >= t.tools + 1)
  <2>1. IsFiniteSet(calls)
    BY ConversationAssumption, FS_Subset
  <2>2. Cardinality(calls) \in Nat /\ (calls # {} => Cardinality(calls) # 0)
    BY <2>1, FS_CardinalityType, FS_EmptySet
  <2> QED BY <1>2, <2>2 DEF Turn
<1>5. CASE ~t.reminded /\ calls = {} /\ stop \notin {"tool_use", "refusal"} /\ idle
  <2>1. s = [t EXCEPT !.pc = "remind"]
    BY <1>5 DEF AfterReply
  <2>2. /\ s.pc = "remind" /\ s.hist = t.hist /\ s.stored = t.stored /\ s.tools = t.tools
        /\ s.got = {} /\ s.sent = {} /\ s.hold = {}
    BY <2>1 DEF Turn
  <2>3. Held(s) = calls /\ Fates(s)
    BY <1>5, <2>2, FatesEmpty
  <2> QED BY <1>1, <1>5, <2>2, <2>3
<1>6. CASE /\ ~(~t.reminded /\ calls = {} /\ stop \notin {"tool_use", "refusal"} /\ idle)
           /\ stop # "tool_use" \/ calls = {}
  <2>1. s = Blank(IF stop \in {"end_turn", "refusal"} THEN "final" ELSE "limit")
    BY <1>6 DEF AfterReply
  <2>2. s.pc \in Over /\ s.stored = <<>>
    BY <2>1 DEF Blank, Over
  <2> QED BY <1>1, <1>6, <2>2
<1>7. CASE stop = "tool_use" /\ calls # {} /\ asked > MaxToolCalls
  <2>1. PICK got : got = {<<u, "refused">> : u \in calls}
    OBVIOUS
  <2>2. s = [t EXCEPT !.pc = "refuse", !.tools = asked, !.sent = {}, !.got = got]
    BY <1>2, <1>7, <2>1 DEF AfterReply
  <2>3. /\ s.pc = "refuse" /\ s.hist = t.hist /\ s.stored = t.stored
        /\ s.got = got /\ s.sent = {} /\ s.hold = {}
    BY <2>2 DEF Turn
  <2>4. Ids(got) = calls
    <3>1. Ids(got) \subseteq calls
      BY <2>1 DEF Ids
    <3>2. ASSUME NEW u \in calls PROVE u \in Ids(got)
      <4>1. <<u, "refused">> \in got
        BY <2>1
      <4> QED BY <4>1 DEF Ids
    <3> QED BY <3>1, <3>2
  <2>5. Truthful(got)
    BY <2>1 DEF Truthful, Unrun
  <2>6. Held(s) = calls /\ Fates(s)
    BY <2>3, <2>4, <2>5 DEF Held, Fates, Unrun
  <2> QED BY <1>1, <2>3, <2>6
<1>8. CASE stop = "tool_use" /\ calls # {} /\ ~(asked > MaxToolCalls)
  <2>1. PICK got : got = {<<u, "invalid">> : u \in calls \cap BadForms}
                         \cup {<<u, "repeat">> : u \in known}
    OBVIOUS
  <2>2. PICK sent : sent = calls \ (Forms \cup BadForms \cup Costly \cup known)
    OBVIOUS
  <2>3. PICK hold : hold = (calls \cap Forms) \cup (calls \cap Costly)
    OBVIOUS
  <2>4. s = [t EXCEPT !.pc = "calling", !.tools = asked, !.hold = hold, !.sent = sent, !.got = got]
    BY <1>2, <1>3, <1>8, <2>1, <2>2, <2>3 DEF AfterReply
  <2>5. /\ s.pc = "calling" /\ s.hist = t.hist /\ s.stored = t.stored /\ s.tools = asked
        /\ s.reminded = t.reminded /\ s.got = got /\ s.sent = sent /\ s.hold = hold
    BY <2>4 DEF Turn
  <2>6. Ids(got) = (calls \cap BadForms) \cup known
    <3>1. Ids(got) \subseteq (calls \cap BadForms) \cup known
      BY <2>1 DEF Ids
    <3>2. ASSUME NEW u \in calls \cap BadForms PROVE u \in Ids(got)
      <4>1. <<u, "invalid">> \in got
        BY <2>1
      <4> QED BY <4>1 DEF Ids
    <3>3. ASSUME NEW u \in known PROVE u \in Ids(got)
      <4>1. <<u, "repeat">> \in got
        BY <2>1
      <4> QED BY <4>1 DEF Ids
    <3> QED BY <3>1, <3>2, <3>3
  <2>7. known \subseteq calls \ (Forms \cup BadForms \cup Costly)
    BY <1>3
  <2>8. Truthful(got) /\ Unrun(sent \cup hold)
    BY <2>1, <2>2, <2>3, <2>7 DEF Truthful, Unrun
  <2>9. /\ Ids(got) \cup sent \cup hold = calls
        /\ Ids(got) \cap (sent \cup hold) = {} /\ sent \cap hold = {}
        /\ hold \subseteq Costly \cup Forms
    BY <2>2, <2>3, <2>6, <2>7, ConversationAssumption
  <2>10. Held(s) = calls /\ Fates(s)
    BY <2>5, <2>8, <2>9 DEF Held, Fates
  <2>11. asked >= t.tools + 1 /\ asked <= MaxToolCalls
    BY <1>4, <1>8, ConversationAssumption
  <2> QED BY <1>1, <2>5, <2>10, <2>11
<1> QED BY <1>4, <1>5, <1>6, <1>7, <1>8, ConversationAssumption

(* A reply is stored with its calls, none of which was made before.        *)
LEMMA ReplyCalm == ASSUME Quiet, TypeOK, Calm, NEW p \in Posts, Reply(p) PROVE Calm'
<1>1. turn[p].pc = "loop" /\ UNCHANGED <<pending, ran, agreed>>
  BY DEF Reply
<1>2. PICK calls \in SUBSET (Uses \ Issued), idle \in BOOLEAN,
           stop \in {"tool_use", "end_turn", "refusal", "max_tokens"} :
        /\ (stop = "tool_use") = (calls # {})
        /\ Store(p, "assistant", calls, {}, AfterReply(turn[p], calls, stop, idle))
  BY DEF Reply, Quiet, Fault
<1>3. PICK s : s = AfterReply(turn[p], calls, stop, idle)
  OBVIOUS
<1>4. turn[p] \in Turn /\ turn[p].pc \in Running /\ calls \in SUBSET Uses
  BY <1>1 DEF TypeOK, Running
<1>5. Work(turn[p]) /\ Own(turn[p]) /\ Asked(turn[p])
  BY <1>4, Only
<1>6. turn[p].got = {} /\ turn[p].sent = {} /\ turn[p].hold = {} /\ pending = NoPending
  BY <1>1, <1>5 DEF Work, Fates
<1>7. Unrun(calls)
  BY DEF Calm, History, Unrun
<1>8. /\ s \in Turn
      /\ \/ s.pc \in Over /\ s.stored = <<>> /\ calls = {}
         \/ /\ s.pc \in {"remind", "calling", "refuse"}
            /\ s.hist = turn[p].hist /\ s.stored = turn[p].stored
            /\ Held(s) = calls /\ Fates(s)
            /\ s.pc = "remind" => ~turn[p].reminded /\ s.tools = turn[p].tools
            /\ s.pc = "calling" =>
                 /\ s.tools >= turn[p].tools + 1 /\ s.tools <= MaxToolCalls
                 /\ s.reminded = turn[p].reminded
  BY <1>1, <1>2, <1>3, <1>4, <1>5, <1>6, <1>7, ReplyCases
<1>p. PICK m \in Message, r \in Turn :
        /\ m.role = "assistant" /\ m.uses = calls /\ m.results = {}
        /\ Answered(m) = Ids({}) /\ Stored(p, s, m, r)
  BY <1>2, <1>3, <1>4, <1>8, StoresMessage
<1>9. /\ m.row = rows + 1 /\ log' = Append(log, m) /\ rows' = rows + 1
      /\ turn' = [turn EXCEPT ![p] = r] /\ r.pc = s.pc /\ r.sent = s.sent
      /\ r.got = s.got /\ r.hold = s.hold /\ r.tools = s.tools /\ r.reminded = s.reminded
  BY <1>p DEF Stored
<1>10. TailUses = {} /\ Answered(m) = TailUses /\ Truthful(m.results) /\ m.uses \cap Issued = {}
  BY <1>p, <1>5, <1>6, FatesEmpty, NoIds DEF Work
<1>11. CASE s.pc \in Over
  <2>1. r.stored = <<>> /\ calls = {} /\ r.pc \notin Running
    BY <1>8, <1>9, <1>11, <1>p DEF Stored, Over, Running
  <2> QED BY <1>1, <1>4, <1>6, <1>9, <1>10, <1>p, <2>1, StopsStoring
<1>12. CASE s.pc \in {"remind", "calling", "refuse"}
  <2>1. s.pc \notin Over
    BY <1>12 DEF Over
  <2>2. r.hist = Append(turn[p].hist, m) /\ r.stored = Append(turn[p].stored, m)
    BY <1>8, <1>p, <2>1 DEF Stored
  <2>3. Held(r) = m.uses /\ Fates(r)
    BY <1>8, <1>9, <1>p, <2>1 DEF Held, Fates
  <2>4. turn[p].stored \in Seq(Message) /\ turn[p].tools \in Nat /\ s.tools \in Nat
    BY <1>4, <1>8 DEF Turn
  <2>5. /\ Cardinality(Replies(r.stored)) = Cardinality(Replies(turn[p].stored)) + 1
        /\ Cardinality(Replies(turn[p].stored)) \in Nat
    BY <1>p, <2>2, <2>4, RepliesAppend
  <2>6. PICK n : n = Cardinality(Replies(turn[p].stored))
    OBVIOUS
  <2>a. PICK b : b = IF turn[p].reminded THEN 1 ELSE 0
    OBVIOUS
  <2>b. /\ n \in Nat /\ b \in {0, 1} /\ Cardinality(Replies(r.stored)) = n + 1
        /\ turn[p].tools <= MaxToolCalls /\ n <= turn[p].tools + b
    BY <1>1, <1>5, <2>5, <2>6, <2>a DEF Asked, Running
  <2>7. ASSUME s.pc = "remind" PROVE Asked(r)
    <3>1. r.pc = "remind" /\ r.tools = turn[p].tools /\ b = 0
      <4>1. s.tools = turn[p].tools /\ ~turn[p].reminded
        BY <1>8, <2>1, <2>7
      <4> QED BY <1>9, <2>7, <2>a, <4>1
    <3>2. Cardinality(Replies(r.stored)) <= r.tools + 1 /\ r.tools <= MaxToolCalls
      BY <2>4, <2>b, <3>1
    <3> QED BY <3>1, <3>2 DEF Asked, Running
  <2>8. ASSUME s.pc = "calling" PROVE Asked(r)
    <3>1. s.tools >= turn[p].tools + 1 /\ s.tools <= MaxToolCalls /\ s.reminded = turn[p].reminded
      BY <1>8, <2>1, <2>8
    <3>2. r.pc = "calling" /\ r.tools = s.tools /\ r.reminded = turn[p].reminded
      BY <1>9, <2>8, <3>1
    <3>3. (IF r.reminded \/ r.pc = "remind" THEN 1 ELSE 0) = b
      BY <2>a, <3>2
    <3>4. n + 1 <= r.tools + b
      BY <2>4, <2>b, <3>1, <3>2
    <3> QED BY <2>b, <3>1, <3>2, <3>3, <3>4 DEF Asked, Running
  <2>9. ASSUME s.pc = "refuse" PROVE Asked(r)
    <3>1. r.pc = "refuse"
      BY <1>9, <2>9
    <3>2. Cardinality(Replies(r.stored)) <= MaxToolCalls + 2
      BY <2>4, <2>b, ConversationAssumption
    <3> QED BY <3>1, <3>2 DEF Asked, Running
  <2>10. Asked(r)
    BY <1>12, <2>7, <2>8, <2>9
  <2>11. r.pc \in Running \ {"settling", "greet"}
    BY <1>9, <1>12 DEF Running
  <2> QED BY <1>1, <1>4, <1>9, <1>10, <1>p, <2>2, <2>3, <2>10, <2>11, GoesStoring
<1> QED BY <1>8, <1>11, <1>12

LEMMA InitCalm == Init => Calm
<1> SUFFICES ASSUME Init PROVE Calm
  OBVIOUS
<1>1. /\ log = <<>> /\ rows = 0 /\ pending = NoPending /\ ran = [u \in Uses |-> 0]
      /\ \A p \in Posts : turn[p].pc = "idle" /\ turn[p].stored = <<>>
  BY DEF Init, Blank
<1>2. \A p \in Posts : ~Active(p)
  BY <1>1 DEF Active, Running
<1>3. History
  <2>1. 1..Len(log) = {}
    BY <1>1
  <2>2. Chain /\ Distinct /\ RowsGrow /\ TheModelIsToldTheTruth
    BY <2>1 DEF Chain, Distinct, RowsGrow, TheModelIsToldTheTruth
  <2>3. Unrun(Uses \ Issued)
    BY <1>1 DEF Unrun
  <2> QED BY <2>2, <2>3 DEF History
<1>4. Rest
  BY <1>1, RestsEmpty DEF TailUses
<1>5. Clean
  BY <1>1 DEF Clean, FailedTextIsGone, TailGone
<1>6. \A p \in Posts : Asked(turn[p])
  BY <1>1 DEF Asked, Running
<1> QED BY <1>2, <1>3, <1>4, <1>5, <1>6 DEF Calm, Alone

LEMMA StutterCalm == ASSUME Calm, UNCHANGED vars PROVE Calm'
<1>1. UNCHANGED <<log, rows, pending, turn, ran>>
  BY DEF vars
<1>2. History' /\ TailUses' = TailUses
  BY <1>1, HistoryStays DEF Calm
<1>3. Alone' /\ \A p \in Posts : Active(p)' <=> Active(p)
  BY <1>1 DEF Calm, Alone, Active
<1>4. Clean'
  <2>1. Early' => Early
    BY <1>1, <1>3 DEF Early
  <2>2. Excuse => Excuse'
    BY <1>1 DEF Excuse
  <2> QED BY <1>1, <2>1, <2>2, CleanStays DEF Calm, Clean
<1>5. Rest => Rest'
  BY <1>1, <1>2 DEF Rest, Truthful, Unrun, Owes
<1>6. ASSUME NEW p \in Posts, Active(p) PROVE (Work(turn[p]) /\ Own(turn[p]))'
  <2>1. Work(turn[p]) /\ Own(turn[p])
    BY <1>6 DEF Calm
  <2>2. Own(turn[p])'
    BY <1>1, <2>1 DEF Own
  <2>3. Work(turn[p])'
    BY <1>1, <1>2, <2>1 DEF Work, Held, Fates, Truthful, Unrun
  <2> QED BY <2>2, <2>3
<1>7. \A p \in Posts : Asked(turn[p])'
  BY <1>1 DEF Calm, Asked
<1> QED BY <1>2, <1>3, <1>4, <1>5, <1>6, <1>7 DEF Calm

(* Nothing a quiet turn does is cut short.                                 *)
LEMMA NothingCut ==
  ASSUME Quiet, NEW p \in Posts PROVE ~BridgeFails(p) /\ ~Lost(p)
BY DEF Quiet, BridgeFails, Lost, Fault

LEMMA NextCalm == ASSUME Quiet PROVE TypeOK /\ Calm /\ [Next]_vars => Calm'
<1> SUFFICES ASSUME TypeOK, Calm, [Next]_vars PROVE Calm'
  OBVIOUS
<1>1. CASE UNCHANGED vars
  BY <1>1, StutterCalm
<1>2. ASSUME NEW p \in Posts, Load(p) PROVE Calm'
  BY <1>2, LoadCalm
<1>3. ASSUME NEW p \in Posts, LimitReached(p) PROVE Calm'
  BY <1>3, LimitCalm
<1>4. ASSUME NEW p \in Posts, Advance(p) PROVE Calm'
  <2>1. CASE \E u \in Uses : CallReturns(p, u)
    BY <2>1, ReturnCalm
  <2>2. CASE ClearPending(p)
    BY <2>2, ClearCalm
  <2>3. CASE Greet(p)
    BY <2>3, GreetCalm
  <2>4. CASE ProviderFails(p)
    BY <2>4, FailsCalm
  <2>5. CASE Reply(p)
    BY <2>5, ReplyCalm
  <2>6. CASE Remind(p)
    BY <2>6, RemindCalm
  <2>7. CASE Refuse(p)
    BY <2>7, RefuseCalm
  <2>8. CASE Pause(p)
    BY <2>8, PauseCalm
  <2>9. CASE GiveResults(p)
    BY <2>9, ResultsCalm
  <2>10. CASE Discard(p)
    BY <2>10, DiscardCalm
  <2> QED BY <1>4, <2>1, <2>2, <2>3, <2>4, <2>5, <2>6, <2>7, <2>8, <2>9, <2>10, NothingCut
          DEF Advance
<1> QED BY <1>1, <1>2, <1>3, <1>4, NothingCut DEF Next, Step

(* In a calm state the history stands.                                     *)
LEMMA CalmStands == ASSUME TypeOK, Calm PROVE HistoryStands
<1>1. History /\ Clean
  BY DEF Calm
<1>2. HistoryPaired
  <2> SUFFICES ASSUME NEW p \in Posts, turn[p].pc = "loop" PROVE Paired(turn[p].hist)
    BY DEF HistoryPaired
  <2>1. Work(turn[p])
    BY Only DEF Running
  <2>2. /\ turn[p].hist = log
        /\ turn[p].got = {} /\ turn[p].sent = {} /\ turn[p].hold = {} /\ pending = NoPending
    BY <2>1 DEF Work, Fates
  <2>3. TailUses = {}
    BY <2>1, <2>2, FatesEmpty DEF Work
  <2>4. ASSUME NEW i \in 1..Len(log), log[i].uses # {}
        PROVE  i < Len(log) /\ Answered(log[i + 1]) = log[i].uses
    <3>1. Len(log) \in Nat /\ log # <<>>
      BY DEF TypeOK
    <3>2. i # Len(log)
      BY <2>3, <2>4, <3>1 DEF TailUses
    <3>3. i < Len(log) /\ i + 1 \in 1..Len(log) /\ i + 1 # 1 /\ (i + 1) - 1 = i
      BY <3>1, <3>2
    <3>4. \A k \in 1..Len(log) : k # 1 => Answered(log[k]) = log[k - 1].uses
      BY <1>1 DEF History, Chain
    <3> QED BY <3>3, <3>4
  <2> QED BY <2>2, <2>4 DEF Paired
<1>3. PendingCoversTheTail
  BY DEF PendingCoversTheTail, Calm, Active, Rest, TailUses
<1>4. RequestsBounded
  <2> SUFFICES ASSUME NEW p \in Posts
               PROVE  Cardinality(Replies(turn[p].stored)) < MaxToolCalls + 3
    BY DEF RequestsBounded, Replies
  <2>1. Asked(turn[p]) /\ turn[p] \in Turn
    BY DEF Calm, TypeOK
  <2>2. PICK n : n = Cardinality(Replies(turn[p].stored))
    OBVIOUS
  <2>3. PICK t : t = turn[p].tools
    OBVIOUS
  <2>4. t \in Nat /\ MaxToolCalls \in Nat
    BY <2>1, <2>3, ConversationAssumption DEF Turn
  <2>5. n \in Nat
    <3>1. turn[p].stored \in Seq(Message)
      BY <2>1 DEF Turn
    <3>2. Replies(turn[p].stored) \subseteq 1..Len(turn[p].stored)
      BY <3>1 DEF Replies
    <3>3. IsFiniteSet(1..Len(turn[p].stored))
      BY <3>1, FS_Interval
    <3>4. IsFiniteSet(Replies(turn[p].stored))
      BY <3>2, <3>3, FS_Subset
    <3> QED BY <2>2, <3>4, FS_CardinalityType
  <2>6. CASE turn[p].pc \notin Running
    <3>1. Replies(turn[p].stored) = {}
      BY <2>1, <2>6 DEF Asked, Replies
    <3>2. n = 0
      BY <2>2, <3>1, FS_EmptySet
    <3> QED BY <2>2, <2>4, <3>2
  <2>7. CASE turn[p].pc \in Running \ {"refuse"}
    <3>1. PICK b : b = IF turn[p].reminded \/ turn[p].pc = "remind" THEN 1 ELSE 0
      OBVIOUS
    <3>2. t <= MaxToolCalls /\ n <= t + b /\ b \in {0, 1}
      BY <2>1, <2>2, <2>3, <2>7, <3>1 DEF Asked
    <3> QED BY <2>2, <2>4, <2>5, <3>2
  <2>8. CASE turn[p].pc = "refuse"
    BY <2>1, <2>2, <2>4, <2>5, <2>8 DEF Asked
  <2> QED BY <2>6, <2>7, <2>8
<1> QED BY <1>1, <1>2, <1>3, <1>4 DEF HistoryStands, History, Clean

(* Turns that follow one another and are not cut short leave a history a   *)
(* later turn can go on from: every tool_use is answered in the next       *)
(* message, truthfully, or pending; a failed text is gone; and no turn     *)
(* asked more often than its limit lets it (loop.py _step,                 *)
(* _settle_pending; chat_api.py _discard_unanswered).                      *)
THEOREM QuietHistory == ASSUME Quiet PROVE Spec => []HistoryStands
<1>1. Init => Inv /\ Calm
  BY InitInv, InitCalm
<1>2. Inv /\ Calm /\ [Next]_vars => (Inv /\ Calm)'
  BY NextInv, NextCalm DEF Inv
<1>3. Inv /\ Calm => HistoryStands
  BY CalmStands DEF Inv
<1> QED BY <1>1, <1>2, <1>3, PTL DEF Spec

(* A step leaves the calls as they are, stores a message that makes none,  *)
(* or, when none is open, stores one that makes new ones.                  *)
Same    == Issued' = Issued /\ TailUses' = TailUses
Answers == Issued' = Issued /\ TailUses' = {}
Asks    == TailUses = {} /\ \E calls \in SUBSET (Uses \ Issued) :
                               TailUses' = calls /\ Issued' = Issued \cup calls

LEMMA LogStays == ASSUME UNCHANGED log PROVE Same
BY DEF Same, Issued, TailUses

LEMMA LogGrows ==
  ASSUME TypeOK, NEW m \in Message, log' = Append(log, m)
  PROVE  Issued' = Issued \cup m.uses /\ TailUses' = m.uses
<1>1. Len(log) \in Nat /\ Len(log') = Len(log) + 1 /\ log'[Len(log) + 1] = m
  BY AppendProperties DEF TypeOK
<1>2. TailUses' = m.uses
  BY <1>1 DEF TailUses
<1> QED BY <1>2, IssuedAppend DEF TypeOK

LEMMA StoredAnswers ==
  ASSUME TypeOK, NEW p \in Posts, NEW role \in {"designer", "platform", "assistant"},
         NEW results \in SUBSET (Uses \X Said), NEW s, Store(p, role, {}, results, s)
  PROVE  Answers
<1>1. PICK m : m = [row |-> rows + 1, role |-> role, uses |-> {}, results |-> results]
  OBVIOUS
<1>2. m \in Message /\ m.uses = {} /\ log' = Append(log, m)
  BY <1>1 DEF TypeOK, Message, Store
<1> QED BY <1>2, LogGrows DEF Answers

LEMMA LogSteps ==
  ASSUME Quiet, TypeOK, Calm, [Next]_vars PROVE Same \/ Answers \/ Asks
<1>1. CASE UNCHANGED vars
  BY <1>1, LogStays DEF vars
<1>2. ASSUME NEW p \in Posts, Load(p) PROVE Same
  BY <1>2, LogStays DEF Load
<1>3. ASSUME NEW p \in Posts, LimitReached(p) PROVE Same
  BY <1>3, LogStays DEF LimitReached
<1>4. ASSUME NEW p \in Posts, Advance(p) PROVE Same \/ Answers \/ Asks
  <2>1. turn[p] \in Turn
    BY DEF TypeOK
  <2>2. turn[p].got \in SUBSET (Uses \X Said) /\ {} \in SUBSET (Uses \X Said)
    BY <2>1 DEF Turn
  <2>3. CASE \E u \in Uses : CallReturns(p, u)
    BY <2>3, LogStays DEF CallReturns
  <2>4. CASE ClearPending(p) \/ ProviderFails(p) \/ Pause(p)
    BY <2>4, LogStays DEF ClearPending, ProviderFails, Pause
  <2>5. CASE Greet(p)
    BY <2>2, <2>5, StoredAnswers DEF Greet
  <2>6. CASE Remind(p)
    BY <2>2, <2>6, StoredAnswers DEF Remind
  <2>7. CASE Refuse(p)
    BY <2>2, <2>7, StoredAnswers DEF Refuse
  <2>8. CASE GiveResults(p)
    BY <2>2, <2>8, StoredAnswers DEF GiveResults
  <2>9. CASE Reply(p)
    <3>1. PICK calls \in SUBSET (Uses \ Issued), idle \in BOOLEAN,
               stop \in {"tool_use", "end_turn", "refusal", "max_tokens"} :
            Store(p, "assistant", calls, {}, AfterReply(turn[p], calls, stop, idle))
      BY <2>9 DEF Reply
    <3>2. PICK m : m = [row |-> rows + 1, role |-> "assistant", uses |-> calls, results |-> {}]
      OBVIOUS
    <3>3. m \in Message /\ m.uses = calls /\ log' = Append(log, m)
      BY <3>1, <3>2 DEF TypeOK, Message, Store
    <3>4. TailUses' = calls /\ Issued' = Issued \cup calls
      BY <3>3, LogGrows
    <3>5. turn[p].pc = "loop" /\ Work(turn[p])
      BY <2>9, Only DEF Reply, Running
    <3>6. TailUses = {}
      BY <3>5, FatesEmpty DEF Work, Fates
    <3> QED BY <3>4, <3>6 DEF Asks
  <2>10. CASE Discard(p)
    <3>1. turn[p].pc = "failed" /\ Work(turn[p]) /\ Own(turn[p])
      BY <2>10, Only DEF Discard, Running
    <3>2. TailUses = {}
      BY <3>1, FatesEmpty DEF Work, Fates
    <3>3. CASE UNCHANGED log
      BY <3>3, LogStays
    <3>4. CASE ~(UNCHANGED log)
      <4>1. /\ Len(turn[p].stored) = 1 /\ turn[p].stored[1].results = {}
            /\ UNCHANGED <<rows, ran>>
        BY <2>10, <3>4 DEF Discard
      <4>2. PICK i \in 1..Len(log) : log[i] = turn[p].stored[1] /\ log' = RemoveAt(log, i)
        BY <2>10, <4>1 DEF Discard
      <4>3. log # <<>> /\ log[i] = log[Len(log)] /\ log[Len(log)].results = {}
        BY <3>1, <4>1, <4>2 DEF Own
      <4>4. Issued' = Issued /\ TailUses' = {}
        BY <3>2, <4>1, <4>2, <4>3, HistoryDrops DEF Calm
      <4> QED BY <4>4 DEF Answers
    <3> QED BY <3>3, <3>4
  <2> QED BY <1>4, <2>3, <2>4, <2>5, <2>6, <2>7, <2>8, <2>9, <2>10, NothingCut DEF Advance
<1> QED BY <1>1, <1>2, <1>3, <1>4, NothingCut DEF Next, Step

(* The calls without an answer are those of the last message.              *)
LEMMA TailIsOpen ==
  ASSUME TypeOK, History PROVE Closed = Issued \ TailUses /\ TailUses \subseteq Issued
<1>1. Len(log) \in Nat
  BY DEF TypeOK
<1>2. ASSUME NEW u \in Closed PROVE u \in Issued /\ u \notin TailUses
  <2>1. PICK i \in 1..Len(log) : u \in Answered(log[i])
    BY DEF Closed
  <2>2. i # 1 /\ u \in log[i - 1].uses
    BY <2>1 DEF History, Chain
  <2>3. i - 1 \in 1..Len(log) /\ i - 1 # Len(log) /\ Len(log) \in 1..Len(log) /\ log # <<>>
    BY <1>1, <2>2
  <2>4. u \in Issued
    BY <2>2, <2>3 DEF Issued
  <2>5. u \notin log[Len(log)].uses
    BY <2>2, <2>3 DEF History, Distinct
  <2> QED BY <2>3, <2>4, <2>5 DEF TailUses
<1>3. ASSUME NEW u \in Issued, u \notin TailUses PROVE u \in Closed
  <2>1. PICK k \in 1..Len(log) : u \in log[k].uses
    BY DEF Issued
  <2>2. k # Len(log) /\ log # <<>>
    BY <1>1, <1>3, <2>1 DEF TailUses
  <2>3. k + 1 \in 1..Len(log) /\ k + 1 # 1 /\ (k + 1) - 1 = k
    BY <1>1, <2>2
  <2>4. \A i \in 1..Len(log) : i # 1 => Answered(log[i]) = log[i - 1].uses
    BY DEF History, Chain
  <2>5. u \in Answered(log[k + 1])
    BY <2>1, <2>3, <2>4
  <2> QED BY <2>3, <2>5 DEF Closed
<1>4. TailUses \subseteq Issued
  <2> SUFFICES ASSUME NEW u \in TailUses PROVE u \in Issued
    OBVIOUS
  <2>1. Len(log) \in 1..Len(log) /\ u \in log[Len(log)].uses
    BY <1>1 DEF TailUses
  <2> QED BY <2>1 DEF Issued
<1> QED BY <1>2, <1>3, <1>4

Life == [u \in Uses |-> IF u \in Closed THEN "closed"
                        ELSE IF u \in Issued THEN "open" ELSE "new"]

LEMMA LifeStep ==
  ASSUME TypeOK, History, TypeOK', History', Same \/ Answers \/ Asks
  PROVE  [Dialogue!Next]_Life
<1>1. Closed = Issued \ TailUses /\ TailUses \subseteq Issued
  BY TailIsOpen
<1>2. Closed' = Issued' \ TailUses' /\ TailUses' \subseteq Issued'
  <2>1. (Closed = Issued \ TailUses /\ TailUses \subseteq Issued)'
    BY TailIsOpen, PTL
  <2> QED BY <2>1
<1>3. Dialogue!Open = TailUses \cap Uses
  BY <1>1 DEF Dialogue!Open
<1>4. CASE Same
  BY <1>1, <1>2, <1>4 DEF Same, Life
<1>5. CASE Answers
  <2>1. Dialogue!Answer
    BY <1>1, <1>2, <1>3, <1>5 DEF Answers, Dialogue!Answer
  <2> QED BY <2>1 DEF Dialogue!Next
<1>6. CASE Asks
  <2>1. PICK calls \in SUBSET (Uses \ Issued) : TailUses' = calls /\ Issued' = Issued \cup calls
    BY <1>6 DEF Asks
  <2>2. Dialogue!Ask
    BY <1>1, <1>2, <1>3, <1>6, <2>1 DEF Asks, Dialogue!Ask
  <2> QED BY <2>2 DEF Dialogue!Next
<1> QED BY <1>4, <1>5, <1>6

(* Turns that follow one another and are not cut short keep the promise of *)
(* ToolDialogue: the calls of one reply are answered all together, by one  *)
(* message, and the model is not asked again before they are (loop.py      *)
(* _step, _settle_pending).                                                *)
THEOREM QuietDialogue == ASSUME Quiet PROVE Spec => ImplementsDialogue
<1>1. Init => Dialogue!Init
  <2> SUFFICES ASSUME Init PROVE Dialogue!Init
    OBVIOUS
  <2>1. Closed = {} /\ Issued = {}
    BY DEF Init, Closed, Issued
  <2> QED BY <2>1 DEF Dialogue!Init
<1>2. Init => Inv /\ Calm
  BY InitInv, InitCalm
<1>3. Inv /\ Calm /\ [Next]_vars => (Inv /\ Calm)'
  BY NextInv, NextCalm DEF Inv
<1>4. Inv /\ Calm /\ [Next]_vars => [Dialogue!Next]_Life
  <2> SUFFICES ASSUME Inv, Calm, [Next]_vars PROVE [Dialogue!Next]_Life
    OBVIOUS
  <2>1. TypeOK /\ TypeOK' /\ History /\ History'
    BY <1>3 DEF Inv, Calm
  <2> QED BY <2>1, LogSteps, LifeStep DEF Inv
<1> QED BY <1>1, <1>2, <1>3, <1>4, PTL DEF Spec, ImplementsDialogue, Dialogue!Spec, Life
=============================================================================
