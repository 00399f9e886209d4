--------------------------- MODULE EvaluationProofs ---------------------------
(***************************************************************************)
(* Proofs about Evaluation for every number of designs, calls and versions *)
(* of the verifier: the states are well typed, what a caller was told is   *)
(* stored, a session counts as simulated or reported only for the design   *)
(* it has, a state is lost only for a reason and what is advised regains   *)
(* it, and nothing is evaluated before it is verified.                     *)
(***************************************************************************)
EXTENDS EvaluationRefinement, TLAPS

Evaluating == Sims \cup {"render"}

(* Of one call: what a simulation or a report refers to is a stored        *)
(* verification of its own design, and how far its job has come agrees     *)
(* with what the call did and with the report's row.                       *)
Referred(c) ==
  /\ call[c].tool \in Evaluating => call[c].ref \in Stored /\ call[c].ref[1] = call[c].design
  /\ call[c].tool = "verify" /\ call[c].at = "over" /\ call[c].of = None => call[c].ref \in Stored
  /\ call[c].tool = "verify" => call[c].ref \in Refs
Staged(c) ==
  /\ call[c].at = "checked" => call[c].tool = "render"
  /\ call[c].at \in {"verifying", "saving"} => call[c].tool = "verify"
  /\ call[c].at \in {"replacing", "recording", "pushing"} => call[c].tool \in Sims
  /\ job[c] # "none" => call[c].tool \in Evaluating /\ call[c].at = "over"
  /\ job[c] \in {"read", "saved"} => call[c].tool = "render"
Filed(c) ==
  /\ job[c] = "saved" => report[c] # "none"
  /\ report[c] # "none" => call[c].tool = "render" /\ job[c] # "none"
  /\ call[c].tool = "render" /\ job[c] = "finished" => report[c] # "none"
  /\ report[c] = "published" => job[c] = "finished"

(* A call that shares a run has no run of its own, and waits for that of a *)
(* call with the same tool, which is over when the call is.                *)
Linked(c) ==
  /\ call[c].at = "joined" => call[c].of # None
  /\ call[c].of # None =>
       /\ call[c].at \in {"joined", "over", "error"}
       /\ call[call[c].of].of = None
       /\ call[call[c].of].at \in Running \cup {"over", "error"}
       /\ call[call[c].of].at # "error" => call[call[c].of].tool = call[c].tool
       /\ call[c].at = "over" => call[call[c].of].at = "over"

(* A call that was given the id of a simulation was given one that is      *)
(* recorded, and a shared job is recorded before it is queued.             *)
Answered(c) ==
  /\ call[c].tool \in Sims /\ call[c].at = "over" /\ call[c].of = None =>
       job[c] # "none" \/ seeded[SeedOf(c)].row # "none"
  /\ call[c].at = "pushing" => seeded[SeedOf(c)].row # "none"

(* Of one shared job: what is recorded was asked for with the reference of *)
(* its design, which is stored; nothing runs that is not recorded.         *)
Pooled(s) ==
  /\ seeded[s].row # "none" => s[2] \in Stored /\ s[2][1] = seeded[s].design
  /\ seeded[s].rq # "none" \/ seeded[s].left > 0 => seeded[s].row # "none"

IInv ==
  /\ TypeOK
  /\ \A c \in Calls : Referred(c) /\ Staged(c) /\ Filed(c) /\ Linked(c)
  /\ \A c \in Calls : Answered(c)
  /\ \A s \in Seeded : Pooled(s)


------------------------------------------------------------------------------
(* Steps of one call, and the rows that only grow.                         *)

(* A new status of a call leaves everything else about the calls as it is. *)
LEMMA SetCallShape ==
  ASSUME TypeOK, NEW c \in Calls, NEW at \in Ats, SetCall(c, at)
  PROVE  /\ call' \in [Calls -> Call]
         /\ call'[c].at = at /\ call'[c].tool = call[c].tool
         /\ call'[c].ref = call[c].ref /\ call'[c].design = call[c].design
         /\ call'[c].of = call[c].of
         /\ \A k \in Calls \ {c} : call'[k] = call[k]
<1> DEFINE new == [call[c] EXCEPT !.at = at, !.shared = (call[c].shared /\ at # "over")]
<1>1. call[c] \in Call /\ call \in [Calls -> Call]
  BY DEF TypeOK
<1>2. /\ new \in Call /\ new.at = at /\ new.tool = call[c].tool
      /\ new.ref = call[c].ref /\ new.design = call[c].design /\ new.of = call[c].of
  BY <1>1 DEF Call
<1>3. call' = [call EXCEPT ![c] = new]
  BY DEF SetCall
<1> HIDE DEF new
<1>4. call'[c] = new /\ \A k \in Calls \ {c} : call'[k] = call[k]
  BY <1>1, <1>3
<1>5. call' \in [Calls -> Call]
  BY <1>1, <1>2, <1>3
<1> QED
  BY <1>2, <1>4, <1>5

(* A call that ended without effect is like one that was never made.       *)
LEMMA BlankShape ==
  ASSUME NEW at \in Ats
  PROVE  /\ Blank(at) \in Call /\ Blank(at).at = at /\ Blank(at).tool = None
         /\ Blank(at).tool \notin Evaluating /\ Blank(at).tool # "verify" /\ Blank(at).of = None
<1>1. None # "verify" /\ None \notin Evaluating
  BY EvaluationAssumption, Zenon DEF EvaluationAssumption, Evaluating, Sims
<1>2. /\ Blank(at).at = at /\ Blank(at).tool = None /\ Blank(at).of = None
  BY DEF Blank
<1>4. [at |-> at, tool |-> None, design |-> None, ref |-> None, open |-> FALSE, of |-> None, shared |-> FALSE] \in Call
  BY DEF Call, Ats
<1>5. Blank(at) \in Call
  BY <1>4 DEF Blank
<1> QED
  BY <1>1, <1>2, <1>5

(* An inserted verification joins the stored ones.                         *)
LEMMA StoredGrows ==
  ASSUME TypeOK, NEW r \in Refs, checks' = Append(checks, r)
  PROVE  checks' \in Seq(Refs) /\ Stored' = Stored \cup {r}
<1>1. checks \in Seq(Refs)
  BY DEF TypeOK
<1>2. /\ Len(checks') = Len(checks) + 1 /\ checks'[Len(checks) + 1] = r
      /\ \A n \in 1..Len(checks) : checks'[n] = checks[n]
      /\ Len(checks) \in Nat /\ checks' \in Seq(Refs)
  BY <1>1
<1> QED
  BY <1>2 DEF Stored

(* The newest verification of a design is a stored one of that design.     *)
LEMMA LatestIsStored ==
  ASSUME NEW d, NEW r \in LatestCheck(d)
  PROVE  r \in Stored /\ r[1] = d
BY DEF LatestCheck, ChecksOf, Stored

LEMMA StoredAreRefs ==
  ASSUME TypeOK
  PROVE  Stored \subseteq Refs
BY DEF TypeOK, Stored

(* The id that a call for a simulation shares.                             *)
LEMMA SeedTyped ==
  ASSUME IInv, NEW c \in Calls, call[c].tool \in Sims
  PROVE  SeedOf(c) \in Seeded /\ SeedOf(c)[2] = call[c].ref
BY StoredAreRefs DEF IInv, Referred, Evaluating, SeedOf, Seeded

(* How a step may leave the shared jobs: recorded ones stay recorded.      *)
Pools ==
  /\ seeded' \in [Seeded -> Shared]
  /\ \A s \in Seeded : Pooled(s)'
  /\ \A s \in Seeded : seeded[s].row # "none" => seeded'[s].row # "none"

LEMMA PoolsRest ==
  ASSUME IInv, UNCHANGED seeded, Stored \subseteq Stored'
  PROVE  Pools
BY DEF IInv, TypeOK, Pools, Pooled

(* A call that stays as it is, whose job stays, is still answered.         *)
LEMMA AnsweredRest ==
  ASSUME IInv, Pools, NEW k \in Calls, call'[k] = call[k],
         job[k] # "none" => job'[k] # "none"
  PROVE  Answered(k)'
<1>1. Answered(k) /\ SeedOf(k)' = SeedOf(k)
  BY DEF IInv, SeedOf
<1>2. call[k].tool \in Sims => SeedOf(k) \in Seeded
  BY SeedTyped
<1>3. call[k].at = "pushing" => call[k].tool \in Sims
  BY DEF IInv, Staged
<1> QED
  BY <1>1, <1>2, <1>3 DEF Answered, Pools

(* What a report is made of is well typed.                                 *)
LEMMA SeenTyped ==
  ASSUME TypeOK, NEW c \in Calls
  PROVE  Seen(c) \in Evidence
<1>1. finished \in Seq(Jobs) /\ verifier \in 1..MaxVersion /\ design \in Designs \cup {None}
  BY DEF TypeOK
<1>2. LatestSim(call[c].ref) \subseteq Jobs
  BY <1>1 DEF LatestSim, SimsOf
<1>3. verifier \in 0..MaxVersion
  BY <1>1, EvaluationAssumption DEF EvaluationAssumption
<1> QED
  BY <1>1, <1>2, <1>3 DEF Seen, Evidence

LEMMA InitIInv == Init => IInv
<1> SUFFICES ASSUME Init PROVE IInv
  OBVIOUS
<1>1. Blank("idle") \in Call /\ Nothing \in Evidence
  BY BlankShape, EvaluationAssumption DEF Ats, Nothing, Evidence, EvaluationAssumption
<1>2. TypeOK
  BY <1>1, EvaluationAssumption DEF Init, TypeOK, EvaluationAssumption, NoJob, Shared
<1>3. ASSUME NEW c \in Calls PROVE Referred(c) /\ Staged(c) /\ Filed(c) /\ Linked(c) /\ Answered(c)
  <2>1. /\ call[c].at = "idle" /\ call[c].of = None /\ call[c].tool \notin Evaluating /\ call[c].tool # "verify"
        /\ job[c] = "none" /\ report[c] = "none"
    BY BlankShape DEF Init, Ats
  <2> QED
    BY <2>1 DEF Referred, Staged, Filed, Linked, Answered
<1>4. \A s \in Seeded : Pooled(s)
  BY DEF Init, NoJob, Pooled
<1> QED
  BY <1>2, <1>3, <1>4 DEF IInv


------------------------------------------------------------------------------
(* The steps of a call, one lemma each.                                    *)

(* How a call may move without disturbing those that wait for it.          *)
Moves(k) ==
  \/ call'[k] = call[k]
  \/ call[k].at \in Busy /\ call'[k].of = None /\ call'[k].at = "error"
  \/ /\ call[k].at \in Running /\ call'[k].at \in Running \cup {"over", "error"}
     /\ call'[k].of = None /\ call'[k].tool = call[k].tool
  \/ call[k].at \in {"idle", "reading", "joined"} /\ Linked(k)'

LEMMA LinkedStep ==
  ASSUME IInv, \A k \in Calls : Moves(k)
  PROVE  \A k \in Calls : Linked(k)'
<1> TAKE k \in Calls
<1> DEFINE w == call[k].of
<1>1. CASE call'[k] = call[k]
  <2>1. SUFFICES ASSUME w # None PROVE Linked(k)'
    BY <1>1 DEF IInv, Linked
  <2>2. /\ w \in Calls
        /\ call[k].at \in {"joined", "over", "error"} /\ call[w].of = None
        /\ call[w].at \in Running \cup {"over", "error"}
        /\ call[w].at # "error" => call[w].tool = call[k].tool
        /\ call[k].at = "over" => call[w].at = "over"
    BY <2>1 DEF IInv, Linked, TypeOK, Call
  <2> HIDE DEF w
  <2>3. /\ call'[w].of = None /\ call'[w].at \in Running \cup {"over", "error"}
        /\ call'[w].at # "error" => call'[w].tool = call[k].tool
        /\ call[k].at = "over" => call'[w].at = "over"
    BY <2>2 DEF Moves, Running, Busy
  <2>4. call'[k].of = w /\ call'[k].at = call[k].at /\ call'[k].tool = call[k].tool
    BY <1>1 DEF w
  <2> QED
    BY <2>1, <2>2, <2>3, <2>4 DEF Linked
<1>2. CASE call'[k].of = None /\ call'[k].at # "joined"
  BY <1>2 DEF Linked
<1> QED
  BY <1>1, <1>2 DEF Moves, Running

LEMMA AdmitStep ==
  ASSUME IInv, NEW c \in Calls, NEW at \in {"started", "joined"}, NEW of \in Calls \cup {None},
         Ready(c), Admit(c, at, of), at = "started" <=> of = None,
         of # None => call[of].at \in Running
  PROVE  IInv'
<1>1. PICK tool \in Tools, givenDesign \in Designs \cup {None}, givenRef \in Stored \cup {None},
           override \in BOOLEAN, seen \in OpenSeen(c) :
        LET d == SpecOf(c, givenDesign)
            bySession == c \notin Stateless /\ givenDesign = None /\ givenRef = None IN
        \E r \in IF tool \in {"verify", "record"} THEN {None} ELSE RefsOf(c, givenRef) :
          /\ Takes(tool, givenDesign, givenRef)
          /\ Allowed(c, tool, d, r, override, seen)
          /\ of # None => bySession /\ call[of].tool = tool
          /\ call' = [call EXCEPT ![c] =
               [at |-> at, tool |-> tool, design |-> d,
                ref |-> IF tool = "verify" THEN <<d, verifier>> ELSE r,
                open |-> (tool = "record" /\ seen), of |-> of, shared |-> (bySession /\ of = None)]]
          /\ UNCHANGED <<design, open, verifier, checks, job, seeded, finished, checked, shows, report>>
  BY DEF Admit
<1> DEFINE d == SpecOf(c, givenDesign)
           shared == c \notin Stateless /\ givenDesign = None /\ givenRef = None /\ of = None
<1>2. PICK r \in IF tool \in {"verify", "record"} THEN {None} ELSE RefsOf(c, givenRef) :
          /\ Allowed(c, tool, d, r, override, seen)
          /\ of # None => call[of].tool = tool
          /\ call' = [call EXCEPT ![c] =
               [at |-> at, tool |-> tool, design |-> d,
                ref |-> IF tool = "verify" THEN <<d, verifier>> ELSE r,
                open |-> (tool = "record" /\ seen), of |-> of, shared |-> shared]]
          /\ UNCHANGED <<design, open, verifier, checks, job, seeded, finished, checked, shows, report>>
  BY <1>1
<1> DEFINE ref == IF tool = "verify" THEN <<d, verifier>> ELSE r
           asked == (tool = "record" /\ seen)
           new == [at |-> at, tool |-> tool, design |-> d, ref |-> ref,
                   open |-> asked, of |-> of, shared |-> shared]
<1>3. call \in [Calls -> Call] /\ call[c] \in Call /\ call[c].at \in {"idle", "reading"}
  BY DEF IInv, TypeOK, Ready
<1>4. d \in Designs \cup {None}
  BY <1>3 DEF SpecOf, Call
<1>5. tool # "verify" => r \in Stored \cup {None}
  BY <1>2, LatestIsStored DEF RefsOf
<1>6. tool = "verify" => d \in Designs /\ ref \in Refs
  <2>1. tool = "verify" => d # None
    BY <1>2 DEF Allowed
  <2>2. verifier \in 1..MaxVersion
    BY DEF IInv, TypeOK
  <2> QED
    BY <1>4, <2>1, <2>2 DEF Refs
<1>7. tool \in Evaluating => d # None /\ ref # None /\ ref = <<d, verifier>>
  BY <1>2 DEF Allowed, Matches, Evaluating, Sims
<1>8. ref \in Refs \cup {None}
  BY <1>5, <1>6, StoredAreRefs DEF IInv
<1>9. asked \in BOOLEAN /\ shared \in BOOLEAN
  OBVIOUS
<1>10. tool \in Evaluating => ref \in Stored /\ ref[1] = d
  <2>1. tool \in Evaluating => tool # "verify"
    BY DEF Evaluating, Sims
  <2> QED
    BY <1>5, <1>7, <2>1
<1>11. call' = [call EXCEPT ![c] = new]
  BY <1>2
<1> HIDE DEF d, ref, asked, shared
<1>23. at \in Ats
  BY DEF Ats, Busy, Running
<1>12. new \in Call /\ new.at = at /\ new.tool = tool /\ new.ref = ref /\ new.design = d /\ new.of = of
  BY <1>3, <1>4, <1>8, <1>9, <1>23 DEF Call
<1> HIDE DEF new
<1>13. call' \in [Calls -> Call] /\ call'[c] = new /\ \A k \in Calls \ {c} : call'[k] = call[k]
  BY <1>3, <1>11, <1>12
<1>14. UNCHANGED <<design, open, verifier, checks, job, seeded, finished, checked, shows, report>> /\ Stored' = Stored
  BY <1>2 DEF Stored
<1>15. TypeOK'
  BY <1>13, <1>14 DEF IInv, TypeOK
<1>16. job[c] = "none" /\ report[c] = "none"
  BY <1>3 DEF IInv, Staged, Filed
<1>17. ASSUME NEW k \in Calls PROVE (Referred(k) /\ Staged(k) /\ Filed(k))'
  <2>1. CASE k = c
    <3>1. Referred(c)'
      BY <1>6, <1>10, <1>12, <1>13, <1>14 DEF Referred
    <3>2. Staged(c)' /\ Filed(c)'
      BY <1>12, <1>13, <1>14, <1>16 DEF Staged, Filed
    <3> QED
      BY <2>1, <3>1, <3>2
  <2>2. CASE k # c
    <3>1. call'[k] = call[k]
      BY <1>13, <2>2
    <3>2. Referred(k)'
      BY <1>14, <3>1 DEF IInv, Referred
    <3>3. Staged(k)' /\ Filed(k)'
      BY <1>14, <3>1 DEF IInv, Staged, Filed
    <3> QED
      BY <3>2, <3>3
  <2> QED
    BY <2>1, <2>2
<1>18. Linked(c)'
  <2>1. SUFFICES ASSUME of # None PROVE Linked(c)'
    BY <1>12, <1>13 DEF Linked
  <2>2. of \in Calls /\ of # c /\ call[of].at \in Running /\ call[of].tool = tool
    BY <1>2, <1>3, <2>1 DEF Running
  <2>3. call[of].of = None
    BY <2>2 DEF IInv, Linked, Running
  <2> QED
    BY <1>12, <1>13, <2>1, <2>2, <2>3 DEF Linked, Running
<1>19. \A k \in Calls : Linked(k)'
  BY <1>3, <1>13, <1>18, LinkedStep DEF Moves
<1>20. Pools
  BY <1>14, PoolsRest
<1>21. Answered(c)'
  BY <1>12, <1>13 DEF Answered
<1>22. \A k \in Calls : Answered(k)'
  BY <1>13, <1>14, <1>20, <1>21, AnsweredRest
<1> QED
  BY <1>15, <1>17, <1>19, <1>20, <1>22 DEF IInv, Pools

LEMMA StartStep ==
  ASSUME IInv, NEW c \in Calls, Start(c) \/ Join(c)
  PROVE  IInv'
<1>1. CASE Start(c)
  BY <1>1, AdmitStep DEF Start
<1>2. CASE Join(c)
  <2>1. None \notin Calls
    BY EvaluationAssumption DEF EvaluationAssumption
  <2> QED
    BY <1>2, <2>1, AdmitStep DEF Join
<1> QED
  BY <1>1, <1>2

(* A call begins to read, or the run it waits for has ended.               *)
LEMMA WaitStep ==
  ASSUME IInv, NEW c \in Calls, Read(c) \/ JoinEnds(c)
  PROVE  IInv'
<1>1. /\ UNCHANGED <<design, open, verifier, checks, job, seeded, finished, checked, shows, report>>
      /\ Stored' = Stored /\ call \in [Calls -> Call] /\ design \in Designs \cup {None}
  BY DEF IInv, TypeOK, Stored, Read, JoinEnds
<1>2. ASSUME NEW new \in Call, call' = [call EXCEPT ![c] = new], Linked(c)',
             call[c].at \in {"idle", "joined"},
             new.at \in {"reading", "over"}, new.at = "over" => new.of # None,
             new.at = "reading" => new.tool = None,
             new.at = "over" => new.tool = call[c].tool /\ new.ref = call[c].ref /\ new.design = call[c].design
      PROVE  IInv'
  <2>1. call' \in [Calls -> Call] /\ call'[c] = new /\ \A k \in Calls \ {c} : call'[k] = call[k]
    BY <1>1, <1>2
  <2>2. TypeOK'
    BY <1>1, <2>1 DEF IInv, TypeOK
  <2>3. \A k \in Calls : Linked(k)'
    BY <1>2, <2>1, LinkedStep DEF Moves
  <2>4. None # "verify" /\ None \notin Evaluating
    BY EvaluationAssumption, Zenon DEF EvaluationAssumption, Evaluating, Sims
  <2>5. Referred(c)'
    <3>1. CASE new.at = "reading"
      BY <1>2, <2>1, <2>4, <3>1 DEF Referred
    <3>2. CASE new.at = "over"
      BY <1>1, <1>2, <2>1, <3>2 DEF IInv, Referred
    <3> QED
      BY <1>2, <3>1, <3>2
  <2>6. job[c] = "none" /\ report[c] = "none"
    BY <1>2 DEF IInv, Staged, Filed
  <2>7. Staged(c)' /\ Filed(c)'
    BY <1>1, <1>2, <2>1, <2>6 DEF Staged, Filed
  <2>8. ASSUME NEW k \in Calls \ {c} PROVE (Referred(k) /\ Staged(k) /\ Filed(k))'
    BY <1>1, <2>1, <2>8 DEF IInv, Referred, Staged, Filed
  <2>9. Pools
    BY <1>1, PoolsRest
  <2>10. Answered(c)'
    BY <1>2, <2>1 DEF Answered
  <2>11. \A k \in Calls : Answered(k)'
    BY <1>1, <2>1, <2>9, <2>10, AnsweredRest
  <2> QED
    BY <2>2, <2>3, <2>5, <2>7, <2>8, <2>9, <2>11 DEF IInv, Pools
<1>3. CASE Read(c)
  <2> DEFINE new == [Blank("reading") EXCEPT !.design = design]
  <2>1. Blank("reading") \in Call /\ Blank("reading").tool = None /\ Blank("reading").of = None
    BY BlankShape DEF Ats, Busy
  <2>2. new \in Call /\ new.at = "reading" /\ new.tool = None /\ new.of = None
    BY <1>1, <2>1 DEF Call, Blank
  <2>3. call' = [call EXCEPT ![c] = new] /\ call[c].at = "idle"
    BY <1>3 DEF Read
  <2> HIDE DEF new
  <2>4. Linked(c)'
    BY <1>1, <2>2, <2>3 DEF Linked
  <2> QED
    BY <1>2, <2>2, <2>3, <2>4
<1>4. CASE JoinEnds(c)
  <2> DEFINE new == [call[c] EXCEPT !.at = "over", !.shared = (call[c].shared /\ "over" # "over")]
  <2>1. call[c] \in Call /\ call[c].at = "joined" /\ call[call[c].of].at = "over"
    BY <1>1, <1>4 DEF JoinEnds
  <2>2. call[c].of # None /\ call[c].of \in Calls
    BY <2>1 DEF IInv, Linked, Call
  <2>3. new \in Call /\ new.at = "over" /\ new.tool = call[c].tool /\ new.ref = call[c].ref
        /\ new.design = call[c].design /\ new.of = call[c].of
    BY <2>1 DEF Call, Ats, Busy
  <2>4. call' = [call EXCEPT ![c] = new]
    BY <1>4 DEF JoinEnds, SetCall
  <2> HIDE DEF new
  <2>5. Linked(c)'
    BY <1>1, <2>1, <2>2, <2>3, <2>4 DEF IInv, Linked
  <2> QED
    BY <1>2, <2>1, <2>2, <2>3, <2>4, <2>5
<1> QED
  BY <1>3, <1>4

JobStates == {"none", "queued", "read", "saved", "finished", "failed"}

(* A busy call moves on: it may have stored a verification or queued a job.*)
LEMMA CallStep ==
  ASSUME IInv, NEW c \in Calls, NEW at \in Ats, SetCall(c, at),
         call[c].at \in Running, at \in Running \cup {"over", "error"},
         UNCHANGED <<design, open, verifier, finished, shows, report>>,
         checks' \in Seq(Refs), Stored \subseteq Stored', checked' \in [Calls -> Evidence],
         Pools, at \in {"replacing", "recording", "pushing"} => call[c].tool \in Sims,
         at = "pushing" => seeded'[SeedOf(c)].row # "none",
         call[c].tool \in Sims /\ at = "over" =>
           job' = [job EXCEPT ![c] = "queued"] \/ seeded'[SeedOf(c)].row # "none",
         at = "checked" => call[c].tool = "render",
         at \in {"verifying", "saving"} => call[c].tool = "verify",
         call[c].tool = "verify" /\ at = "over" => call[c].ref \in Stored',
         \/ UNCHANGED job
         \/ job' = [job EXCEPT ![c] = "queued"] /\ at = "over" /\ call[c].tool \in Evaluating
  PROVE  IInv'
<1>1. /\ call' \in [Calls -> Call]
      /\ call'[c].at = at /\ call'[c].tool = call[c].tool
      /\ call'[c].ref = call[c].ref /\ call'[c].design = call[c].design /\ call'[c].of = call[c].of
      /\ \A k \in Calls \ {c} : call'[k] = call[k]
  BY SetCallShape DEF IInv
<1>2. job \in [Calls -> JobStates]
  BY DEF IInv, TypeOK, JobStates
<1>3. /\ job' \in [Calls -> JobStates] /\ \A k \in Calls \ {c} : job'[k] = job[k]
      /\ job'[c] = job[c] \/ (job'[c] = "queued" /\ at = "over" /\ call[c].tool \in Evaluating)
  BY <1>2 DEF JobStates
<1>4. job[c] = "none" /\ report[c] = "none"
  <2>1. call[c].at # "over"
    BY DEF Running
  <2> QED
    BY <2>1 DEF IInv, Staged, Filed
<1>5. TypeOK'
  BY <1>1, <1>3 DEF IInv, TypeOK, JobStates, Pools
<1>6. ASSUME NEW k \in Calls PROVE (Referred(k) /\ Staged(k) /\ Filed(k))'
  <2>1. CASE k = c
    <3>1. Referred(c)'
      BY <1>1 DEF IInv, Referred
    <3>2. Staged(c)' /\ Filed(c)'
      BY <1>1, <1>3, <1>4 DEF Staged, Filed
    <3> QED
      BY <2>1, <3>1, <3>2
  <2>2. CASE k # c
    <3>1. call'[k] = call[k] /\ job'[k] = job[k] /\ report'[k] = report[k]
      BY <1>1, <1>3, <2>2
    <3>2. Referred(k)'
      BY <3>1 DEF IInv, Referred
    <3>3. Staged(k)' /\ Filed(k)'
      BY <3>1 DEF IInv, Staged, Filed
    <3> QED
      BY <3>2, <3>3
  <2> QED
    BY <2>1, <2>2
<1>7. call[c].of = None
  BY DEF IInv, Linked, Running
<1>8. \A k \in Calls : Linked(k)'
  BY <1>1, <1>7, LinkedStep DEF Moves
<1>9. Answered(c)'
  <2>1. SeedOf(c)' = SeedOf(c)
    BY <1>1 DEF SeedOf
  <2>2. job' = [job EXCEPT ![c] = "queued"] => job'[c] # "none"
    BY <1>2
  <2> QED
    BY <1>1, <2>1, <2>2 DEF Answered
<1>10. \A k \in Calls : Answered(k)'
  BY <1>1, <1>3, <1>9, AnsweredRest
<1> QED
  BY <1>5, <1>6, <1>8, <1>10 DEF IInv, Pools

(* A job, or its report's row, moves on.                                   *)
LEMMA JobStep ==
  ASSUME IInv, NEW c \in Calls, NEW js \in JobStates, NEW row \in {"none", "draft", "published"},
         UNCHANGED <<design, open, verifier, checks, call, seeded, checked>>,
         finished' \in Seq(Jobs), shows' \in [Calls -> Evidence],
         job' = [job EXCEPT ![c] = js], report' = [report EXCEPT ![c] = row],
         job[c] # "none", js # "none", js \in {"read", "saved"} => call[c].tool = "render",
         js = "saved" => row # "none", row # "none" => call[c].tool = "render",
         call[c].tool = "render" /\ js = "finished" => row # "none",
         row = "published" => js = "finished"
  PROVE  IInv'
<1>1. job \in [Calls -> JobStates] /\ report \in [Calls -> {"none", "draft", "published"}]
  BY DEF IInv, TypeOK, JobStates
<1>2. /\ job' \in [Calls -> JobStates] /\ report' \in [Calls -> {"none", "draft", "published"}]
      /\ job'[c] = js /\ report'[c] = row
      /\ \A k \in Calls \ {c} : job'[k] = job[k] /\ report'[k] = report[k]
  BY <1>1
<1>3. Stored' = Stored
  BY DEF Stored
<1>4. TypeOK'
  BY <1>2 DEF IInv, TypeOK, JobStates
<1>5. ASSUME NEW k \in Calls PROVE (Referred(k) /\ Staged(k) /\ Filed(k))'
  <2>1. Referred(k)'
    BY <1>3 DEF IInv, Referred
  <2>2. CASE k = c
    BY <1>2, <2>1, <2>2 DEF IInv, Staged, Filed
  <2>3. CASE k # c
    BY <1>2, <2>1, <2>3 DEF IInv, Staged, Filed
  <2> QED
    BY <2>2, <2>3
<1>6. \A k \in Calls : Linked(k)'
  BY LinkedStep DEF Moves
<1>7. Pools
  BY <1>3, PoolsRest
<1>8. \A k \in Calls : Answered(k)'
  BY <1>2, <1>7, AnsweredRest
<1> QED
  BY <1>4, <1>5, <1>6, <1>7, <1>8 DEF IInv, Pools

(* The session's design, or the version of the verifier, changes.          *)
LEMMA OtherStep ==
  ASSUME IInv, design' \in Designs \cup {None}, open' \in BOOLEAN, verifier' \in 1..MaxVersion,
         UNCHANGED <<checks, job, seeded, finished, checked, shows, report>>,
         call' \in [Calls -> Call],
         \A k \in Calls :
           \/ call'[k] = call[k]
           \/ call[k].at \in Busy /\ call'[k].at \in {"over", "error"}
              /\ call'[k].tool \notin Evaluating /\ call'[k].tool # "verify"
              /\ Moves(k)
  PROVE  IInv'
<1>1. Stored' = Stored
  BY DEF Stored
<1>2. TypeOK'
  BY DEF IInv, TypeOK
<1>3. ASSUME NEW k \in Calls PROVE (Referred(k) /\ Staged(k) /\ Filed(k))'
  <2>1. CASE call'[k] = call[k]
    <3>1. Referred(k)'
      BY <1>1, <2>1 DEF IInv, Referred
    <3>2. Staged(k)' /\ Filed(k)'
      BY <2>1 DEF IInv, Staged, Filed
    <3> QED
      BY <3>1, <3>2
  <2>2. CASE /\ call[k].at \in Busy /\ call'[k].at \in {"over", "error"}
             /\ call'[k].tool \notin Evaluating /\ call'[k].tool # "verify"
    <3>1. job[k] = "none" /\ report[k] = "none"
      BY <2>2 DEF IInv, Staged, Filed, Busy, Running
    <3>2. Referred(k)'
      BY <2>2 DEF Referred
    <3>3. Staged(k)' /\ Filed(k)'
      BY <2>2, <3>1 DEF Staged, Filed
    <3> QED
      BY <3>2, <3>3
  <2> QED
    BY <2>1, <2>2
<1>4. \A k \in Calls : Linked(k)'
  BY LinkedStep DEF Moves
<1>5. Pools
  BY <1>1, PoolsRest
<1>6. ASSUME NEW k \in Calls PROVE Answered(k)'
  <2>1. CASE call'[k] = call[k]
    BY <1>5, <2>1, AnsweredRest
  <2>2. CASE call'[k].at \in {"over", "error"} /\ call'[k].tool \notin Evaluating
    BY <2>2 DEF Answered, Evaluating
  <2> QED
    BY <2>1, <2>2
<1> QED
  BY <1>2, <1>3, <1>4, <1>5, <1>6 DEF IInv, Pools

(* A shared job moves on.                                                  *)
LEMMA PoolStep ==
  ASSUME IInv, Pools, finished' \in Seq(Jobs),
         UNCHANGED <<design, open, verifier, checks, call, job, checked, shows, report>>
  PROVE  IInv'
<1>1. Stored' = Stored
  BY DEF Stored
<1>2. TypeOK'
  BY DEF IInv, TypeOK, Pools
<1>3. \A k \in Calls : (Referred(k) /\ Staged(k) /\ Filed(k) /\ Linked(k))'
  BY <1>1 DEF IInv, Referred, Staged, Filed, Linked
<1>4. \A k \in Calls : Answered(k)'
  BY AnsweredRest
<1> QED
  BY <1>2, <1>3, <1>4 DEF IInv, Pools

------------------------------------------------------------------------------
(* Every step preserves the invariant.                                     *)

LEMMA VerifyStep ==
  ASSUME IInv, NEW c \in Calls, Lookup(c) \/ SaveLook(c) \/ SaveWrite(c)
  PROVE  IInv'
<1> USE DEF Sims
<1>1. /\ call[c].at \in Running /\ call[c].tool = "verify" /\ call[c].ref \in Refs
      /\ Unchecked /\ checks \in Seq(Refs) /\ checked' \in [Calls -> Evidence]
  BY DEF IInv, TypeOK, Referred, Staged, Running, Lookup, SaveLook, SaveWrite, Unchecked
<1>2. CASE Lookup(c)
  <2>1. Stored' = Stored /\ UNCHANGED checks /\ Pools
    BY <1>1, <1>2, PoolsRest DEF Lookup, Stored, Unchecked
  <2>2. CASE call[c].ref \in Stored
    BY <1>1, <1>2, <2>1, <2>2, CallStep DEF Lookup, Ats, Busy, Running, Unchecked
  <2>3. CASE call[c].ref \notin Stored
    BY <1>1, <1>2, <2>1, <2>3, CallStep DEF Lookup, Ats, Busy, Running, Unchecked
  <2> QED
    BY <2>2, <2>3
<1>3. CASE SaveLook(c)
  <2>1. Stored' = Stored /\ UNCHANGED checks /\ Pools
    BY <1>1, <1>3, PoolsRest DEF SaveLook, Stored, Unchecked
  <2>2. CASE call[c].ref \in Stored
    BY <1>1, <1>3, <2>1, <2>2, CallStep DEF SaveLook, Ats, Busy, Running, Unchecked
  <2>3. CASE call[c].ref \notin Stored
    BY <1>1, <1>3, <2>1, <2>3, CallStep DEF SaveLook, Ats, Busy, Running, Unchecked
  <2> QED
    BY <2>2, <2>3
<1>4. CASE SaveWrite(c)
  <2>1. CASE call[c].ref \in Stored
    <3>1. SetCall(c, "error") /\ UNCHANGED checks /\ Stored' = Stored
      BY <1>4, <2>1 DEF SaveWrite, Stored
    <3>2. Pools
      BY <1>1, <3>1, PoolsRest DEF Unchecked
    <3> QED
      BY <1>1, <3>1, <3>2, CallStep DEF Ats, Busy, Running, Unchecked
  <2>2. CASE call[c].ref \notin Stored
    <3>1. SetCall(c, "over") /\ checks' = Append(checks, call[c].ref)
      BY <1>4, <2>2 DEF SaveWrite
    <3>2. checks' \in Seq(Refs) /\ Stored' = Stored \cup {call[c].ref}
      BY <1>1, <3>1, StoredGrows DEF IInv
    <3>3. Pools
      BY <1>1, <3>2, PoolsRest DEF Unchecked
    <3> QED
      BY <1>1, <3>1, <3>2, <3>3, CallStep DEF Ats, Busy, Running, Unchecked
  <2> QED
    BY <2>1, <2>2
<1> QED
  BY <1>2, <1>3, <1>4

LEMMA EnqueueStep ==
  ASSUME IInv, NEW c \in Calls, EnqueueSim(c) \/ LoadResults(c) \/ EnqueueReport(c)
  PROVE  IInv'
<1>8. UNCHANGED <<design, open, verifier, checks, seeded, finished, shows, report>>
  BY DEF EnqueueSim, LoadResults, EnqueueReport
<1>1. /\ UNCHANGED <<design, open, verifier, checks, seeded, finished, shows, report>>
      /\ Stored' = Stored /\ checks' \in Seq(Refs)
  BY <1>8 DEF IInv, TypeOK, Stored
<1>7. Pools
  BY <1>1, PoolsRest
<1>2. checked \in [Calls -> Evidence] /\ Seen(c) \in Evidence
  BY SeenTyped DEF IInv, TypeOK
<1>3. checked' \in [Calls -> Evidence]
  BY <1>2 DEF EnqueueSim, LoadResults, EnqueueReport
<1>4. CASE EnqueueSim(c)
  <2>1. /\ SetCall(c, "over") /\ call[c].at \in Running /\ call[c].tool \in Evaluating
        /\ call[c].tool # "verify" /\ job' = [job EXCEPT ![c] = "queued"]
    BY <1>4 DEF EnqueueSim, Running, Evaluating, Sims
  <2> QED
    BY <1>1, <1>3, <1>7, <2>1, CallStep DEF Ats, Busy, Running, Sims
<1>5. CASE LoadResults(c)
  <2>1. /\ SetCall(c, "checked") /\ call[c].at \in Running /\ call[c].tool = "render"
        /\ UNCHANGED job
    BY <1>5 DEF LoadResults, Running
  <2> QED
    BY <1>1, <1>3, <1>7, <2>1, CallStep DEF Ats, Busy, Running, Sims
<1>6. CASE EnqueueReport(c)
  <2>1. /\ SetCall(c, "over") /\ call[c].at \in Running /\ call[c].tool = "render"
        /\ call[c].tool \in Evaluating /\ job' = [job EXCEPT ![c] = "queued"]
    BY <1>6 DEF EnqueueReport, IInv, Staged, Running, Evaluating
  <2> QED
    BY <1>1, <1>3, <1>7, <2>1, CallStep DEF Ats, Busy, Running, Sims
<1> QED
  BY <1>4, <1>5, <1>6

(* A call for a shared job.                                                *)
LEMMA SeededStep ==
  ASSUME IInv, NEW c \in Calls,
         SimLook(c) \/ SimReplace(c) \/ SimRecord(c) \/ SimPush(c) \/ PushFails(c)
  PROVE  IInv'
<1>0. PICK s : s = SeedOf(c)
  OBVIOUS
<1> DEFINE j == seeded[s]
<1>1. /\ UNCHANGED <<design, open, verifier, checks, job, finished, checked, shows, report>>
      /\ Stored' = Stored /\ checks' \in Seq(Refs) /\ checked' \in [Calls -> Evidence]
  BY DEF IInv, TypeOK, Stored, SimLook, SimReplace, SimRecord, SimPush, PushFails
<1>2. /\ call[c].tool \in Sims /\ call[c].tool \notin {"verify", "render"}
      /\ call[c].at \in Running
  BY DEF IInv, Staged, Running, Sims, SimLook, SimReplace, SimRecord, SimPush, PushFails
<1>3. s \in Seeded /\ s[2] = call[c].ref /\ s[2] \in Stored /\ s[2][1] = call[c].design
  BY <1>0, <1>2, SeedTyped DEF IInv, Referred, Evaluating
<1>4. seeded \in [Seeded -> Shared] /\ j \in Shared /\ Pooled(s) /\ call[c].design \in Designs \cup {None}
  BY <1>3 DEF IInv, TypeOK, Call
<1>5. call[c].at = "pushing" => j.row # "none"
  BY <1>0 DEF IInv, Answered
<1>6. ASSUME NEW new \in Shared, seeded' = [seeded EXCEPT ![s] = new],
             j.row # "none" => new.row # "none",
             new.row # "none" => s[2][1] = new.design,
             new.rq # "none" \/ new.left > 0 => new.row # "none"
      PROVE  Pools /\ seeded'[s].row = new.row
  <2>1. seeded'[s] = new /\ \A k \in Seeded \ {s} : seeded'[k] = seeded[k]
    BY <1>3, <1>4, <1>6
  <2>2. \A k \in Seeded \ {s} : Pooled(k)'
    BY <1>1, <2>1 DEF IInv, Pooled
  <2>3. Pooled(s)'
    BY <1>1, <1>3, <1>6, <2>1 DEF Pooled
  <2> QED
    BY <1>3, <1>4, <1>6, <2>1, <2>2, <2>3 DEF Pools
<1>7. ASSUME NEW at \in {"over", "replacing", "recording", "pushing", "error"}, SetCall(c, at), Pools,
             at \in {"over", "pushing"} => seeded'[s].row # "none"
      PROVE  IInv'
  BY <1>0, <1>1, <1>2, <1>7, CallStep DEF Ats, Busy, Running
<1>8. CASE SimLook(c)
  <2>1. PICK at \in {"over", "replacing", "recording"} :
          SetCall(c, at) /\ (at = "over" => j.rq # "none") /\ UNCHANGED seeded
    BY <1>0, <1>8 DEF SimLook
  <2>2. Pools /\ (at = "over" => seeded'[s].row # "none")
    BY <1>1, <1>4, <2>1, PoolsRest DEF Pooled
  <2> QED
    BY <1>7, <2>1, <2>2
<1>9. CASE SimReplace(c)
  <2>1. PICK left \in 0..j.left :
          seeded' = [seeded EXCEPT ![s].rq = "none", ![s].left = left]
    BY <1>0, <1>9 DEF SimReplace
  <2> DEFINE new == [j EXCEPT !.rq = "none", !.left = left]
  <2>2. j.left \in Nat /\ left \in Nat /\ (left > 0 => j.left > 0)
    BY <1>4 DEF Shared
  <2>3. new \in Shared /\ new.row = j.row /\ new.design = j.design /\ new.rq = "none" /\ new.left = left
    BY <1>4, <2>2 DEF Shared
  <2>4. seeded' = [seeded EXCEPT ![s] = new]
    BY <1>3, <1>4, <2>1
  <2> HIDE DEF new
  <2>5. Pools
    BY <1>4, <1>6, <2>2, <2>3, <2>4 DEF Pooled
  <2> QED
    BY <1>7, <1>9, <2>5 DEF SimReplace
<1>10. CASE SimRecord(c)
  <2> DEFINE new == [j EXCEPT !.row = "queued", !.design = call[c].design]
  <2>1. new \in Shared /\ new.row = "queued" /\ new.design = call[c].design
    BY <1>4 DEF Shared
  <2>2. seeded' = [seeded EXCEPT ![s] = new]
    BY <1>0, <1>3, <1>4, <1>10 DEF SimRecord
  <2> HIDE DEF new
  <2>3. Pools /\ seeded'[s].row # "none"
    BY <1>3, <1>6, <2>1, <2>2
  <2> QED
    BY <1>7, <1>10, <2>3 DEF SimRecord
<1>11. CASE SimPush(c)
  <2> DEFINE new == [j EXCEPT !.rq = "live", !.left = @ + 1]
  <2>5. j.left + 1 \in Nat
    BY <1>4 DEF Shared
  <2>1. new \in Shared /\ new.row = j.row /\ new.design = j.design
    BY <1>4, <2>5 DEF Shared
  <2>2. seeded' = [seeded EXCEPT ![s] = new]
    BY <1>0, <1>3, <1>4, <1>11 DEF SimPush
  <2>3. j.row # "none"
    BY <1>5, <1>11 DEF SimPush
  <2> HIDE DEF new
  <2>4. Pools /\ seeded'[s].row # "none"
    BY <1>4, <1>6, <2>1, <2>2, <2>3 DEF Pooled
  <2> QED
    BY <1>7, <1>11, <2>4 DEF SimPush
<1>12. CASE PushFails(c)
  <2> DEFINE new == [j EXCEPT !.row = Settled(@, "failed")]
  <2>1. /\ new \in Shared /\ new.design = j.design /\ new.rq = j.rq /\ new.left = j.left
        /\ new.row # "none" <=> j.row # "none"
    BY <1>4 DEF Shared, Settled
  <2>2. seeded' = [seeded EXCEPT ![s] = new]
    BY <1>0, <1>3, <1>4, <1>12 DEF PushFails
  <2> HIDE DEF new
  <2>3. Pools
    BY <1>4, <1>6, <2>1, <2>2 DEF Pooled
  <2> QED
    BY <1>7, <1>12, <2>3 DEF PushFails
<1> QED
  BY <1>8, <1>9, <1>10, <1>11, <1>12

(* A copy of a shared job ends, or RQ drops it.                            *)
LEMMA EndStep ==
  ASSUME IInv, NEW s \in Seeded, SeededEnds(s) \/ Expires(s)
  PROVE  IInv'
<1> DEFINE j == seeded[s]
<1>1. seeded \in [Seeded -> Shared] /\ j \in Shared /\ Pooled(s) /\ finished \in Seq(Jobs)
  BY DEF IInv, TypeOK
<1>2. UNCHANGED <<design, open, verifier, checks, call, job, checked, shows, report>> /\ Stored' = Stored
  BY DEF SeededEnds, Expires, Stored
<1>3. ASSUME NEW new \in Shared, seeded' = [seeded EXCEPT ![s] = new],
             j.row # "none" => new.row # "none" /\ new.design = j.design,
             j.row = "none" => new.row = "none",
             new.rq # "none" \/ new.left > 0 => new.row # "none"
      PROVE  Pools
  <2>1. seeded'[s] = new /\ \A k \in Seeded \ {s} : seeded'[k] = seeded[k]
    BY <1>1, <1>3
  <2>2. \A k \in Seeded \ {s} : Pooled(k)'
    BY <1>2, <2>1 DEF IInv, Pooled
  <2>3. Pooled(s)'
    BY <1>1, <1>2, <1>3, <2>1 DEF Pooled
  <2> QED
    BY <1>1, <1>3, <2>1, <2>2, <2>3 DEF Pools
<1>4. CASE SeededEnds(s)
  <2>1. PICK rq \in {"done", "failed"} :
          /\ j.left > 0
          /\ seeded' = [seeded EXCEPT ![s].row = Settled(@, IF rq = "done" THEN "finished" ELSE "failed"),
                                      ![s].rq = rq, ![s].left = @ - 1]
          /\ finished' = Append(finished, s) \/ UNCHANGED finished
    BY <1>4 DEF SeededEnds
  <2> DEFINE row == Settled(j.row, IF rq = "done" THEN "finished" ELSE "failed")
             new == [j EXCEPT !.row = row, !.rq = rq, !.left = @ - 1]
  <2>2. row \in {"none", "queued", "finished", "failed"} /\ (row # "none" <=> j.row # "none") /\ j.row # "none"
    BY <1>1, <2>1 DEF Shared, Settled, Pooled
  <2>3. seeded' = [seeded EXCEPT ![s] = new]
    BY <1>1, <2>1
  <2> HIDE DEF row
  <2>4. new \in Shared /\ new.row = row /\ new.design = j.design
    BY <1>1, <2>1, <2>2 DEF Shared
  <2> HIDE DEF new
  <2>5. Pools
    BY <1>3, <2>2, <2>3, <2>4
  <2>7. s \in Jobs
    BY DEF Jobs
  <2>6. finished' \in Seq(Jobs)
    BY <1>1, <2>1, <2>7
  <2> QED
    BY <1>2, <2>5, <2>6, PoolStep
<1>5. CASE Expires(s)
  <2> DEFINE new == [j EXCEPT !.rq = "none"]
  <2>1. /\ new \in Shared /\ new.row = j.row /\ new.design = j.design /\ new.left = j.left
        /\ new.rq = "none"
    BY <1>1 DEF Shared
  <2>2. seeded' = [seeded EXCEPT ![s] = new] /\ UNCHANGED finished
    BY <1>1, <1>5 DEF Expires
  <2> HIDE DEF new
  <2>3. Pools
    BY <1>1, <1>3, <2>1, <2>2 DEF Pooled
  <2> QED
    BY <1>1, <1>2, <2>2, <2>3, PoolStep
<1> QED
  BY <1>4, <1>5

LEMMA WorkStep ==
  ASSUME IInv, NEW c \in Calls,
         \/ SimEnds(c) \/ JobFails(c) \/ ReportReads(c)
         \/ ReportSaves(c) \/ ReportEnds(c) \/ Publish(c)
  PROVE  IInv'
<1>1. /\ job \in [Calls -> JobStates] /\ report \in [Calls -> {"none", "draft", "published"}]
      /\ finished \in Seq(Jobs) /\ shows \in [Calls -> Evidence] /\ Seen(c) \in Evidence
  BY SeenTyped DEF IInv, TypeOK, JobStates
<1>2. job = [job EXCEPT ![c] = job[c]] /\ report = [report EXCEPT ![c] = report[c]]
      /\ job[c] \in JobStates /\ report[c] \in {"none", "draft", "published"}
  BY <1>1
<1>3. Staged(c) /\ Filed(c)
  BY DEF IInv
<1>4. CASE SimEnds(c)
  <2>1. /\ UNCHANGED <<design, open, verifier, checks, call, seeded, checked>>
        /\ job' = [job EXCEPT ![c] = "finished"] /\ report' = report /\ shows' = shows
        /\ job[c] = "queued" /\ call[c].tool # "render" /\ finished' \in Seq(Jobs)
    BY <1>1, <1>4 DEF SimEnds, Sims, Jobs
  <2>2. report[c] = "none"
    BY <1>3, <2>1 DEF Filed
  <2> QED
    BY <1>1, <1>2, <2>1, <2>2, JobStep DEF JobStates
<1>5. CASE JobFails(c)
  <2>1. /\ UNCHANGED <<design, open, verifier, checks, call, seeded, checked>>
        /\ job' = [job EXCEPT ![c] = "failed"] /\ report' = report /\ shows' = shows
        /\ job[c] \in {"queued", "read", "saved"} /\ finished' = finished
    BY <1>5 DEF JobFails
  <2>2. report[c] # "published" /\ (report[c] # "none" => call[c].tool = "render")
    BY <1>3, <2>1 DEF Filed
  <2> QED
    BY <1>1, <1>2, <2>1, <2>2, JobStep DEF JobStates
<1>6. CASE ReportReads(c)
  <2>1. /\ UNCHANGED <<design, open, verifier, checks, call, seeded, checked>>
        /\ job' = [job EXCEPT ![c] = "read"] /\ report' = report /\ finished' = finished
        /\ job[c] = "queued" /\ call[c].tool = "render" /\ shows' \in [Calls -> Evidence]
    BY <1>1, <1>6 DEF ReportReads
  <2>2. report[c] # "published"
    BY <1>3, <2>1 DEF Filed
  <2> QED
    BY <1>1, <1>2, <2>1, <2>2, JobStep DEF JobStates
<1>7. CASE ReportSaves(c)
  <2>1. /\ UNCHANGED <<design, open, verifier, checks, call, seeded, checked>>
        /\ job' = [job EXCEPT ![c] = "saved"] /\ report' = [report EXCEPT ![c] = "draft"]
        /\ finished' = finished /\ shows' = shows /\ job[c] = "read"
    BY <1>7 DEF ReportSaves
  <2>2. call[c].tool = "render"
    BY <1>3, <2>1 DEF Staged
  <2> QED
    BY <1>1, <1>2, <2>1, <2>2, JobStep DEF JobStates
<1>8. CASE ReportEnds(c)
  <2>1. /\ UNCHANGED <<design, open, verifier, checks, call, seeded, checked>>
        /\ job' = [job EXCEPT ![c] = "finished"] /\ report' = report
        /\ finished' = finished /\ shows' = shows /\ job[c] = "saved"
    BY <1>8 DEF ReportEnds
  <2>2. report[c] # "none" /\ call[c].tool = "render"
    BY <1>3, <2>1 DEF Filed, Staged
  <2> QED
    BY <1>1, <1>2, <2>1, <2>2, JobStep DEF JobStates
<1>9. CASE Publish(c)
  <2>1. /\ UNCHANGED <<design, open, verifier, checks, call, seeded, checked>>
        /\ job' = job /\ report' = [report EXCEPT ![c] = "published"]
        /\ finished' = finished /\ shows' = shows
        /\ job[c] = "finished" /\ call[c].tool = "render"
    BY <1>9 DEF Publish
  <2> QED
    BY <1>1, <1>2, <2>1, JobStep DEF JobStates
<1> QED
  BY <1>4, <1>5, <1>6, <1>7, <1>8, <1>9

LEMMA ChangeStep ==
  ASSUME IInv, Edit \/ Deploy \/ \E c \in Calls : Record(c) \/ Fails(c)
  PROVE  IInv'
<1>1. /\ design \in Designs \cup {None} /\ open \in BOOLEAN /\ verifier \in 1..MaxVersion
      /\ call \in [Calls -> Call]
  BY DEF IInv, TypeOK
<1>2. CASE Edit
  BY <1>1, <1>2, OtherStep DEF Edit
<1>3. CASE Deploy
  <2> DEFINE blank == Blank("error")
  <2>1. blank \in Call /\ blank.at = "error" /\ blank.tool \notin Evaluating /\ blank.tool # "verify" /\ blank.of = None
    BY BlankShape DEF Ats, Busy
  <2>2. /\ UNCHANGED <<design, open, checks, job, seeded, finished, checked, shows, report>>
        /\ verifier' \in 1..MaxVersion
        /\ call' = [c \in Calls |-> IF call[c].at \in Busy THEN blank ELSE call[c]]
    BY <1>3 DEF Deploy
  <2> HIDE DEF blank
  <2>3. call' \in [Calls -> Call]
    BY <1>1, <2>1, <2>2
  <2>4. \A k \in Calls : call'[k] = call[k] \/ (call[k].at \in Busy /\ call'[k] = blank)
    BY <2>2
  <2> QED
    BY <1>1, <2>1, <2>2, <2>3, <2>4, OtherStep DEF Moves
<1>4. ASSUME NEW c \in Calls, Fails(c) PROVE IInv'
  <2> DEFINE blank == Blank("error")
  <2>1. blank \in Call /\ blank.at = "error" /\ blank.tool \notin Evaluating /\ blank.tool # "verify" /\ blank.of = None
    BY BlankShape DEF Ats, Busy
  <2>2. /\ UNCHANGED <<design, open, verifier, checks, job, seeded, finished, checked, shows, report>>
        /\ call[c].at \in Busy /\ call' = [call EXCEPT ![c] = blank]
    BY <1>4 DEF Fails
  <2> HIDE DEF blank
  <2>3. call' \in [Calls -> Call] /\ call'[c] = blank /\ \A k \in Calls \ {c} : call'[k] = call[k]
    BY <1>1, <2>1, <2>2
  <2> QED
    BY <1>1, <2>1, <2>2, <2>3, OtherStep DEF Moves
<1>5. ASSUME NEW c \in Calls, Record(c) PROVE IInv'
  <2> DEFINE new == [Blank("over") EXCEPT !.tool = "record"]
  <2>1. Blank("over") \in Call
    BY BlankShape DEF Ats, Busy
  <2>2. /\ new \in Call /\ new.at = "over" /\ new.tool = "record" /\ new.of = None
    BY <2>1 DEF Call, Blank, Tools
  <2>3. /\ design' \in Designs \cup {None} /\ open' \in BOOLEAN
        /\ UNCHANGED <<verifier, checks, job, seeded, finished, checked, shows, report>>
        /\ call[c].at = "started" /\ call[c].tool = "record" /\ call' = [call EXCEPT ![c] = new]
    BY <1>5 DEF Record
  <2> HIDE DEF new
  <2>4. call' \in [Calls -> Call] /\ call'[c] = new /\ \A k \in Calls \ {c} : call'[k] = call[k]
    BY <1>1, <2>2, <2>3
  <2>5. "record" \notin Evaluating /\ call[c].at \in Busy /\ Moves(c)
    BY <2>2, <2>3, <2>4 DEF Evaluating, Sims, Busy, Moves, Running
  <2> QED
    BY <1>1, <2>2, <2>3, <2>4, <2>5, OtherStep
<1> QED
  BY <1>2, <1>3, <1>4, <1>5

LEMMA NextIInv ==
  ASSUME IInv, [Next]_vars
  PROVE  IInv'
<1>1. CASE UNCHANGED vars
  <2>1. /\ UNCHANGED <<design, open, verifier, checks, call, job, seeded, finished, checked, shows, report>>
        /\ Stored' = Stored
    BY <1>1 DEF vars, Stored
  <2> QED
    BY <2>1 DEF IInv, TypeOK, Referred, Staged, Filed, Linked, Answered, Pooled, SeedOf
<1>2. CASE Next
  BY <1>2, StartStep, WaitStep, VerifyStep, EnqueueStep, SeededStep, EndStep, WorkStep, ChangeStep DEF Next
<1> QED
  BY <1>1, <1>2

THEOREM Inductive == Spec => []IInv
<1>1. Init => IInv
  BY InitIInv
<1>2. IInv /\ [Next]_vars => IInv'
  BY NextIInv
<1> QED
  BY <1>1, <1>2, PTL DEF Spec
------------------------------------------------------------------------------
(* The theorems.                                                           *)

(* In every reachable state the variables are well typed.                  *)
THEOREM TypeCorrect == Spec => []TypeOK
<1>1. IInv => TypeOK
  BY DEF IInv
<1> QED
  BY <1>1, Inductive, PTL

(* A session never counts as simulated or reported on the strength of a    *)
(* design it no longer has (registry/state.py).                            *)
THEOREM StateAlwaysEarned == Spec => []StateIsEarned
<1>1. ASSUME IInv PROVE StateIsEarned
  <2>1. ASSUME NEW c \in Calls, NEW r \in LatestCheck(design), call[c].ref = r,
               call[c].tool \in Evaluating
        PROVE  call[c].design = design
    <3>1. call[c].ref[1] = call[c].design
      BY <1>1, <2>1 DEF IInv, Referred
    <3> QED
      BY <2>1, <3>1, LatestIsStored
  <2>2. ASSUME State = "simulated"
        PROVE  \/ \E c \in Calls \ Stateless :
                    job[c] = "finished" /\ call[c].tool \in Sims /\ call[c].design = design
               \/ \E s \in Seeded : s[3] /\ seeded[s].row = "finished" /\ seeded[s].design = design
    <3>1. PICK r \in LatestCheck(design) : Simulated(r)
      BY <2>2 DEF State, StateOf
    <3>2. ASSUME NEW c \in Calls \ Stateless,
                 call[c].tool \in Sims, call[c].ref = r, job[c] = "finished"
          PROVE  call[c].design = design
      BY <2>1, <3>1, <3>2 DEF Evaluating
    <3>3. ASSUME NEW tool \in Sims, seeded[<<tool, r, TRUE>>].row = "finished"
          PROVE  \E s \in Seeded : s[3] /\ seeded[s].row = "finished" /\ seeded[s].design = design
      <4>1. r \in Refs /\ r[1] = design
        BY <1>1, <3>1, LatestIsStored, StoredAreRefs DEF IInv
      <4>2. PICK s \in Seeded : s = <<tool, r, TRUE>>
        BY <4>1 DEF Seeded
      <4>3. seeded[s].row = "finished" /\ s[2] = r /\ s[3]
        BY <3>3, <4>2
      <4>4. seeded[s].design = design
        BY <1>1, <4>1, <4>3 DEF IInv, Pooled
      <4> QED
        BY <4>3, <4>4
    <3> QED
      BY <3>1, <3>2, <3>3 DEF Simulated
  <2>3. ASSUME State = "reported"
        PROVE  \E c \in Calls \ Stateless : report[c] # "none" /\ call[c].design = design
    <3>1. PICK r \in LatestCheck(design) : Reported(r)
      BY <2>3 DEF State, StateOf
    <3>2. PICK c \in Calls \ Stateless : call[c].ref = r /\ report[c] # "none"
      BY <3>1 DEF Reported
    <3>3. call[c].tool \in Evaluating
      BY <1>1, <3>2 DEF IInv, Filed, Evaluating
    <3> QED
      BY <2>1, <3>2, <3>3
  <2> QED
    BY <2>2, <2>3 DEF StateIsEarned
<1> QED
  BY <1>1, Inductive, PTL

(* A reference that was handed out is stored, so is the report of a job    *)
(* that finished, and only such a report can be downloaded.                *)
THEOREM PromisesAlwaysStored == Spec => []PromisesAreStored
<1>1. ASSUME IInv PROVE PromisesAreStored
  <2>1. ASSUME NEW c \in Calls, call[c].tool = "verify", call[c].at = "over" PROVE RunOf(c).ref \in Stored
    <3>1. CASE call[c].of = None
      BY <1>1, <2>1, <3>1 DEF IInv, Referred, RunOf
    <3>2. CASE call[c].of # None
      <4> DEFINE w == call[c].of
      <4>1. w \in Calls /\ call[w].of = None /\ call[w].at = "over" /\ call[w].tool = "verify"
        BY <1>1, <2>1, <3>2 DEF IInv, TypeOK, Call, Linked
      <4> HIDE DEF w
      <4>2. call[w].ref \in Stored
        BY <1>1, <4>1 DEF IInv, Referred
      <4> QED
        BY <3>2, <4>2 DEF RunOf, w
    <3> QED
      BY <3>1, <3>2
  <2> QED
    BY <1>1, <2>1 DEF IInv, Filed, Answered, PromisesAreStored
<1> QED
  BY <1>1, Inductive, PTL

------------------------------------------------------------------------------
(* Nothing is lost for good, if the verifier never goes back.              *)

(* Until its verification is stored, a call refers to its own design under *)
(* the verifier that is deployed.                                          *)
AtWork == {"started", "verifying", "saving"}
Current(c) ==
  call[c].at \in AtWork /\ call[c].tool = "verify" => call[c].ref = <<call[c].design, verifier>>

(* No verification is stored twice, a later one is not by an older         *)
(* verifier, and none is by one that is yet to come.                       *)
Once    == \A n, m \in 1..Len(checks) : checks[n] = checks[m] => n = m
InOrder == \A n, m \in 1..Len(checks) : n <= m => checks[n][2] <= checks[m][2]
Past    == \A n \in 1..Len(checks) : checks[n][2] <= verifier

Kept == IInv /\ (\A c \in Calls : Current(c)) /\ Once /\ InOrder /\ Past

(* What a step may do to a call, seen by the verifications.                *)
Verifying(k) ==
  \/ call'[k] = call[k] /\ (verifier' = verifier \/ call[k].at \notin AtWork)
  \/ call'[k].at \in {"reading", "error", "joined", "checked"}
  \/ call'[k].tool \in Tools \ {"verify"} /\ (call'[k].at = "over" => call[k].tool # "verify")
  \/ /\ call'[k].at = "started" /\ verifier' = verifier
     /\ call'[k].tool = "verify" => call'[k].ref = <<call'[k].design, verifier>>
  \/ /\ call[k].at \in AtWork /\ call'[k].at \in AtWork \cup {"over"} /\ verifier' = verifier
     /\ call'[k].tool = call[k].tool /\ call'[k].ref = call[k].ref
     /\ call'[k].design = call[k].design
     /\ call'[k].at = "over" => call[k].ref \in Stored'
  \/ call'[k].at = "over" /\ call[k].of # None /\ call'[k].of = call[k].of

Inserts(c) ==
  /\ call[c].at = "saving" /\ call[c].ref \notin Stored
  /\ checks' = Append(checks, call[c].ref) /\ Unchecked

LEMMA AdmitVerifies ==
  ASSUME IInv, NEW c \in Calls, NEW at \in {"started", "joined"}, NEW of, Admit(c, at, of)
  PROVE  (\A k \in Calls : Verifying(k)) /\ UNCHANGED checks
<1>1. PICK tool \in Tools, givenDesign \in Designs \cup {None}, givenRef \in Stored \cup {None},
           override \in BOOLEAN, seen \in OpenSeen(c) :
        LET d == SpecOf(c, givenDesign)
            bySession == c \notin Stateless /\ givenDesign = None /\ givenRef = None IN
        \E r \in IF tool \in {"verify", "record"} THEN {None} ELSE RefsOf(c, givenRef) :
          /\ Takes(tool, givenDesign, givenRef)
          /\ Allowed(c, tool, d, r, override, seen)
          /\ of # None => bySession /\ call[of].tool = tool
          /\ call' = [call EXCEPT ![c] =
               [at |-> at, tool |-> tool, design |-> d,
                ref |-> IF tool = "verify" THEN <<d, verifier>> ELSE r,
                open |-> (tool = "record" /\ seen), of |-> of, shared |-> (bySession /\ of = None)]]
          /\ UNCHANGED <<design, open, verifier, checks, job, seeded, finished, checked, shows, report>>
  BY DEF Admit
<1> DEFINE d == SpecOf(c, givenDesign)
           shared == c \notin Stateless /\ givenDesign = None /\ givenRef = None /\ of = None
           asked == (tool = "record" /\ seen)
<1>2. PICK r \in IF tool \in {"verify", "record"} THEN {None} ELSE RefsOf(c, givenRef) :
          /\ call' = [call EXCEPT ![c] =
               [at |-> at, tool |-> tool, design |-> d,
                ref |-> IF tool = "verify" THEN <<d, verifier>> ELSE r,
                open |-> asked, of |-> of, shared |-> shared]]
          /\ UNCHANGED <<verifier, checks>>
  BY <1>1
<1> DEFINE ref == IF tool = "verify" THEN <<d, verifier>> ELSE r
           new == [at |-> at, tool |-> tool, design |-> d, ref |-> ref,
                   open |-> asked, of |-> of, shared |-> shared]
<1>3. tool = "verify" => ref = <<d, verifier>>
  OBVIOUS
<1>4. call' = [call EXCEPT ![c] = new] /\ call \in [Calls -> Call]
  BY <1>2 DEF IInv, TypeOK
<1> HIDE DEF d, ref, asked, shared
<1>5. new.at = at /\ new.tool = tool /\ new.design = d /\ new.ref = ref
  OBVIOUS
<1> HIDE DEF new
<1>6. call'[c] = new /\ \A k \in Calls \ {c} : call'[k] = call[k]
  BY <1>4
<1> QED
  BY <1>2, <1>3, <1>5, <1>6 DEF Verifying

(* A step stores at most one verification, and its call is over.           *)
LEMMA StepVerifies ==
  ASSUME IInv, [Next]_vars
  PROVE  /\ \A k \in Calls : Verifying(k)
         /\ UNCHANGED checks \/ \E c \in Calls : Inserts(c)
<1>1. call \in [Calls -> Call]
  BY DEF IInv, TypeOK
<1>2. ASSUME NEW c \in Calls, verifier' = verifier, Verifying(c),
             \A k \in Calls \ {c} : call'[k] = call[k]
      PROVE  \A k \in Calls : Verifying(k)
  BY <1>2 DEF Verifying
<1>3. CASE UNCHANGED vars
  BY <1>3 DEF vars, Verifying
<1>4. ASSUME NEW c \in Calls, Start(c) \/ Join(c)
      PROVE  (\A k \in Calls : Verifying(k)) /\ UNCHANGED checks
  BY <1>4, AdmitVerifies DEF Start, Join
<1>5. ASSUME NEW c \in Calls, Read(c)
      PROVE  (\A k \in Calls : Verifying(k)) /\ UNCHANGED checks
  <2> DEFINE new == [Blank("reading") EXCEPT !.design = design]
  <2>1. new.at = "reading"
    BY DEF Blank
  <2>2. call' = [call EXCEPT ![c] = new] /\ verifier' = verifier /\ UNCHANGED checks
    BY <1>5 DEF Read
  <2> HIDE DEF new
  <2>3. call'[c] = new /\ \A k \in Calls \ {c} : call'[k] = call[k]
    BY <1>1, <2>2
  <2> QED
    BY <1>2, <2>1, <2>2, <2>3 DEF Verifying
<1>6. ASSUME NEW c \in Calls, NEW at \in Ats, SetCall(c, at), verifier' = verifier,
             \/ at \in {"error", "joined", "checked"}
             \/ call[c].tool \in Tools \ {"verify"}
             \/ at = "over" /\ call[c].of # None
             \/ call[c].at \in AtWork /\ at \in AtWork \cup {"over"} /\ (at = "over" => call[c].ref \in Stored')
      PROVE  \A k \in Calls : Verifying(k)
  <2>1. /\ call'[c].at = at /\ call'[c].tool = call[c].tool
        /\ call'[c].ref = call[c].ref /\ call'[c].design = call[c].design /\ call'[c].of = call[c].of
        /\ \A k \in Calls \ {c} : call'[k] = call[k]
    BY <1>6, SetCallShape DEF IInv
  <2> QED
    BY <1>2, <1>6, <2>1 DEF Verifying
<1>7. ASSUME NEW c \in Calls, JoinEnds(c)
      PROVE  (\A k \in Calls : Verifying(k)) /\ UNCHANGED checks
  BY <1>6, <1>7 DEF JoinEnds, Ats, Busy, IInv, Linked
<1>8. ASSUME NEW c \in Calls, Lookup(c) \/ SaveLook(c)
      PROVE  (\A k \in Calls : Verifying(k)) /\ UNCHANGED checks
  <2>1. UNCHANGED checks /\ verifier' = verifier /\ Stored' = Stored /\ call[c].at \in AtWork
    BY <1>8 DEF Lookup, SaveLook, Unchecked, Stored, AtWork
  <2>2. PICK at \in {"over", "verifying", "saving"} : SetCall(c, at) /\ (at = "over" => call[c].ref \in Stored)
    BY <1>8 DEF Lookup, SaveLook
  <2> QED
    BY <1>6, <2>1, <2>2 DEF Ats, Busy, Running, AtWork
<1>9. ASSUME NEW c \in Calls, SaveWrite(c)
      PROVE  (\A k \in Calls : Verifying(k)) /\ (UNCHANGED checks \/ Inserts(c))
  <2>1. verifier' = verifier /\ call[c].at \in AtWork /\ call[c].at = "saving" /\ Unchecked
    BY <1>9 DEF SaveWrite, Unchecked, AtWork
  <2>2. CASE call[c].ref \in Stored
    BY <1>6, <1>9, <2>1, <2>2 DEF SaveWrite, Ats, Busy, Running
  <2>3. CASE call[c].ref \notin Stored
    <3>1. SetCall(c, "over") /\ checks' = Append(checks, call[c].ref) /\ call[c].ref \in Refs
      BY <1>9, <2>1, <2>3 DEF SaveWrite, IInv, Staged, Referred
    <3>2. call[c].ref \in Stored'
      BY <3>1, StoredGrows DEF IInv
    <3>3. \A k \in Calls : Verifying(k)
      BY <1>6, <2>1, <3>1, <3>2 DEF Ats, Busy, Running
    <3> QED
      BY <2>1, <2>3, <3>1, <3>3 DEF Inserts
  <2> QED
    BY <2>2, <2>3
<1>10. ASSUME NEW c \in Calls, EnqueueSim(c) \/ LoadResults(c) \/ EnqueueReport(c)
       PROVE  (\A k \in Calls : Verifying(k)) /\ UNCHANGED checks
  <2>1. UNCHANGED checks /\ verifier' = verifier /\ call[c].tool \in Tools \ {"verify"}
    BY <1>10 DEF EnqueueSim, LoadResults, EnqueueReport, IInv, Staged, Sims, Tools
  <2>2. PICK at \in {"over", "checked"} : SetCall(c, at)
    BY <1>10 DEF EnqueueSim, LoadResults, EnqueueReport
  <2> QED
    BY <1>6, <2>1, <2>2 DEF Ats, Busy, Running
<1>16. ASSUME NEW c \in Calls,
              SimLook(c) \/ SimReplace(c) \/ SimRecord(c) \/ SimPush(c) \/ PushFails(c)
       PROVE  (\A k \in Calls : Verifying(k)) /\ UNCHANGED checks
  <2>1. UNCHANGED checks /\ verifier' = verifier /\ call[c].tool \in Tools \ {"verify"}
    BY <1>16 DEF SimLook, SimReplace, SimRecord, SimPush, PushFails, IInv, Staged, Sims, Tools
  <2>2. PICK at \in {"over", "replacing", "recording", "pushing", "error"} : SetCall(c, at)
    BY <1>16 DEF SimLook, SimReplace, SimRecord, SimPush, PushFails
  <2> QED
    BY <1>6, <2>1, <2>2 DEF Ats, Busy, Running
<1>17. ASSUME NEW s \in Seeded, SeededEnds(s) \/ Expires(s)
       PROVE  (\A k \in Calls : Verifying(k)) /\ UNCHANGED checks
  <2>1. UNCHANGED <<checks, verifier, call>>
    BY <1>17 DEF SeededEnds, Expires
  <2> QED
    BY <2>1 DEF Verifying
<1>11. ASSUME NEW c \in Calls,
              \/ SimEnds(c) \/ JobFails(c) \/ ReportReads(c)
              \/ ReportSaves(c) \/ ReportEnds(c) \/ Publish(c)
       PROVE  (\A k \in Calls : Verifying(k)) /\ UNCHANGED checks
  <2>1. UNCHANGED <<checks, verifier, call>>
    BY <1>11 DEF SimEnds, JobFails, ReportReads, ReportSaves, ReportEnds, Publish
  <2> QED
    BY <2>1 DEF Verifying
<1>12. CASE Edit
  BY <1>12 DEF Edit, Verifying
<1>13. ASSUME NEW c \in Calls, Record(c)
       PROVE  (\A k \in Calls : Verifying(k)) /\ UNCHANGED checks
  <2> DEFINE new == [Blank("over") EXCEPT !.tool = "record"]
  <2>1. new.tool = "record"
    BY DEF Blank
  <2>2. /\ call' = [call EXCEPT ![c] = new] /\ verifier' = verifier /\ UNCHANGED checks
        /\ call[c].tool = "record"
    BY <1>13 DEF Record
  <2> HIDE DEF new
  <2>3. call'[c] = new /\ \A k \in Calls \ {c} : call'[k] = call[k]
    BY <1>1, <2>2
  <2> QED
    BY <1>2, <2>1, <2>2, <2>3 DEF Verifying, Tools
<1>14. ASSUME NEW c \in Calls, Fails(c)
       PROVE  (\A k \in Calls : Verifying(k)) /\ UNCHANGED checks
  <2> DEFINE new == Blank("error")
  <2>1. new.at = "error"
    BY DEF Blank
  <2>2. call' = [call EXCEPT ![c] = new] /\ verifier' = verifier /\ UNCHANGED checks
    BY <1>14 DEF Fails
  <2> HIDE DEF new
  <2>3. call'[c] = new /\ \A k \in Calls \ {c} : call'[k] = call[k]
    BY <1>1, <2>2
  <2> QED
    BY <1>2, <2>1, <2>2, <2>3 DEF Verifying
<1>15. CASE Deploy
  <2> DEFINE new == Blank("error")
  <2>1. new.at = "error"
    BY DEF Blank
  <2>2. call' = [k \in Calls |-> IF call[k].at \in Busy THEN new ELSE call[k]] /\ UNCHANGED checks
    BY <1>15 DEF Deploy
  <2> HIDE DEF new
  <2>3. \A k \in Calls : call'[k] = new \/ (call'[k] = call[k] /\ call[k].at \notin AtWork)
    BY <2>2 DEF Busy, Running, AtWork
  <2> QED
    BY <2>1, <2>2, <2>3 DEF Verifying
<1> QED
  BY <1>3, <1>4, <1>5, <1>7, <1>8, <1>9, <1>10, <1>11, <1>12, <1>13, <1>14, <1>15, <1>16, <1>17 DEF Next

LEMMA InitKept == Init => Kept
<1> SUFFICES ASSUME Init PROVE Kept
  OBVIOUS
<1>1. \A c \in Calls : Current(c)
  BY BlankShape DEF Init, Current, AtWork, Ats
<1>2. Len(checks) = 0
  BY DEF Init
<1> QED
  BY <1>1, <1>2, InitIInv DEF Kept, Once, InOrder, Past

(* Where the stored verifications grow.                                    *)
LEMMA InsertShape ==
  ASSUME Kept, NEW c \in Calls, Inserts(c)
  PROVE  /\ checks \in Seq(Refs) /\ Len(checks) \in Nat /\ Len(checks') = Len(checks) + 1
         /\ \A n \in 1..Len(checks) : checks'[n] = checks[n] /\ checks[n] \in Refs
         /\ checks'[Len(checks) + 1] = <<call[c].design, verifier>>
         /\ call[c].ref = <<call[c].design, verifier>>
         /\ verifier' = verifier /\ verifier \in Nat
<1>1. call[c].ref = <<call[c].design, verifier>> /\ call[c].ref \in Refs
  BY DEF Kept, Inserts, Current, AtWork, IInv, Staged, Referred
<1>2. checks \in Seq(Refs) /\ checks' = Append(checks, call[c].ref) /\ verifier' = verifier
  BY DEF Kept, IInv, TypeOK, Inserts, Unchecked
<1>3. verifier \in Nat
  BY EvaluationAssumption DEF EvaluationAssumption, Kept, IInv, TypeOK
<1>4. /\ Len(checks) \in Nat /\ Len(checks') = Len(checks) + 1
      /\ \A n \in 1..Len(checks) : checks'[n] = checks[n] /\ checks[n] \in Refs
      /\ checks'[Len(checks) + 1] = call[c].ref
  BY <1>1, <1>2
<1> QED
  BY <1>1, <1>2, <1>3, <1>4

LEMMA StepKept ==
  ASSUME ~Rollback, Kept, [Next]_vars
  PROVE  Kept'
<1>1. IInv'
  BY NextIInv DEF Kept
<1>2. ASSUME NEW k \in Calls PROVE Current(k)'
  <2>1. Verifying(k) /\ Current(k) /\ Linked(k)'
    BY <1>1, StepVerifies DEF Kept, IInv
  <2> QED
    BY <2>1 DEF Verifying, Current, AtWork, Tools, Linked
<1>3. verifier <= verifier' /\ verifier \in Nat /\ verifier' \in Nat
  <2>1. verifier \in 1..MaxVersion /\ verifier' \in 1..MaxVersion /\ MaxVersion \in Nat
    BY <1>1, EvaluationAssumption DEF EvaluationAssumption, Kept, IInv, TypeOK
  <2>2. verifier' = verifier \/ verifier' > verifier
    <3>1. ASSUME NEW c \in Calls,
                 \/ Read(c) \/ Start(c) \/ Join(c) \/ JoinEnds(c) \/ Fails(c)
                 \/ Lookup(c) \/ SaveLook(c) \/ SaveWrite(c) \/ Record(c)
          PROVE  verifier' = verifier
      BY <3>1 DEF Read, Start, Join, Admit, JoinEnds, Fails, Lookup, SaveLook, SaveWrite, Unchecked, Record
    <3>2. ASSUME NEW c \in Calls,
                 \/ EnqueueSim(c) \/ SimEnds(c) \/ JobFails(c) \/ LoadResults(c) \/ EnqueueReport(c)
                 \/ ReportReads(c) \/ ReportSaves(c) \/ ReportEnds(c) \/ Publish(c)
                 \/ SimLook(c) \/ SimReplace(c) \/ SimRecord(c) \/ SimPush(c) \/ PushFails(c)
          PROVE  verifier' = verifier
      BY <3>2 DEF EnqueueSim, SimEnds, JobFails, LoadResults, EnqueueReport, ReportReads, ReportSaves,
         ReportEnds, Publish, SimLook, SimReplace, SimRecord, SimPush, PushFails
    <3>3. ASSUME NEW s \in Seeded, SeededEnds(s) \/ Expires(s) PROVE verifier' = verifier
      BY <3>3 DEF SeededEnds, Expires
    <3>4. CASE Deploy
      BY <3>4 DEF Deploy
    <3>5. CASE Edit \/ UNCHANGED vars
      BY <3>5 DEF Edit, vars
    <3> QED
      BY <3>1, <3>2, <3>3, <3>4, <3>5 DEF Next
  <2> QED
    BY <2>1, <2>2
<1>4. CASE UNCHANGED checks
  <2>1. /\ checks \in Seq(Refs) /\ Len(checks) \in Nat
        /\ \A n \in 1..Len(checks) : checks[n][2] \in Nat
    <3>1. checks \in Seq(Refs) /\ MaxVersion \in Nat
      BY EvaluationAssumption DEF EvaluationAssumption, Kept, IInv, TypeOK
    <3>2. \A n \in 1..Len(checks) : checks[n] \in Refs
      BY <3>1
    <3> QED
      BY <3>1, <3>2 DEF Refs
  <2>2. Once' /\ InOrder'
    BY <1>4 DEF Kept, Once, InOrder
  <2>3. Past'
    BY <1>3, <1>4, <2>1 DEF Kept, Past
  <2> QED
    BY <1>1, <1>2, <2>2, <2>3 DEF Kept
<1>5. ASSUME NEW c \in Calls, Inserts(c) PROVE Kept'
  <2> DEFINE last == Len(checks) + 1
  <2>1. /\ Len(checks) \in Nat /\ Len(checks') = last
        /\ \A n \in 1..Len(checks) : checks'[n] = checks[n] /\ checks[n] \in Refs
        /\ checks'[last] = <<call[c].design, verifier>>
        /\ call[c].ref = <<call[c].design, verifier>>
        /\ verifier' = verifier /\ verifier \in Nat
    BY <1>5, InsertShape
  <2>2. \A n \in 1..Len(checks) : checks[n] # <<call[c].design, verifier>>
    BY <1>5, <2>1 DEF Inserts, Stored
  <2>3. \A n \in 1..last : n \in 1..Len(checks) \/ n = last
    BY <2>1
  <2>4. checks'[last][2] = verifier /\ \A n \in 1..Len(checks) : checks[n][2] <= verifier
    BY <2>1 DEF Kept, Past
  <2>5. last \notin 1..Len(checks) /\ \A n \in 1..Len(checks) : ~(last <= n)
    BY <2>1
  <2> HIDE DEF last
  <2>6. Once'
    BY <2>1, <2>2, <2>3 DEF Kept, Once
  <2>7. InOrder'
    <3>1. verifier <= verifier
      BY <2>1
    <3> QED
      BY <2>1, <2>3, <2>4, <2>5, <3>1 DEF Kept, InOrder
  <2>8. Past'
    <3>1. verifier <= verifier
      BY <2>1
    <3> QED
      BY <2>1, <2>3, <2>4, <3>1 DEF Past
  <2> QED
    BY <1>1, <1>2, <2>6, <2>7, <2>8 DEF Kept
<1> QED
  BY <1>4, <1>5, StepVerifies DEF Kept

(* A call with a job is done, a simulation that has finished stays so, and *)
(* so does the row of a report.                                            *)
LEMMA RowsStay ==
  ASSUME IInv, [Next]_vars, NEW k \in Calls, job[k] # "none"
  PROVE  /\ call'[k] = call[k]
         /\ job[k] = "finished" => job'[k] = "finished"
         /\ report[k] # "none" => report'[k] # "none"
<1>1. /\ job \in [Calls -> JobStates] /\ call \in [Calls -> Call]
      /\ report \in [Calls -> {"none", "draft", "published"}]
  BY DEF IInv, TypeOK, JobStates
<1>2. call[k].at = "over"
  BY DEF IInv, Staged
<1>3. call'[k] = call[k]
  <2>1. CASE UNCHANGED vars
    BY <2>1 DEF vars
  <2>2. ASSUME NEW c \in Calls, Read(c) \/ Start(c) \/ Join(c) \/ JoinEnds(c) \/ Fails(c)
        PROVE  call'[k] = call[k]
    <3>1. k # c
      BY <1>2, <2>2 DEF Read, Start, Join, Ready, JoinEnds, Fails, Busy, Running
    <3> QED
      BY <1>1, <2>2, <3>1 DEF Read, Start, Join, Admit, JoinEnds, Fails, SetCall
  <2>3. ASSUME NEW c \in Calls,
               \/ Lookup(c) \/ SaveLook(c) \/ SaveWrite(c) \/ EnqueueSim(c)
               \/ LoadResults(c) \/ EnqueueReport(c) \/ Record(c)
        PROVE  call'[k] = call[k]
    <3>1. k # c
      BY <1>2, <2>3 DEF Lookup, SaveLook, SaveWrite, EnqueueSim, LoadResults, EnqueueReport, Record
    <3> QED
      BY <1>1, <2>3, <3>1
      DEF Lookup, SaveLook, SaveWrite, EnqueueSim, LoadResults, EnqueueReport, Record, SetCall
  <2>6. ASSUME NEW c \in Calls,
               SimLook(c) \/ SimReplace(c) \/ SimRecord(c) \/ SimPush(c) \/ PushFails(c)
        PROVE  call'[k] = call[k]
    <3>1. k # c
      BY <1>2, <2>6 DEF SimLook, SimReplace, SimRecord, SimPush, PushFails
    <3> QED
      BY <1>1, <2>6, <3>1 DEF SimLook, SimReplace, SimRecord, SimPush, PushFails, SetCall
  <2>4. ASSUME NEW c \in Calls,
               \/ SimEnds(c) \/ JobFails(c) \/ ReportReads(c)
               \/ ReportSaves(c) \/ ReportEnds(c) \/ Publish(c)
        PROVE  call'[k] = call[k]
    BY <2>4 DEF SimEnds, JobFails, ReportReads, ReportSaves, ReportEnds, Publish
  <2>5. CASE Edit \/ Deploy
    BY <1>2, <2>5 DEF Edit, Deploy, Busy, Running
  <2>7. ASSUME NEW s \in Seeded, SeededEnds(s) \/ Expires(s)
        PROVE  call'[k] = call[k]
    BY <2>7 DEF SeededEnds, Expires
  <2> QED
    BY <2>1, <2>2, <2>3, <2>4, <2>5, <2>6, <2>7 DEF Next
<1>4. CASE UNCHANGED <<job, report>>
  BY <1>3, <1>4
<1>5. ASSUME NEW c \in Calls, EnqueueSim(c) \/ EnqueueReport(c)
      PROVE  job'[k] = job[k] /\ report'[k] = report[k]
  <2>1. k # c
    BY <1>2, <1>5 DEF EnqueueSim, EnqueueReport
  <2> QED
    BY <1>1, <1>5, <2>1 DEF EnqueueSim, EnqueueReport
<1>6. ASSUME NEW c \in Calls,
             \/ SimEnds(c) \/ JobFails(c) \/ ReportReads(c)
             \/ ReportSaves(c) \/ ReportEnds(c) \/ Publish(c)
      PROVE  /\ job[k] = "finished" => job'[k] = "finished"
             /\ report[k] # "none" => report'[k] # "none"
  <2>1. CASE k = c
    BY <1>1, <1>6, <2>1 DEF SimEnds, JobFails, ReportReads, ReportSaves, ReportEnds, Publish
  <2>2. CASE k # c
    BY <1>1, <1>6, <2>2 DEF SimEnds, JobFails, ReportReads, ReportSaves, ReportEnds, Publish
  <2> QED
    BY <2>1, <2>2
<1>7. \/ UNCHANGED <<job, report>>
      \/ \E c \in Calls : EnqueueSim(c) \/ EnqueueReport(c)
      \/ \E c \in Calls : \/ SimEnds(c) \/ JobFails(c) \/ ReportReads(c)
                          \/ ReportSaves(c) \/ ReportEnds(c) \/ Publish(c)
  <2>1. ASSUME NEW c \in Calls,
               \/ Read(c) \/ Start(c) \/ Join(c) \/ JoinEnds(c) \/ Fails(c)
               \/ Lookup(c) \/ SaveLook(c) \/ SaveWrite(c) \/ LoadResults(c) \/ Record(c)
        PROVE  UNCHANGED <<job, report>>
    BY <2>1 DEF Read, Start, Join, Admit, JoinEnds, Fails, Lookup, SaveLook, SaveWrite, Unchecked,
       LoadResults, Record
  <2>2. ASSUME NEW c \in Calls,
               SimLook(c) \/ SimReplace(c) \/ SimRecord(c) \/ SimPush(c) \/ PushFails(c)
        PROVE  UNCHANGED <<job, report>>
    BY <2>2 DEF SimLook, SimReplace, SimRecord, SimPush, PushFails
  <2>3. ASSUME NEW s \in Seeded, SeededEnds(s) \/ Expires(s) PROVE UNCHANGED <<job, report>>
    BY <2>3 DEF SeededEnds, Expires
  <2>4. CASE Edit \/ Deploy \/ UNCHANGED vars
    BY <2>4 DEF Edit, Deploy, vars
  <2> QED
    BY <2>1, <2>2, <2>3, <2>4 DEF Next
<1> QED
  BY <1>3, <1>4, <1>5, <1>6, <1>7

(* A simulation that is recorded anew.                                     *)
Resets(c) ==
  /\ c \notin Stateless /\ call[c].at = "recording" /\ call'[c].at = "pushing"
  /\ call[c].tool \in Sims /\ seeded[SeedOf(c)].row = "finished"

(* The row of a shared job is reset by such a call only.                   *)
LEMMA RowsReset ==
  ASSUME IInv, [Next]_vars, NEW s \in Seeded, s[3] = TRUE,
         seeded[s].row = "finished", seeded'[s].row # "finished"
  PROVE  \E c \in Calls : Resets(c) /\ call[c].ref = s[2]
<1>1. seeded \in [Seeded -> Shared] /\ call \in [Calls -> Call]
  BY DEF IInv, TypeOK
<1>2. CASE UNCHANGED seeded
  BY <1>2
<1>3. ASSUME NEW c \in Calls, SimReplace(c) \/ SimPush(c) \/ PushFails(c) PROVE FALSE
  BY <1>1, <1>3 DEF SimReplace, SimPush, PushFails, Settled, Shared
<1>4. ASSUME NEW k \in Seeded, SeededEnds(k) \/ Expires(k) PROVE FALSE
  BY <1>1, <1>4 DEF SeededEnds, Expires, Settled, Shared
<1>5. ASSUME NEW c \in Calls, SimRecord(c) PROVE Resets(c) /\ call[c].ref = s[2]
  <2>1. call[c].at = "recording" /\ call[c].tool \in Sims /\ SetCall(c, "pushing")
    BY <1>5 DEF SimRecord, IInv, Staged
  <2>2. call'[c].at = "pushing"
    BY <2>1, SetCallShape DEF IInv, Ats, Busy, Running
  <2>3. SeedOf(c) \in Seeded /\ SeedOf(c)[2] = call[c].ref
    BY <2>1, SeedTyped
  <2>4. SeedOf(c) = s
    BY <1>1, <1>5, <2>3 DEF SimRecord
  <2>5. c \notin Stateless
    BY <2>4 DEF SeedOf
  <2> QED
    BY <2>1, <2>2, <2>3, <2>4, <2>5 DEF Resets
<1>6. \/ UNCHANGED seeded
      \/ \E c \in Calls : SimReplace(c) \/ SimPush(c) \/ PushFails(c) \/ SimRecord(c)
      \/ \E k \in Seeded : SeededEnds(k) \/ Expires(k)
  BY DEF Next, vars, Read, Start, Join, Admit, JoinEnds, Fails,
     Lookup, SaveLook, SaveWrite, Unchecked, LoadResults, Edit, Record, Deploy,
     EnqueueSim, SimEnds, JobFails, EnqueueReport, ReportReads, ReportSaves, ReportEnds, Publish, SimLook
<1> QED
  BY <1>2, <1>3, <1>4, <1>5, <1>6

(* What a verification has led to is not undone, but by recording a        *)
(* simulation anew.                                                        *)
LEMMA ResultsStay ==
  ASSUME IInv, [Next]_vars, NEW r \in Refs
  PROVE  /\ Simulated(r) => Simulated(r)' \/ \E c \in Calls : Resets(c) /\ call[c].ref = r
         /\ Reported(r) => Reported(r)'
<1>1. ASSUME Simulated(r), ~Simulated(r)' PROVE \E c \in Calls : Resets(c) /\ call[c].ref = r
  <2>1. ASSUME NEW c \in Calls \ Stateless,
               call[c].tool \in Sims, call[c].ref = r, job[c] = "finished"
        PROVE  FALSE
    <3>1. call'[c] = call[c] /\ job'[c] = "finished"
      BY <2>1, RowsStay
    <3> QED
      BY <1>1, <2>1, <3>1 DEF Simulated
  <2>2. PICK tool \in Sims : seeded[<<tool, r, TRUE>>].row = "finished"
    BY <1>1, <2>1 DEF Simulated
  <2>3. PICK s \in Seeded : s = <<tool, r, TRUE>>
    BY DEF Seeded
  <2>4. s[2] = r /\ s[3] = TRUE /\ seeded[s].row = "finished"
    BY <2>2, <2>3
  <2>5. seeded'[s].row # "finished"
    BY <1>1, <2>3 DEF Simulated
  <2> QED
    BY <2>4, <2>5, RowsReset
<1>2. ASSUME Reported(r) PROVE Reported(r)'
  <2>1. PICK c \in Calls \ Stateless : call[c].ref = r /\ report[c] # "none"
    BY <1>2 DEF Reported
  <2>2. job[c] # "none"
    BY <2>1 DEF IInv, Filed
  <2>3. call'[c] = call[c] /\ report'[c] # "none"
    BY <2>1, <2>2, RowsStay
  <2> QED
    BY <2>1, <2>3 DEF Reported
<1> QED
  BY <1>1, <1>2

(* A verification is the newest of its design if it is by the verifier     *)
(* that is deployed.                                                       *)
Present == \A d \in Designs : <<d, verifier>> \in Stored => <<d, verifier>> \in LatestCheck(d)

LEMMA PresentIsLatest == Kept => Present
<1> SUFFICES ASSUME Kept, NEW d \in Designs, <<d, verifier>> \in Stored
             PROVE  <<d, verifier>> \in LatestCheck(d)
  BY DEF Present
<1>1. PICK n \in 1..Len(checks) : checks[n] = <<d, verifier>>
  BY DEF Stored
<1>2. n \in ChecksOf(d)
  BY <1>1 DEF ChecksOf
<1>3. ASSUME NEW m \in ChecksOf(d) PROVE m <= n
  <2>1. m \in 1..Len(checks) /\ checks[m][1] = d /\ checks \in Seq(Refs) /\ Len(checks) \in Nat
    BY DEF ChecksOf, Kept, IInv, TypeOK
  <2>2. checks[m] \in Refs /\ verifier \in Nat /\ MaxVersion \in Nat
    BY <2>1, EvaluationAssumption DEF EvaluationAssumption, Kept, IInv, TypeOK
  <2>3. checks[m] = <<d, checks[m][2]>> /\ checks[m][2] \in Nat
    <3>1. PICK v \in 1..MaxVersion : checks[m][2] = v
      BY <2>2 DEF Refs
    <3>2. checks[m] = <<checks[m][1], checks[m][2]>>
      BY <2>2 DEF Refs
    <3> QED
      BY <2>1, <2>2, <3>1, <3>2
  <2>4. checks[n][2] = verifier /\ checks[m][2] <= verifier
    BY <1>1, <2>1 DEF Kept, Past
  <2>5. SUFFICES ASSUME n <= m PROVE m = n
    BY <2>1
  <2>6. verifier <= checks[m][2]
    BY <2>1, <2>4, <2>5 DEF Kept, InOrder
  <2>7. checks[m][2] = verifier
    BY <2>2, <2>3, <2>4, <2>6
  <2> QED
    BY <1>1, <2>1, <2>3, <2>7 DEF Kept, Once
<1> QED
  BY <1>1, <1>2, <1>3 DEF LatestCheck

LEMMA PresentNext == Kept' => Present'
BY PresentIsLatest, PTL

LEMMA ReverifyStep ==
  ASSUME ~Rollback, Kept, [Next]_vars, NEW c \in Calls,
         call[c].tool = "verify", call[c].of = None, call[c].at # "over", call'[c].at = "over"
  PROVE  \E r \in LatestCheck(call[c].design)' : Matches(call[c].design, r)
<1>1. Kept' /\ Verifying(c)
  BY StepKept, StepVerifies DEF Kept
<1>2. /\ call[c].at \in AtWork /\ verifier' = verifier
      /\ call'[c].design = call[c].design /\ call[c].ref \in Stored'
  BY <1>1 DEF Verifying, AtWork
<1> DEFINE d == call[c].design
<1>3. call[c].ref = <<d, verifier>> /\ d \in Designs
  BY <1>2 DEF Kept, Current, IInv, Referred, Refs
<1>4. Present' /\ <<d, verifier'>> \in Stored'
  BY <1>1, <1>2, <1>3, PresentNext
<1>5. <<d, verifier>> \in LatestCheck(call[c].design)'
  BY <1>2, <1>3, <1>4 DEF Present
<1> QED
  BY <1>5 DEF Matches

(* How far a design has come, without the answers.                         *)
LEMMA RankOf ==
  /\ (\E r \in LatestCheck(design) : Reported(r)) => Rank[State] = 4
  /\ (\E r \in LatestCheck(design) : Simulated(r)) => Rank[State] \in {3, 4}
  /\ LatestCheck(design) # {} => Rank[State] \in {2, 3, 4}
  /\ Rank[State] \in 0..4
  /\ Rank[State] = 4 => \E r \in LatestCheck(design) : Reported(r)
  /\ Rank[State] = 3 => \E r \in LatestCheck(design) : Simulated(r)
  /\ Rank[State] = 2 => LatestCheck(design) # {}
  /\ Rank[State] = 1 => Complete(design, open)
  /\ Complete(design, open) => Rank[State] # 0
<1>1. /\ Rank["eliciting"] = 0 /\ Rank["spec_ready"] = 1 /\ Rank["verified"] = 2
      /\ Rank["simulated"] = 3 /\ Rank["reported"] = 4
  BY DEF Rank
<1> QED
  BY <1>1 DEF State, StateOf

RankNow ==
  /\ (\E r \in LatestCheck(design) : Reported(r)) => Rank[State] = 4
  /\ (\E r \in LatestCheck(design) : Simulated(r)) => Rank[State] \in {3, 4}
  /\ LatestCheck(design) # {} => Rank[State] \in {2, 3, 4}
  /\ Rank[State] \in 0..4
  /\ Complete(design, open) => Rank[State] # 0

LEMMA RankNext == RankNow'
<1>1. RankNow
  BY RankOf DEF RankNow
<1> QED
  BY <1>1, PTL

LEMMA FallStep ==
  ASSUME Kept, [Next]_vars, Rank[State'] < Rank[State], design' = design, open' = open
  PROVE  \/ checks' # checks /\ \E r \in LatestCheck(design) : r[2] # verifier
         \/ \E c \in Calls : RecordedAnew(c)
<1> SUFFICES ASSUME ~ \E c \in Calls : RecordedAnew(c)
             PROVE  checks' # checks /\ \E r \in LatestCheck(design) : r[2] # verifier
  OBVIOUS
<1>1. Rank[State'] = Rank[State]' /\ RankNow'
  BY RankNext DEF Rank
<1>11. LatestCheck(design) \subseteq Refs
  BY LatestIsStored, StoredAreRefs DEF Kept, IInv
<1>2. ASSUME LatestCheck(design)' = LatestCheck(design) PROVE FALSE
  <2>1. CASE Rank[State] = 4
    <3>1. PICK r \in LatestCheck(design) : Reported(r)
      BY <2>1, RankOf
    <3>2. Reported(r)'
      BY <1>11, <3>1, ResultsStay DEF Kept
    <3> QED
      BY <1>1, <1>2, <2>1, <3>1, <3>2 DEF RankNow
  <2>2. CASE Rank[State] = 3
    <3>1. PICK r \in LatestCheck(design) : Simulated(r)
      BY <2>2, RankOf
    <3>2. Simulated(r)'
      BY <1>11, <3>1, ResultsStay DEF Kept, Resets, RecordedAnew
    <3> QED
      BY <1>1, <1>2, <2>2, <3>1, <3>2 DEF RankNow
  <2>3. CASE Rank[State] = 2
    BY <1>1, <1>2, <2>3, RankOf DEF RankNow
  <2>4. CASE Rank[State] = 1
    <3>1. Complete(design', open')
      BY <2>4, RankOf DEF Complete
    <3> QED
      BY <1>1, <2>4, <3>1 DEF RankNow
  <2>5. CASE Rank[State] = 0
    BY <1>1, <2>5 DEF RankNow
  <2> QED
    BY <2>1, <2>2, <2>3, <2>4, <2>5, RankOf
<1>3. checks' # checks
  <2>1. SUFFICES ASSUME checks' = checks PROVE FALSE
    OBVIOUS
  <2>2. LatestCheck(design)' = LatestCheck(design)
    BY <2>1 DEF LatestCheck, ChecksOf
  <2> QED
    BY <1>2, <2>2
<1>4. PICK c \in Calls : Inserts(c)
  BY <1>3, StepVerifies DEF Kept
<1> DEFINE d == call[c].design
           last == Len(checks) + 1
<1>5. /\ Len(checks) \in Nat /\ Len(checks') = last
      /\ \A n \in 1..Len(checks) : checks'[n] = checks[n] /\ checks[n] \in Refs
      /\ checks'[last] = <<d, verifier>> /\ call[c].ref = <<d, verifier>>
  BY <1>4, InsertShape
<1>6. <<d, verifier>> \notin Stored
  BY <1>4, <1>5 DEF Inserts
<1>7. \A n \in 1..last : n \in 1..Len(checks) \/ n = last
  BY <1>5
<1>8. last \in 1..last /\ 1..Len(checks) \subseteq 1..last /\ \A n \in 1..last : n <= last
  BY <1>5
<1> HIDE DEF last
<1> HIDE DEF d
<1>9. CASE d # design
  <2>1. ChecksOf(design)' = ChecksOf(design)
    BY <1>5, <1>7, <1>8, <1>9 DEF ChecksOf
  <2>2. \A n \in ChecksOf(design) : checks'[n] = checks[n]
    BY <1>5 DEF ChecksOf
  <2>3. LatestCheck(design)' = LatestCheck(design)
    BY <2>1, <2>2 DEF LatestCheck
  <2> QED
    BY <1>2, <2>3
<1>10. CASE d = design
  <2>1. last \in ChecksOf(design)' /\ \A m \in ChecksOf(design)' : m <= last
    BY <1>5, <1>8, <1>10 DEF ChecksOf
  <2>2. LatestCheck(design)' # {}
    BY <2>1 DEF LatestCheck
  <2>3. Rank[State'] \in {2, 3, 4}
    BY <1>1, <2>2 DEF RankNow
  <2>4. Rank[State] \in {3, 4}
    BY <2>3, RankOf
  <2>5. PICK r : r \in LatestCheck(design)
    BY <2>4, RankOf
  <2>6. r \in Stored /\ r[1] = design /\ r \in Refs
    BY <2>5, LatestIsStored, StoredAreRefs DEF Kept, IInv
  <2>7. r = <<design, r[2]>>
    BY <2>6 DEF Refs
  <2>8. r[2] # verifier
    BY <1>6, <1>10, <2>6, <2>7
  <2> QED
    BY <1>3, <2>5, <2>8
<1> QED
  BY <1>9, <1>10

(* While the verifier only moves forward: the state of a session falls     *)
(* back for a reason (the design or its answers changed, its newest        *)
(* verification did, or a simulation it has was recorded anew), and a call *)
(* that verifies the design again, on its own run, has made that           *)
(* verification the one the policy looks at (get_session_facts,            *)
(* verification_ref_matches_spec).  With an older verifier deployed again  *)
(* the newest row may be by the other one.                                 *)
THEOREM NothingLost == ASSUME ~Rollback PROVE Spec => NothingLostForGood
<1>1. Init => Kept
  BY InitKept
<1>2. Kept /\ [Next]_vars => Kept'
  BY StepKept
<1>3. Kept /\ [Next]_vars =>
        [Rank[State'] < Rank[State] =>
           \/ design' # design \/ open' # open
           \/ checks' # checks /\ \E r \in LatestCheck(design) : r[2] # verifier
           \/ \E c \in Calls : RecordedAnew(c)]_vars
  BY FallStep
<1>4. Kept /\ [Next]_vars =>
        [\A c \in Calls :
           call[c].tool = "verify" /\ call[c].of = None /\ call[c].at # "over" /\ call'[c].at = "over" =>
             \E r \in LatestCheck(call[c].design)' : Matches(call[c].design, r)]_vars
  BY ReverifyStep
<1> QED
  BY <1>1, <1>2, <1>3, <1>4, PTL DEF Spec, NothingLostForGood, StateFallsForAReason, ReverifyHelps

------------------------------------------------------------------------------
(* The refinement.                                                         *)

OwnJobs == {[design |-> call[c].design, ref |-> call[c].ref] : c \in {c \in Calls : job[c] # "none"}}
SharedJobs ==
  {[design |-> seeded[s].design, ref |-> s[2]] : s \in {s \in Seeded : seeded[s].row # "none"}}
Evaluated == OwnJobs \cup SharedJobs

(* Calls without a job may change at will.                                 *)
LEMMA OwnStays ==
  ASSUME \A c \in Calls :
           /\ job[c] = "none" <=> job'[c] = "none"
           /\ job[c] # "none" => call'[c].design = call[c].design /\ call'[c].ref = call[c].ref
  PROVE  OwnJobs' = OwnJobs
BY DEF OwnJobs

LEMMA EvaluatedStays ==
  ASSUME UNCHANGED seeded,
         \A c \in Calls :
           /\ job[c] = "none" <=> job'[c] = "none"
           /\ job[c] # "none" => call'[c].design = call[c].design /\ call'[c].ref = call[c].ref
  PROVE  Evaluated' = Evaluated
<1>1. SharedJobs' = SharedJobs
  BY DEF SharedJobs
<1> QED
  BY <1>1, OwnStays DEF Evaluated

(* A job that is queued adds what its call refers to.                      *)
LEMMA EvaluatedGrows ==
  ASSUME UNCHANGED seeded, NEW c \in Calls, job'[c] # "none",
         call'[c].design = call[c].design, call'[c].ref = call[c].ref,
         \A k \in Calls \ {c} : job'[k] = job[k] /\ call'[k] = call[k]
  PROVE  Evaluated' = Evaluated \cup {[design |-> call[c].design, ref |-> call[c].ref]}
<1>1. SharedJobs' = SharedJobs
  BY DEF SharedJobs
<1>2. OwnJobs' = OwnJobs \cup {[design |-> call[c].design, ref |-> call[c].ref]}
  BY DEF OwnJobs
<1> QED
  BY <1>1, <1>2 DEF Evaluated

(* Shared jobs that stay recorded, or not, for their design.               *)
LEMMA SharedStays ==
  ASSUME \A s \in Seeded :
           /\ seeded[s].row = "none" <=> seeded'[s].row = "none"
           /\ seeded[s].row # "none" => seeded'[s].design = seeded[s].design
  PROVE  SharedJobs' = SharedJobs
BY DEF SharedJobs

LEMMA StepImplements ==
  ASSUME IInv, [Next]_vars
  PROVE  [Policy!Verify \/ Policy!Evaluate]_<<Stored, Evaluated>>
<1>1. /\ job \in [Calls -> JobStates] /\ call \in [Calls -> Call]
  BY DEF IInv, TypeOK, JobStates
<1>2. ASSUME UNCHANGED checks PROVE Stored' = Stored
  BY <1>2 DEF Stored
<1>3. CASE UNCHANGED vars
  BY <1>2, <1>3 DEF vars, Evaluated, OwnJobs, SharedJobs
<1>4. ASSUME NEW c \in Calls, Read(c) \/ Start(c) \/ Join(c) \/ JoinEnds(c)
      PROVE  UNCHANGED <<Stored, Evaluated>>
  <2>1. UNCHANGED <<job, checks, seeded>> /\ call[c].at \in {"idle", "reading", "joined"}
    BY <1>4 DEF Read, Start, Join, JoinEnds, Ready, Admit
  <2>2. job[c] = "none"
    BY <2>1 DEF IInv, Staged
  <2>3. \A k \in Calls \ {c} : call'[k] = call[k]
    BY <1>1, <1>4 DEF Read, Start, Join, JoinEnds, Admit, SetCall
  <2> QED
    BY <1>2, <2>1, <2>2, <2>3, EvaluatedStays
<1>5. ASSUME NEW c \in Calls, Lookup(c) \/ SaveLook(c) \/ SaveWrite(c)
      PROVE  [Policy!Verify]_<<Stored, Evaluated>>
  <2>1. PICK at \in Ats : SetCall(c, at)
    BY <1>5 DEF Lookup, SaveLook, SaveWrite, Ats, Busy, Running
  <2>2. UNCHANGED <<job, seeded>>
    BY <1>5 DEF Lookup, SaveLook, SaveWrite, Unchecked
  <2>3. Evaluated' = Evaluated
    BY <2>1, <2>2, SetCallShape, EvaluatedStays DEF IInv
  <2>4. CASE UNCHANGED checks
    BY <1>2, <2>3, <2>4
  <2>5. CASE checks' = Append(checks, call[c].ref) /\ call[c].at = "saving"
    <3>1. call[c].ref \in Refs
      BY <2>5 DEF IInv, Staged, Referred
    <3>2. Stored' = Stored \cup {call[c].ref}
      BY <2>5, <3>1, StoredGrows DEF IInv
    <3>3. Policy!Verify
      BY <2>3, <3>2 DEF Policy!Verify, Evaluated, OwnJobs, SharedJobs
    <3> QED
      BY <3>3
  <2> QED
    BY <1>5, <2>4, <2>5 DEF Lookup, SaveLook, SaveWrite
<1>6. ASSUME NEW c \in Calls, EnqueueSim(c) \/ EnqueueReport(c)
      PROVE  Policy!Evaluate
  <2>1. /\ SetCall(c, "over") /\ job' = [job EXCEPT ![c] = "queued"]
        /\ UNCHANGED <<checks, seeded>> /\ call[c].tool \in Evaluating
    BY <1>6 DEF EnqueueSim, EnqueueReport, IInv, Staged, Evaluating
  <2>2. job'[c] # "none" /\ \A k \in Calls \ {c} : job'[k] = job[k]
    BY <1>1, <2>1
  <2> DEFINE e == [design |-> call[c].design, ref |-> call[c].ref]
  <2>3. Evaluated' = Evaluated \cup {e}
    BY <2>1, <2>2, SetCallShape, EvaluatedGrows DEF IInv, Ats
  <2>4. e.ref \in Stored /\ e.ref[1] = e.design
    BY <2>1 DEF IInv, Referred
  <2> HIDE DEF e
  <2> QED
    BY <1>2, <2>1, <2>3, <2>4 DEF Policy!Evaluate, Evaluated, OwnJobs, SharedJobs
<1>7. ASSUME NEW c \in Calls, LoadResults(c) PROVE UNCHANGED <<Stored, Evaluated>>
  <2>1. SetCall(c, "checked") /\ UNCHANGED <<job, checks, seeded>>
    BY <1>7 DEF LoadResults
  <2> QED
    BY <1>2, <2>1, SetCallShape, EvaluatedStays DEF IInv, Ats, Busy, Running
<1>8. ASSUME NEW c \in Calls,
             \/ SimEnds(c) \/ JobFails(c) \/ ReportReads(c)
             \/ ReportSaves(c) \/ ReportEnds(c) \/ Publish(c)
      PROVE  UNCHANGED <<Stored, Evaluated>>
  <2>1. UNCHANGED <<call, checks, seeded>> /\ job[c] # "none"
        /\ \E js \in JobStates \ {"none"} : job' = [job EXCEPT ![c] = js]
    <3>1. job = [job EXCEPT ![c] = job[c]] /\ job[c] \in JobStates
      BY <1>1
    <3> QED
      BY <1>8, <3>1 DEF JobStates, SimEnds, JobFails, ReportReads, ReportSaves, ReportEnds, Publish
  <2>2. \A k \in Calls : job[k] = "none" <=> job'[k] = "none"
    BY <1>1, <2>1
  <2> QED
    BY <1>2, <2>1, <2>2, EvaluatedStays
<1>9. ASSUME Edit \/ Deploy \/ \E c \in Calls : Record(c) \/ Fails(c)
      PROVE  UNCHANGED <<Stored, Evaluated>>
  <2>1. UNCHANGED <<job, checks, seeded>>
    BY <1>9 DEF Edit, Deploy, Record, Fails
  <2>2. \A k \in Calls : call[k].at \notin Busy => call'[k] = call[k]
    BY <1>1, <1>9 DEF Edit, Deploy, Record, Fails, Busy, Running
  <2>3. \A k \in Calls : job[k] # "none" => call[k].at \notin Busy
    BY DEF IInv, Staged, Busy, Running
  <2> QED
    BY <1>2, <2>1, <2>2, <2>3, EvaluatedStays
<1>10. seeded \in [Seeded -> Shared]
  BY DEF IInv, TypeOK
<1>11. ASSUME NEW c \in Calls, SimLook(c) \/ SimReplace(c) \/ SimPush(c) \/ PushFails(c)
       PROVE  UNCHANGED <<Stored, Evaluated>>
  <2>1. PICK at \in Ats : SetCall(c, at)
    BY <1>11 DEF SimLook, SimReplace, SimPush, PushFails, Ats, Busy, Running
  <2>2. UNCHANGED <<job, checks>>
    BY <1>11 DEF SimLook, SimReplace, SimPush, PushFails
  <2>3. \A k \in Calls : call'[k].design = call[k].design /\ call'[k].ref = call[k].ref
    BY <2>1, SetCallShape DEF IInv
  <2>4. OwnJobs' = OwnJobs
    BY <2>2, <2>3, OwnStays
  <2>5. \A s \in Seeded :
          /\ seeded[s].row = "none" <=> seeded'[s].row = "none"
          /\ seeded'[s].design = seeded[s].design
    BY <1>10, <1>11 DEF SimLook, SimReplace, SimPush, PushFails, Settled, Shared
  <2>6. SharedJobs' = SharedJobs
    BY <2>5, SharedStays
  <2> QED
    BY <1>2, <2>2, <2>4, <2>6 DEF Evaluated
<1>12. ASSUME NEW s \in Seeded, SeededEnds(s) \/ Expires(s)
       PROVE  UNCHANGED <<Stored, Evaluated>>
  <2>1. UNCHANGED <<call, job, checks>>
    BY <1>12 DEF SeededEnds, Expires
  <2>2. OwnJobs' = OwnJobs
    BY <2>1 DEF OwnJobs
  <2>3. \A k \in Seeded :
          /\ seeded[k].row = "none" <=> seeded'[k].row = "none"
          /\ seeded'[k].design = seeded[k].design
    BY <1>10, <1>12 DEF SeededEnds, Expires, Settled, Shared
  <2>4. SharedJobs' = SharedJobs
    BY <2>3, SharedStays
  <2> QED
    BY <1>2, <2>1, <2>2, <2>4 DEF Evaluated
<1>13. ASSUME NEW c \in Calls, SimRecord(c)
       PROVE  [Policy!Evaluate]_<<Stored, Evaluated>>
  <2> DEFINE e == [design |-> call[c].design, ref |-> call[c].ref]
  <2>1. UNCHANGED <<job, checks>> /\ call[c].tool \in Sims /\ SetCall(c, "pushing")
    BY <1>13 DEF SimRecord, IInv, Staged
  <2>2. \A k \in Calls : call'[k].design = call[k].design /\ call'[k].ref = call[k].ref
    BY <2>1, SetCallShape DEF IInv, Ats, Busy, Running
  <2>3. OwnJobs' = OwnJobs
    BY <2>1, <2>2, OwnStays
  <2>4. PICK s \in Seeded : s = SeedOf(c) /\ s[2] = call[c].ref
    BY <2>1, SeedTyped
  <2>5. e.ref \in Stored /\ e.ref[1] = e.design
    BY <2>1 DEF IInv, Referred, Evaluating
  <2>6. /\ seeded'[s].row = "queued" /\ seeded'[s].design = call[c].design
        /\ \A k \in Seeded \ {s} : seeded'[k] = seeded[k]
    BY <1>10, <1>13, <2>4 DEF SimRecord, Shared
  <2>7. seeded[s].row # "none" => seeded[s].design = call[c].design
    BY <2>4, <2>5 DEF IInv, Pooled
  <2>8. SharedJobs' = SharedJobs \cup {e}
    BY <2>4, <2>6, <2>7 DEF SharedJobs
  <2> HIDE DEF e
  <2>9. Evaluated' = Evaluated \cup {e}
    BY <2>3, <2>8 DEF Evaluated
  <2> QED
    BY <1>2, <2>1, <2>5, <2>9 DEF Policy!Evaluate, Evaluated, OwnJobs, SharedJobs
<1> QED
  BY <1>3, <1>4, <1>5, <1>6, <1>7, <1>8, <1>9, <1>11, <1>12, <1>13 DEF Next

(* Whatever is edited and deployed meanwhile, nothing is simulated and no  *)
(* report is queued but for a design whose own verification is stored.     *)
THEOREM FormalComesFirst == Spec => ImplementsFormalFirst
<1>1. Init => Policy!Init
  BY DEF Init, Policy!Init, Stored, NoJob
<1>2. IInv /\ [Next]_vars => [Policy!Verify \/ Policy!Evaluate]_<<Stored, Evaluated>>
  BY StepImplements
<1> QED
  BY <1>1, <1>2, Inductive, PTL DEF Spec, ImplementsFormalFirst, Policy!Spec, Evaluated, OwnJobs, SharedJobs

==============================================================================
