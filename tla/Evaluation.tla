------------------------------ MODULE Evaluation ------------------------------
(***************************************************************************)
(* How a design is evaluated: it is verified, then simulated and reported  *)
(* on, while the session's design changes and the verifier is deployed     *)
(* anew (registry/facts.py, predicates.py, state.py; tools verify.run.v1,  *)
(* sim.*, report.*; jobs/report_task.py; policy/tool_policy.yaml).         *)
(*                                                                         *)
(* Everything hangs on content addresses.  A verification is stored under  *)
(* the hash of the design and of the verifier's code: here the pair of the *)
(* two.  Simulations and reports carry that reference; the state of the    *)
(* session is derived from what is stored for its current design.          *)
(*                                                                         *)
(* One session, one owner.  A refused call changes nothing and is left     *)
(* out, as are calls that read only.  An identical call that finds a run   *)
(* going on is answered by that run.  How that run is found, and when one  *)
(* is kept for a retry, is the subject of ToolCalls; how a job is queued   *)
(* and ended that of Jobs; how a design is written that of DesignSession.  *)
(***************************************************************************)
EXTENDS Naturals, Sequences

CONSTANTS
  Designs,    \* contents (hashes) of valid designs
  MaxVersion, \* bound on the versions of the verifier
  Rollback,   \* whether an older verifier may be deployed again
  Calls,      \* tool calls of the session's owner
  Stateless,  \* calls that name no session
  None        \* no valid design, no reference, no tool

ASSUME EvaluationAssumption ==
  /\ MaxVersion \in Nat \ {0} /\ Rollback \in BOOLEAN
  /\ Stateless \subseteq Calls /\ None \notin Calls
  /\ None \notin Designs \cup (Designs \X (1..MaxVersion))
  /\ None \notin {"monte_carlo", "trajectory", "verify", "record", "render"}

VARIABLES
  design,    \* the session's latest version: its spec_hash, if it is valid
  open,      \* whether a decisive question is open
  verifier,  \* version of the verifier that is deployed
  checks,    \* the stored verifications, in the order of created_at
  call,      \* what each call is doing, and with which design and reference
  job,       \* status of the job that is a call's own
  seeded,    \* the jobs of seeded simulations, by the id their calls share
  finished,  \* simulations in the order of finished_at
  checked,   \* what the texts of a report were checked against
  shows,     \* what the rendered report shows
  report     \* the reports' rows: drafts, and those that may be downloaded

vars == <<design, open, verifier, checks, call, job, seeded, finished, checked, shows, report>>

Refs  == Designs \X (1..MaxVersion)
Sims  == {"monte_carlo", "trajectory"}
Tools == Sims \cup {"verify", "record", "render"}

(* The id of a seeded simulation is made of its tool, its reference and    *)
(* whether it names the session (_job_id), so the same request has the     *)
(* same job.  Its row in the database, what RQ keeps of it, the copies     *)
(* that are queued or at work, and the design they are given.              *)
Seeded  == Sims \X Refs \X BOOLEAN
Jobs    == Calls \cup Seeded
Shared  == [row: {"none", "queued", "finished", "failed"}, rq: {"none", "live", "done", "failed"},
            left: Nat, design: Designs \cup {None}]
NoJob   == [row |-> "none", rq |-> "none", left |-> 0, design |-> None]

Evidence == [design: Designs \cup {None}, sim: SUBSET Jobs, by: 0..MaxVersion]
Nothing  == [design |-> None, sim |-> {}, by |-> 0]

Running == {"started", "verifying", "saving", "checked", "replacing", "recording", "pushing"}
Busy == {"reading", "joined"} \cup Running
Ats == {"idle", "over", "error"} \cup Busy

(* One that shares a run is "joined" until the run ends; what it holds is *)
(* what it asked for itself.  "shared": it named nothing but its session,  *)
(* and its run is still to be found by such a call.                        *)
Call == [at: Ats,
         tool: Tools \cup {None}, design: Designs \cup {None}, ref: Refs \cup {None},
         open: BOOLEAN, of: Calls \cup {None}, shared: BOOLEAN]

Blank(at) == [at |-> at, tool |-> None, design |-> None, ref |-> None, open |-> FALSE,
              of |-> None, shared |-> FALSE]


Init ==
  /\ design = None /\ open = TRUE /\ verifier = 1 /\ checks = << >> /\ finished = << >>
  /\ call = [c \in Calls |-> Blank("idle")]
  /\ job = [c \in Calls |-> "none"] /\ seeded = [s \in Seeded |-> NoJob]
  /\ report = [c \in Calls |-> "none"]
  /\ checked = [c \in Calls |-> Nothing] /\ shows = [c \in Calls |-> Nothing]

------------------------------------------------------------------------------
(* What is derived from the stored rows.                                   *)

Stored == {checks[n] : n \in 1..Len(checks)}

(* get_session_facts: the newest verification of the design, if any (a set *)
(* of at most one reference).                                              *)
ChecksOf(d) == {n \in 1..Len(checks) : checks[n][1] = d}

(* Mutant: the oldest one.                                                 *)
OldestCheck(d) == {checks[n] : n \in {n \in ChecksOf(d) : \A m \in ChecksOf(d) : n <= m}}

LatestCheck(d) == {checks[n] : n \in {n \in ChecksOf(d) : \A m \in ChecksOf(d) : m <= n}}

Simulated(r) ==
  \/ \E c \in Calls \ Stateless : call[c].tool \in Sims /\ call[c].ref = r /\ job[c] = "finished"
  \/ \E tool \in Sims : seeded[<<tool, r, TRUE>>].row = "finished"
Reported(r)  == \E c \in Calls \ Stateless : call[c].ref = r /\ report[c] # "none"

(* elicitation_complete, and compute_state: the most advanced state whose  *)
(* rule holds.                                                             *)
Complete(d, o) == d # None /\ ~o
StateOf(d, o) ==
  IF \E r \in LatestCheck(d) : Reported(r) THEN "reported"
  ELSE IF \E r \in LatestCheck(d) : Simulated(r) THEN "simulated"
  ELSE IF LatestCheck(d) # {} THEN "verified"
  ELSE IF Complete(d, o) THEN "spec_ready" ELSE "eliciting"
State == StateOf(design, open)

(* latest_finished_simulation: of the owner, in or out of the session (a   *)
(* set of at most one job).  A row that was recorded anew has not          *)
(* finished; when it has, it is the newest.                                *)
MonteCarlo(j, r) ==
  IF j \in Calls THEN call[j].tool = "monte_carlo" /\ call[j].ref = r
  ELSE j[1] = "monte_carlo" /\ j[2] = r /\ seeded[j].row = "finished"
SimsOf(r) == {n \in 1..Len(finished) : MonteCarlo(finished[n], r)}
LatestSim(r) == {finished[n] : n \in {n \in SimsOf(r) : \A m \in SimsOf(r) : m <= n}}

------------------------------------------------------------------------------
(* The start of a call: the session's facts are read statement by          *)
(* statement (get_session_facts), the design first, then what belongs to   *)
(* that design and the answers of that moment.                             *)

Read(c) ==
  /\ c \notin Stateless /\ call[c].at = "idle"
  /\ call' = [call EXCEPT ![c] = [Blank("reading") EXCEPT !.design = design]]
  /\ UNCHANGED <<design, open, verifier, checks, job, seeded, finished, checked, shows, report>>

(* Answers given since do not go with the design that was read: with them  *)
(* its questions may be open or not.                                       *)
OpenSeen(c) == IF c \in Stateless \/ call[c].design = design THEN {open} ELSE BOOLEAN

(* Then the rules of the policy are checked against these facts.           *)

(* derive_facts: what the caller passes wins over what the session has.  A *)
(* caller knows a reference only from a verification that is stored.       *)
SpecOf(c, given) ==
  IF given # None THEN given ELSE IF c \in Stateless THEN None ELSE call[c].design
RefsOf(c, given) ==
  IF given # None THEN {given} ELSE IF c \in Stateless THEN {} ELSE LatestCheck(call[c].design)

(* The arguments a tool has.                                               *)
Takes(tool, givenDesign, givenRef) ==
  /\ tool = "record" => givenDesign = None
  /\ tool \in {"record", "verify"} => givenRef = None

(* Mutant: any reference of the present verifier.                          *)
MatchesVersion(d, r) == r[2] = verifier

Matches(d, r) == r = <<d, verifier>>

(* Mutant: verified_spec without verification_ref_matches_spec.            *)
AllowedByAnyRef(c, tool, d, r, override, seen) ==
  CASE tool = "record" -> c \notin Stateless
    [] tool = "verify" -> d # None /\ (c \in Stateless \/ ~seen \/ override)
    [] OTHER           -> d # None /\ r # None

(* The preconditions of the tools; only the open questions can be          *)
(* overridden.  An answer is recorded in a session.                        *)
Allowed(c, tool, d, r, override, seen) ==
  CASE tool = "record" -> c \notin Stateless
    [] tool = "verify" -> d # None /\ (c \in Stateless \/ ~seen \/ override)
    [] OTHER           -> d # None /\ r # None /\ Matches(d, r)

SetCall(c, at) ==
  call' = [call EXCEPT ![c] = [@ EXCEPT !.at = at, !.shared = (call[c].shared /\ at # "over")]]

(* A call is admitted: it starts a run of its own (of = None), or waits    *)
(* for that of an identical call.  Both name nothing but the session; an   *)
(* answer, a seed or a text may be the same.                               *)
Admit(c, at, of) ==
  \E tool \in Tools, givenDesign \in Designs \cup {None}, givenRef \in Stored \cup {None},
     override \in BOOLEAN, seen \in OpenSeen(c) :
    LET d == SpecOf(c, givenDesign)
        bySession == c \notin Stateless /\ givenDesign = None /\ givenRef = None IN
    \E r \in IF tool \in {"verify", "record"} THEN {None} ELSE RefsOf(c, givenRef) :
      /\ Takes(tool, givenDesign, givenRef)
      /\ Allowed(c, tool, d, r, override, seen)
      /\ of # None => bySession /\ call[of].tool = tool
      /\ call' = [call EXCEPT ![c] =
           [at |-> at, tool |-> tool, design |-> d,
            ref |-> IF tool = "verify" THEN <<d, verifier>> ELSE r,
            open |-> (tool = "record" /\ seen), of |-> of, shared |-> (bySession /\ of = None)]]
      /\ UNCHANGED <<design, open, verifier, checks, job, seeded, finished, checked, shows, report>>

Ready(c) == call[c].at = IF c \in Stateless THEN "idle" ELSE "reading"

Start(c) == Ready(c) /\ Admit(c, "started", None)

(* _running_call finds the run: its handler works for the design that the  *)
(* other call has read.                                                    *)
Join(c) ==
  /\ Ready(c)
  /\ \E w \in Calls : call[w].shared /\ call[w].at \in Running /\ Admit(c, "joined", w)

(* The run returns to whoever waits for it (that it raises is Fails). *)
JoinEnds(c) ==
  /\ call[c].at = "joined" /\ call[call[c].of].at = "over"
  /\ SetCall(c, "over")
  /\ UNCHANGED <<design, open, verifier, checks, job, seeded, finished, checked, shows, report>>

(* A call ends without effect: its arguments are refused by the handler, a *)
(* store fails, the process goes down.                                     *)
Fails(c) ==
  /\ call[c].at \in Busy /\ call' = [call EXCEPT ![c] = Blank("error")]
  /\ UNCHANGED <<design, open, verifier, checks, job, seeded, finished, checked, shows, report>>

------------------------------------------------------------------------------
(* verify.run.v1.                                                          *)

Unchecked == UNCHANGED <<design, open, verifier, job, seeded, finished, checked, shows, report>>

(* The stored answer, or the work.                                         *)
Lookup(c) ==
  /\ call[c].at = "started" /\ call[c].tool = "verify"
  /\ SetCall(c, IF call[c].ref \in Stored THEN "over" ELSE "verifying")
  /\ UNCHANGED checks /\ Unchecked

(* Mutant: the answer is given before it is stored.                        *)
AnswerFirst(c) ==
  /\ call[c].at = "verifying" /\ SetCall(c, "over")
  /\ UNCHANGED checks /\ Unchecked

(* save_verification looks whether the row is there,                       *)
SaveLook(c) ==
  /\ call[c].at = "verifying"
  /\ SetCall(c, IF call[c].ref \in Stored THEN "over" ELSE "saving")
  /\ UNCHANGED checks /\ Unchecked

(* and inserts it; a row inserted meanwhile violates the primary key.      *)
SaveWrite(c) ==
  /\ call[c].at = "saving"
  /\ IF call[c].ref \in Stored
     THEN SetCall(c, "error") /\ UNCHANGED checks
     ELSE SetCall(c, "over") /\ checks' = Append(checks, call[c].ref)
  /\ Unchecked

------------------------------------------------------------------------------
(* Simulations.                                                            *)

(* One without a seed has a job of its own, and so has a seeded one that   *)
(* nobody asks for again.                                                  *)
EnqueueSim(c) ==
  /\ call[c].at = "started" /\ call[c].tool \in Sims
  /\ SetCall(c, "over") /\ job' = [job EXCEPT ![c] = "queued"]
  /\ UNCHANGED <<design, open, verifier, checks, seeded, finished, checked, shows, report>>

(* Any other shares its job.  enqueue_job asks RQ for it: one that is      *)
(* under way or done is reused (a second copy may be under way after the   *)
(* first has failed), a failed one is replaced; one that was never asked   *)
(* for, or that RQ has dropped by now, is recorded.                        *)
SeedOf(c) == <<call[c].tool, call[c].ref, c \notin Stateless>>

SimLook(c) ==
  /\ call[c].at = "started" /\ call[c].tool \in Sims
  /\ LET j == seeded[SeedOf(c)] IN
     \E at \in {"over", "replacing", "recording"} :
       /\ at = "over" => j.rq \in {"live", "done"} \/ (j.rq = "failed" /\ j.left > 0)
       /\ at = "replacing" => j.rq = "failed"
       /\ at = "recording" => j.rq = "none"
       /\ SetCall(c, at)
  /\ UNCHANGED <<design, open, verifier, checks, job, seeded, finished, checked, shows, report>>

(* Its copies in the queue come to nothing, one on a worker goes on.       *)
SimReplace(c) ==
  /\ call[c].at = "replacing" /\ SetCall(c, "recording")
  /\ \E left \in 0..seeded[SeedOf(c)].left :
       seeded' = [seeded EXCEPT ![SeedOf(c)].rq = "none", ![SeedOf(c)].left = left]
  /\ UNCHANGED <<design, open, verifier, checks, job, finished, checked, shows, report>>

(* record_job inserts the row, or resets the one that is there.            *)
SimRecord(c) ==
  /\ call[c].at = "recording" /\ SetCall(c, "pushing")
  /\ seeded' = [seeded EXCEPT ![SeedOf(c)].row = "queued", ![SeedOf(c)].design = call[c].design]
  /\ UNCHANGED <<design, open, verifier, checks, job, finished, checked, shows, report>>

(* The job is queued, or refused by Redis and settled as failed.           *)
SimPush(c) ==
  /\ call[c].at = "pushing" /\ SetCall(c, "over")
  /\ seeded' = [seeded EXCEPT ![SeedOf(c)].rq = "live", ![SeedOf(c)].left = @ + 1]
  /\ UNCHANGED <<design, open, verifier, checks, job, finished, checked, shows, report>>

Settled(row, status) == IF row = "queued" THEN status ELSE row

PushFails(c) ==
  /\ call[c].at = "pushing" /\ SetCall(c, "error")
  /\ seeded' = [seeded EXCEPT ![SeedOf(c)].row = Settled(@, "failed")]
  /\ UNCHANGED <<design, open, verifier, checks, job, finished, checked, shows, report>>

SimEnds(c) ==
  /\ call[c].tool \in Sims /\ job[c] = "queued"
  /\ job' = [job EXCEPT ![c] = "finished"] /\ finished' = Append(finished, c)
  /\ UNCHANGED <<design, open, verifier, checks, call, seeded, checked, shows, report>>

(* A copy of a shared job ends, well or badly (or is cancelled); a row     *)
(* that is settled is left alone.                                          *)
SeededEnds(s) == \E rq \in {"done", "failed"} :
  LET status == IF rq = "done" THEN "finished" ELSE "failed" IN
  /\ seeded[s].left > 0
  /\ seeded' = [seeded EXCEPT ![s].row = Settled(@, status), ![s].rq = rq, ![s].left = @ - 1]
  /\ finished' = IF rq = "done" /\ seeded[s].row = "queued" THEN Append(finished, s) ELSE finished
  /\ UNCHANGED <<design, open, verifier, checks, call, job, checked, shows, report>>

(* RQ keeps the result of a job for a week.                                *)
Expires(s) ==
  /\ seeded[s].rq \in {"done", "failed"} /\ seeded[s].left = 0
  /\ seeded' = [seeded EXCEPT ![s].rq = "none"]
  /\ UNCHANGED <<design, open, verifier, checks, call, job, finished, checked, shows, report>>

(* A simulation of its own or the rendering of a report fails or is        *)
(* cancelled.                                                              *)
JobFails(c) ==
  /\ job[c] \in {"queued", "read", "saved"} /\ job' = [job EXCEPT ![c] = "failed"]
  /\ UNCHANGED <<design, open, verifier, checks, call, seeded, finished, checked, shows, report>>

------------------------------------------------------------------------------
(* report.render_pdf.v1, its job, and report.publish.v1.                   *)

(* What a report is made of at this moment: the session's design, the      *)
(* latest simulation of the verification, the version it prints.           *)
Seen(c) == [design |-> IF c \in Stateless THEN None ELSE design,
            sim |-> LatestSim(call[c].ref), by |-> verifier]

(* The texts are checked number by number against _load_results.           *)
LoadResults(c) ==
  /\ call[c].at = "started" /\ call[c].tool = "render" /\ call[c].ref \in Stored
  /\ SetCall(c, "checked") /\ checked' = [checked EXCEPT ![c] = Seen(c)]
  /\ UNCHANGED <<design, open, verifier, checks, job, seeded, finished, shows, report>>

EnqueueReport(c) ==
  /\ call[c].at = "checked"
  /\ SetCall(c, "over") /\ job' = [job EXCEPT ![c] = "queued"]
  /\ UNCHANGED <<design, open, verifier, checks, seeded, finished, checked, shows, report>>

(* render_report reads the data,                                           *)
ReportReads(c) ==
  /\ call[c].tool = "render" /\ job[c] = "queued"
  /\ job' = [job EXCEPT ![c] = "read"] /\ shows' = [shows EXCEPT ![c] = Seen(c)]
  /\ UNCHANGED <<design, open, verifier, checks, call, seeded, finished, checked, report>>

(* stores the file and its record, a draft,                                *)
ReportSaves(c) ==
  /\ job[c] = "read"
  /\ job' = [job EXCEPT ![c] = "saved"] /\ report' = [report EXCEPT ![c] = "draft"]
  /\ UNCHANGED <<design, open, verifier, checks, call, seeded, finished, checked, shows>>

(* and returns; the job ends.                                              *)
ReportEnds(c) ==
  /\ job[c] = "saved" /\ job' = [job EXCEPT ![c] = "finished"]
  /\ UNCHANGED <<design, open, verifier, checks, call, seeded, finished, checked, shows, report>>

(* The finished report has been reviewed: its link works from now on.      *)
Publish(c) ==
  /\ call[c].tool = "render" /\ job[c] = "finished"
  /\ report' = [report EXCEPT ![c] = "published"]
  /\ UNCHANGED <<design, open, verifier, checks, call, job, seeded, finished, checked, shows>>

------------------------------------------------------------------------------
(* The design changes, and the verifier.                                   *)

(* By the form or by spec.save.v1: any design, valid or not yet.           *)
Edit == \E d \in Designs \cup {None}, o \in BOOLEAN :
  /\ design' = d /\ open' = o
  /\ UNCHANGED <<verifier, checks, call, job, seeded, finished, checked, shows, report>>

(* elicit.record_answer.v1 leaves a new design and nothing else. *)
Record(c) == \E d \in Designs \cup {None}, o \in BOOLEAN :
  /\ call[c].at = "started" /\ call[c].tool = "record"
  /\ design' = d /\ open' = o
  /\ call' = [call EXCEPT ![c] = [Blank("over") EXCEPT !.tool = "record"]]
  /\ UNCHANGED <<verifier, checks, job, seeded, finished, checked, shows, report>>

(* A new verifier: the calls of the old process are lost, the queued jobs  *)
(* go to the new one.                                                      *)
Deploy == \E v \in 1..MaxVersion :
  /\ v # verifier /\ (v > verifier \/ Rollback)
  /\ verifier' = v
  /\ call' = [c \in Calls |-> IF call[c].at \in Busy THEN Blank("error") ELSE call[c]]
  /\ UNCHANGED <<design, open, checks, job, seeded, finished, checked, shows, report>>

Next ==
  \/ \E c \in Calls : Read(c) \/ Start(c) \/ Join(c) \/ JoinEnds(c) \/ Fails(c) \/ Lookup(c) \/ SaveLook(c) \/ SaveWrite(c)
  \/ \E c \in Calls : EnqueueSim(c) \/ SimEnds(c) \/ JobFails(c)
  \/ \E c \in Calls : SimLook(c) \/ SimReplace(c) \/ SimRecord(c) \/ SimPush(c) \/ PushFails(c)
  \/ \E s \in Seeded : SeededEnds(s) \/ Expires(s)
  \/ \E c \in Calls : LoadResults(c) \/ EnqueueReport(c) \/ ReportReads(c)
                      \/ ReportSaves(c) \/ ReportEnds(c) \/ Publish(c)
  \/ Edit \/ \E c \in Calls : Record(c)
  \/ Deploy

Spec == Init /\ [][Next]_vars

TypeOK ==
  /\ design \in Designs \cup {None} /\ open \in BOOLEAN /\ verifier \in 1..MaxVersion
  /\ checks \in Seq(Refs) /\ call \in [Calls -> Call] /\ finished \in Seq(Jobs)
  /\ seeded \in [Seeded -> Shared]
  /\ job \in [Calls -> {"none", "queued", "read", "saved", "finished", "failed"}]
  /\ report \in [Calls -> {"none", "draft", "published"}]
  /\ checked \in [Calls -> Evidence] /\ shows \in [Calls -> Evidence]

------------------------------------------------------------------------------
(* Properties.                                                             *)

(* A session counts as simulated or reported only if the design that was   *)
(* simulated, or for which a report was asked, is the one it has now       *)
(* (registry/state.py: the state "can never disagree with the facts").     *)
StateIsEarned ==
  /\ State = "simulated" =>
       \/ \E c \in Calls \ Stateless : job[c] = "finished" /\ call[c].tool \in Sims /\ call[c].design = design
       \/ \E s \in Seeded : s[3] /\ seeded[s].row = "finished" /\ seeded[s].design = design
  /\ State = "reported" =>
       \E c \in Calls \ Stateless : report[c] # "none" /\ call[c].design = design

(* The state falls back only when the design or its open questions change, *)
(* when a design that another version of the verifier has checked is       *)
(* verified again, or when a simulation the session has is recorded anew,  *)
(* for a call that did not find its result in RQ: the row is reset until   *)
(* the new run ends (repo.py:564).                                         *)
RecordedAnew(c) ==
  /\ call[c].at = "recording" /\ call'[c].at = "pushing" /\ c \notin Stateless
  /\ call[c].ref \in LatestCheck(design) /\ seeded[SeedOf(c)].row = "finished"

Rank == [eliciting |-> 0, spec_ready |-> 1, verified |-> 2, simulated |-> 3, reported |-> 4]
StateFallsForAReason ==
  [][Rank[State'] < Rank[State] =>
       \/ design' # design \/ open' # open
       \/ checks' # checks /\ \E r \in LatestCheck(design) : r[2] # verifier
       \/ \E c \in Calls : RecordedAnew(c)]_vars

(* The advice given when a reference is refused, "Re-run verification"     *)
(* (tool_policy.yaml, verification_ref_matches_spec), is good: once the    *)
(* session's design has been verified again, by a run of the call's own,   *)
(* its reference is accepted.                                              *)
ReverifyHelps ==
  [][\A c \in Calls :
       call[c].tool = "verify" /\ call[c].of = None /\ call[c].at # "over" /\ call'[c].at = "over" =>
         \E r \in LatestCheck(call[c].design)' : Matches(call[c].design, r)]_vars

(* Both: a state is lost for a reason, and what is advised regains it.     *)
NothingLostForGood == StateFallsForAReason /\ ReverifyHelps

(* The run that answers a call *)
RunOf(c) == IF call[c].of = None THEN call[c] ELSE call[call[c].of]

(* What a caller has been told is stored: the verification whose reference *)
(* it was given, the row of the job whose id it was given, the report of a *)
(* job that has finished, and a link works only for such a report.         *)
PromisesAreStored ==
  \A c \in Calls :
    /\ call[c].tool = "verify" /\ call[c].at = "over" => RunOf(c).ref \in Stored
    /\ call[c].tool \in Sims /\ call[c].at = "over" /\ call[c].of = None =>
         job[c] # "none" \/ seeded[SeedOf(c)].row # "none"
    /\ call[c].tool = "render" /\ job[c] = "finished" => report[c] # "none"
    /\ report[c] = "published" => job[c] = "finished"

------------------------------------------------------------------------------
(* What the repository says and the code does not keep.                    *)

(* Of every call, whoever's run answers it: refuted.  An identical call    *)
(* made after an edit joins the run that began before it, and is told of   *)
(* the design before the edit (pipeline.py:366).                           *)
EveryReverifyHelps ==
  [][\A c \in Calls :
       call[c].tool = "verify" /\ call[c].at # "over" /\ call'[c].at = "over" =>
         \E r \in LatestCheck(call[c].design)' : Matches(call[c].design, r)]_vars

(* tool_policy.yaml:536: verify.run.v1 is suggested when "All decisive     *)
(* questions are answered or marked unknown", else more questions because  *)
(* "Some decisive questions are still open.": the state reported in the    *)
(* same answer agrees.                                                     *)
Suggested(c) == IF Complete(call[c].design, call[c].open) THEN "verify" ELSE "next_questions"
SuggestionIsTrue ==
  [][\A c \in Calls : Record(c) =>
       /\ State' = "spec_ready" => Suggested(c) = "verify"
       /\ State' = "eliciting"  => Suggested(c) = "next_questions"]_vars

(* tool_policy.yaml:80: "Verdicts never silently refer to a spec the user  *)
(* has since changed": a report whose texts were checked when the design   *)
(* was the verified one shows that design.                                 *)
ReportOfOneDesign ==
  \A c \in Calls \ Stateless :
    report[c] # "none" /\ checked[c].design = call[c].ref[1] => shows[c].design = call[c].ref[1]

(* report_render_pdf.py:205: the texts are checked against "the same data  *)
(* the worker will put in the PDF".                                        *)
SameData == \A c \in Calls : report[c] # "none" => shows[c].sim = checked[c].sim

(* queue.py:382: a job is recorded so that "the session state              *)
(* ("simulated") and reports can find it after RQ has expired the result": *)
(* refuted.  Asked for again then, or twice at once, its row is reset, and *)
(* until the new run has ended there is no result to be found.             *)
ResultsAreFound == [][\A r \in Refs : Simulated(r) => Simulated(r)']_vars

(* repo.py:496: a verification is stored "unless one with this ref exists":*)
(* only then, or when the process is lost, does the call end in an error.  *)
SavingSucceeds ==
  [][\A c \in Calls : SaveWrite(c) => call'[c].at = "over"]_vars

=============================================================================
