# TE-verifier: a TLA+ model

TE-verifier helps a designer describe a token economy, checks the design against six failure modes, simulates
it and writes reports. This directory models it on two levels:

- the *platform* (`te_platform/`), where a chat agent, tools, background jobs, a browser form, PostgreSQL and
  Redis work on one design session, concurrently and with partial failures;
- the *core* (`verifier/`, `schema/`, `te_platform/elicitation/`): the language of designs, the interview that
  fills one, the static checks with their advice, the expressions rates are written in, the agent-based
  simulator and what is reported of its runs. Nothing runs concurrently there; what is hard is that several parts
  compute the same thing in their own way and must agree after any sequence of edits.

## The system

| Part | State it keeps | Operations | Talks to |
|---|---|---|---|
| Agent loop (`agent/loop.py`, `chat_api.py`) | stored messages, pending calls | POST of a message: load, settle what was paused, ask the model, run its tool calls in parallel, store, pause, end | model provider, MCP bridge, database |
| Tool pipeline (`registry/pipeline.py`) | `_RUNNING`, `_UNCLAIMED` of the MCP process | look up, validate, check access and preconditions, run with a time limit, audit | tool handlers, database, quota |
| Design session (`db/repo.py`, `tools/spec_save.py`, `tools/elicit_record_answer.py`, `agent/spec_api.py`) | versions of the design, answers | record an answer, save a whole design, save from the form, tell the model of a form edit | database (row lock on the session) |
| Background jobs (`jobs/`, `security/quotas.py`) | RQ's hashes and queues, `jobs` table, quota counters, released markers | enqueue, run, settle, cancel, clean up | Redis, database, RQ workers |
| Session state and policy (`registry/state.py`, `predicates.py`, `policy/tool_policy.yaml`) | none (derived from the session's facts) | derive the state, evaluate a tool's preconditions, suggest | database |
| Verification and reports (`service.py`, `tools/verify_*.py`, `jobs/report_task.py`, `tools/report_*.py`) | verifications by hash, reports | verify, render, publish | verifier, jobs, database |
| Elicitation (`elicitation/`, `policy/elicitation_protocol.yaml`) | answers, the design | open items, impact on the verdicts, stopping, applying an answer | verifier, design session |
| Design language (`schema/te_ir.py`, `te_ir_v2.py`) | the document | load and normalise, migrate, adapt | everything below |
| Expressions (`schema/expr*.py`, `verifier/expr_eval.py`) | none | parse, evaluate, translate for the solver | checks, simulator |
| Static checks (`verifier/failure_modes/`, `dispatcher.py`, `minimal.py`, ...) | none | FM1 to FM6, roles, risk, classification, recommendations | language, expressions |
| Trajectory and sensitivity (`verifier/simulate/`) | none | course of a token, inputs that turn a verdict, diagnosis | checks |
| Agent-based simulator (`verifier/abm/`) | supply, balances, stakes, planned rates, agents | a run of periods; snapshots, summary, comparison with the verdicts; picture of a design | language, checks |
| Literature, MCP server, login, web pages, evaluation harness | corpus; none | see `PROJECT.json` | - |

`PROJECT.json` lists every part with its files, the parts that are not modelled with the reason, and every
hazard at the line where it bites. What is hard here:

- *Nothing serialises two requests on one session.* Two tabs may run two turns; parallel tool calls write
  into one design; the form saves while a turn runs.
- *No transaction spans two stores.* A job is a hash in Redis, a row in PostgreSQL and two counters.
- *Read, wait, then act.* The quota is read before it is counted, a row's status before it is written,
  the history before a turn that takes minutes; an agent decides before the others act.
- *A time limit ends the waiting, not the work.* Handlers run on in threads; results arrive late.
- *Turns are cut short.* A closed browser stream cancels the turn wherever it waits.
- *One thing, several readings.* A rate is read by a solver, by an interval rule, at a middle, and by sampling;
  a document is normalised, migrated and drawn. They must not contradict each other, and a verdict or an
  advice must stay true when the author follows it.
- *Books.* Tokens are created and removed at a dozen places in a period; caps, rates, balances and supply must
  agree after all of them.

## Modules

| Module | Models | Checked by | Proved in |
|---|---|---|---|
| `Jobs` | life of background jobs: quota check, enqueue, RQ worker, callbacks, settle, cancel, faults | `jobs_cancel`, `jobs_faults` | `JobsProofs` |
| `JobLedger`, `JobsRefinement` | what the jobs table and the slots promise; Jobs implements it | `jobs_faults` | |
| `Conversation` | the turns of one session, the stored messages and the pending calls | `conversation_turns`, `conversation_faults` | `ConversationProofs` |
| `ToolDialogue`, `ConversationRefinement` | the provider's rule for tool calls; Conversation implements it | `conversation_turns` | |
| `ToolCalls` | step 5 of the pipeline: shared runs, time limits, kept results | `toolcalls_shared` | `ToolCallsProofs` |
| `DesignSession` | versions, answers, the row lock, the merge of a saved design, the form, the note | `session_writers` | `DesignSessionProofs` |
| `DesignLedger`, `DesignSessionRefinement` | every operation on the design as if at once; DesignSession implements it | `session_writers` | `DesignSessionProofs` |
| `Evaluation` | facts of a call, preconditions, derived state, verification store, simulations and reports, new versions of design and verifier | `evaluation` | `EvaluationProofs` |
| `FormalFirst`, `EvaluationRefinement` | the policy "formal verification first"; Evaluation implements it | `evaluation` | `EvaluationProofs` |
| `FailureModes` | the six checks over ranges: rates, conditions, events, schedules, reachability, watched clauses | `verdicts`, `interview`, `language` | `InterviewProofs` |
| `Remedies` | what a failing check recommends, the levers and mechanisms it names | `verdicts` | |
| `Verdicts` | dispatcher, roles, risk, coherence, classification; a design edited and verified again | `verdicts` | `VerdictsProofs` |
| `Trajectories` | course of a token over the horizon, sensitivity alone and in pairs, diagnosis | `verdicts` | |
| `Interview` | open items, what still matters, stopping, answers, corrections, the form | `interview` | `InterviewProofs` |
| `Forms` | the questions of a form, which answers it takes, how a value is shaped for its field | `interview` | `InterviewProofs` |
| `DesignLanguage` | loading and normalising a document, the second language, migration and adapter | `language` | |
| `FlowGraph` | the picture of a design and the warnings beside it | `language` | |
| `Expressions` | parser, trees, evaluation in a simulation, translation for the checks | `expressions` | |
| `Engine` | a run of the agent-based simulator, period by period | `engine` | `EngineProofs` |
| `Explore` | snapshots, summary, comparison with the verdicts, first violation, realised flows | `engine` | `EngineProofs` |
| `MC*` | instances for TLC: model values, symmetry, a few designs, documents and texts | | |

`PROJECT.json` maps every definition to the lines it stands for. Definitions under the comment "Mutant" are
deliberately wrong variants of the definition that follows; the development uses them to make sure that each
property fails when the code is broken in that way.

In the platform's modules an action is what runs between two points at which somebody else may run: a round trip
to one store (`Jobs`), a transaction, a model request or a tool call (`Conversation`), a callback of the event
loop (`ToolCalls`), the time from the row lock to the commit (`DesignSession`), the steps of a tool call between
its reads and writes (`Evaluation`). In the core's modules it is one edit of an author (`Verdicts`,
`DesignLanguage`, `Expressions`), one answer (`Interview`), or one stage of a period or one agent's act (`Engine`).

### Jobs

`rq` and `queue` are RQ's hash and queue, `row` the status column, `released` the `te:jobs:released:*`
markers, `running` and `today` the quota counters of one principal. `act` says what each caller (a thread
in `enqueue_job` or `cancel_job`) and each worker is doing and what it has read. The RQ worker itself is
external: it pops, forks a work horse, marks the job started, runs the callback, and only then stores the
final status; its cleanup gives a started job without a worker to `on_job_failure`.

The code has five windows in which a job may go wrong, and the history variable `tainted` collects the
ids that met one:

- W1: `cancel_job` finds the job queued while a worker has already popped it;
- W2: `enqueue_job` decides to run an id again while another call or worker is busy with it;
- W3: a process is lost between the released marker and the decrement;
- W4: a caller is lost between the row and the queue, or a worker between the queue and "started";
- W5: a store refuses a step of `settle_job` that nothing repeats.

Most properties speak of the untainted ids, so they say that *nothing else* in the code can break them:
the slot counter is exact at every step, a result that is reused is also stored and a job is in one place
(`RecordsAgree`), a final row stays (`FinalRowStays`), the row and the slot move together as `JobLedger`
prescribes, and every recorded job settles (`EveryJobSettles`). `OvershootBounded` holds without exception.

### Conversation

A turn is one POST: it reads history and pending calls once, then works on its own copy (`hist`) and
stores each message as it goes (`log`). A reply is any set of unused tool calls with any stop reason.
`Forms` are calls that pause for a form, `Costly` calls that wait for the user's yes, `BadForms` forms the
loop rejects. `HistoryStands` is about turns that follow one another and are not cut short: the stored history
is one the provider accepts, what the model is told of a call is what happened to it, pending calls cover the
tail, the text of a failed turn is gone, and no turn asks more often than its limit lets it. The run
`conversation_faults` checks what holds whatever overlaps and fails: consent, order, and that every turn ends.

### ToolCalls

A run is named by the call that started it. The guards that look like extra conditions (`OnlyPending`,
and the order between a task's end, its callback and the resumption of a cancelled wait) are the order
in which asyncio runs callbacks. `OldResultsAreRare`: a call gets the result of a run that was over before it
was made only if some call with its key has timed out, and one such result answers one later call.

### DesignSession

A design is a number of tokens and the values of its items. `Begin` takes the row lock and reads,
`Record`, `RecordNames` and `Save` write and commit, `Rollback` gives the lock back; the form's `Put` is a
transaction of its own that starts (`Ask`) before it waits for the lock, because `created_at` is the start
of the transaction. `_merge_answers` is a loop over the answers in the order of their first recording;
`Merge` is its closed form: the answers first recorded before `tokens.ids`, then the list of tokens, then
the others. Several statements of `_load_turn` are one step. A turn that fails with nothing but its first message
stored takes it back, and what the message told with it (`TurnFails`). `NoteIsNews`: of a design the form saved
while no turn ran, a turn that starts alone is told exactly if no stored message tells of it. There is one way out:
the turn that was told failed, and a message of a turn beside it stayed.

### Evaluation

A verification is stored under a hash of the design and of the verifier's code; the model uses the pair of
the two as the reference, so that equality of references is what equality of hashes is in the code.
`checks` are the stored verifications in the order of `created_at`, shared by all users; `job` and `report`
hold the rows a session's state counts. A call first reads the session's design (`Read`), and only then, maybe
after an edit, the verification of that design and what is open (`get_session_facts` reads statement by
statement). `Start` is `derive_facts` and the preconditions of the tool's policy, with any design and any stored
reference the caller may pass, inside a session or without one, with or without a reason to override. A call that
names only its session may instead join the run of such a call (`Join`), whose handler works for what *that* call
has read. The calls then go on in the steps in which they read and write: look up, verify, look and insert (`save_verification`); check
the texts of a report, queue it, let the worker read and store it, publish it. Between any two the design
may be edited (`Edit`, `Record`) and the verifier deployed anew (`Deploy`, which ends the calls of the old
process but not the queued jobs). `state` is not a variable: it is derived, as in `registry/state.py`.

A report, and a simulation nobody else asks for, has a job of its own (`job`). Any other seeded simulation shares
the job of all requests like it: its id (`Seeded`) is made of the tool, the reference and whether the session is
named, as in `_job_id`; other seeds or run counts are other requests. `seeded` holds of each the row, what RQ
keeps, the copies queued or at work, and the design they were given. A call looks the id up in RQ (`SimLook`),
replaces a failed job (`SimReplace`), records the row, *which resets one that has finished* (`SimRecord`), and
queues the job (`SimPush`; `PushFails`), in steps of their own, so that two requests may overlap and a process may be lost
in between; copies end (`SeededEnds`), and RQ drops the result after a week (`Expires`). Reports and
own simulations are queued in one step, and designs written in one; `Jobs` and `DesignSession`
are the detailed models. `FormalFirst` has only the set of stored references and the designs evaluated.
`NothingLostForGood`: a session loses its state only for a named reason, and what the refusal advises
("Re-run verification") regains it. One of the reasons is `RecordedAnew`: a simulation the session has is asked
for by a call that did not find its result in RQ, and does not count until the new run has ended. The repository
says otherwise (`ResultsAreFound`, below).

### FailureModes, Remedies, Verdicts, Trajectories

A design is a record whose ranges are in `span`, by name; Z3 ranges over reals, the model over whole numbers,
which loses nothing where a formula is a sum or product that is extreme at ends of ranges. Creation and removal, and
what the sources of a token's flows create, are taken at their ends or just above zero (`Balances`, in hundredths),
because FM3 asks for creation that is not nothing; that these are the values that decide is part of what is proved. `Check` gives each
mode's status, `Structural` what `minimal.py` makes of it (sound, fragile, broken, ...), `Predicates` the clauses
the simulator watches. `Verdicts` starts from any design of a set; its author narrows a range, declares one, or
follows a recommendation, and `report` is what `dispatcher.verify` says of the result. A design whose ranges
are all single values can be simulated, and `Does` computes what a period of its simulation measures, as
`engine.py` does it and not as the checks do (`Realised`, `Creation`, `Removal`): it asks no condition of a rule; a
regime that has come into force stays, so any whose condition may hold in some period may be the one in force
(`MayHold`); what changes with time is averaged over the simulator's own `SimHorizon`, however long it runs (`RunLength`); a flow's ratio is not applied;
a running economy is cut at its cap. The predicates are looked at at the deployment, and in every later period of a
run without agents, where a period adds up the rules (`Moments`); with agents it is what they choose, which `Engine` models.

- `SoundIsSafe`: a sound verdict on a settled design means that no such period violates a watched clause, whichever
  regimes are in force. `Excepted` names, and only these, the cases in which the simulator does not simulate what was
  checked: where it reads rules or flows otherwise, on the side a verdict rests on (`Apart`: a rate that may fall below
  zero, regimes on an expression or after the checks' horizon, two frequencies, an average that a longer run moves the
  wrong way, creation whose condition can never hold, a flow with a ratio); at the deployment, the cap and removal that
  is drawn anew in each period; FM3 where nothing is created; FM2 without agents; FM4 without a declared γ. Without
  them the property has a counterexample (`SoundIsUnreachable`, below).
- `SharpenOnly`: narrowing a range never turns sound or broken into something else. It excepts what the checks do not
  promise: a token one of whose rates may fall below zero (its condition, once settled, may take away what offset the
  rest); a failure of FM1 or FM3 whose rules depend on conditions, or whose creation is settled at nothing; and
  inequality in a community whose one party is meant to decide.
- `AdviceHelps`: following a recommendation cures the clause it was computed from, and what the explanation
  quotes is true of the design. `AdviceRunsOut`: an author who keeps following advice comes to the end of it,
  provided every advised edit that stays available is made at last (`Persistent`, weak fairness of `Heed`).
- `DiagnosisHolds`: the course shown beside a sound verdict does not contradict it, and a verdict called robust
  is turned by no value of the inputs tried, alone or in pairs.

### Interview

`Forms` has no state: which questions may be shown (`forms.py`, `FormQuestion`), which answers they take, what the
model is told of an answer, and what `record_answer` stores or refuses (`answers.py`). In `Interview` an agent asks
by forms with its estimates, the browser sends values, slips, "I don't know" or nothing, and the model writes every
argument as text (`Stringly`). Items are the slots FM5 and FM6 turn on, with two that the protocol says feed no check
and one reads: `governance_maturity` (FM6) and `proportionality` (FM4). `Ask` is `elicit.next_questions` (what is offered depends on the
verdicts of the design with everything unanswered swept), `Reply`, `Volunteer` and `Save` are answers to what was
asked, answers nobody asked for, and the form. `NothingOpenMatters` compares, once the interview is complete,
the verdicts under *every* assignment of what is open. Its exceptions (`Unfed`) are the answers to those two slots
that turn a verdict: nothing in `feeds` says that they matter, so the interview is complete without them.
`InterviewEnds` needs the agent to ask and the designer to
reply (`Diligent`: weak fairness of each), which is what the prompt makes the agent do.

### DesignLanguage and FlowGraph

`doc` is the text an author edits, `design` what loading made of it at the last save. `Load` does what the
validators of `TokenEconomy` do, in their order: inline triggers become events with generated names, references
are checked, offer variety is derived from assets. `Migrate` is `from_v1`, `ToV1` the adapter; the checks of
`FailureModes` judge both. `FlowGraph` builds the multigraph's nodes and edges and the diagnostics of
`flow_graph.py`; `PictureAgrees` holds them against the checks.

### Expressions

`text` is a sequence of tokens edited at random; `Parse` is the recursive descent of `expr_parser.py`, level by
level. `Evaluate` works on fractions as the simulator works on floats, `Formal` is the solver's reading. The
reference for the parser is a printer (`Written`) that knows only the ranking of operators. `MeaningsAgree`
compares the two evaluators under the same bindings, `RatesAreChecked` every rate a simulation can run with and the
terms the checks were given. A simulation goes on (`RunLength`) after the last period the checks look at (`Horizon`);
rates that read the period then are a named exception, since the checks never see them.

### Engine and Explore

A period is one `_step_state`: rates brought up to date (regimes, supply-dependent rules), population events,
choices made, agents acting one after another, the rest of the burn pool, flows between tokens, exits. What is
sampled is any member of a set; amounts are whole. `BooksBalance`: no supply exceeds its cap, agents hold no more
than was issued, and the reported rates explain the change of supply of every token. `PlanRealised`: what agents
realise stays within the planned pools, and the burn pool is drawn as far as balances allow. `BaselineIsTheRules`:
however often rates are patched, the plan is the sum of what the rules contribute now. `StakedStays`: nothing
touches a staked balance. `Explore` adds the snapshots; `ReportsAgree` says that summary, coherence table and Monte
Carlo count tell one story of a run.

## Runs

Every run passes; each takes between 20 seconds and three minutes with two workers.

| Run | Bounds | States | Shows |
|---|---|---|---|
| `jobs_cancel` | one seeded and one random job, 1 caller, 2 workers, limits 2 | 752,619 | slots, rows and copies while jobs are enqueued, run, killed, stopped, cancelled and enqueued again |
| `jobs_faults` | one seeded job, 2 callers, 1 worker, limits 1, one fault of any kind | 537,406 | overshoot, the ledger and progress when a worker, a caller or a store fails once |
| `conversation_turns` | 3 POSTs in sequence, 4 calls (two alike, one costly, one form), limit 3, one provider failure | 585,489 | a valid history before every request, pauses, confirmations, forms, limits, the reminder; the dialogue |
| `conversation_faults` | 2 POSTs at once, one costly call and a bad form, limit 1, two faults of any kind | 99,348 | consent, order of results, every turn ends |
| `toolcalls_shared` | 3 identical calls and one of another caller, one handler that may hang | 148,680 | no run twice, fresh results, one hand-over, every call and every entry ends |
| `session_writers` | one question and one per-token question, 2 tokens, 2 recorders, 1 saver, 1 form save, 2 turns, 2 designs | 1,344,001 | answers and versions together, no silent loss, the note, the ledger |
| `evaluation` | 3 calls of any tool, one without the session, 2 designs, 2 versions of the verifier | 368,068 | the derived state is earned and falls only for a reason, verifying again helps, what was promised is stored, formal first |
| `verdicts` | fourteen designs of one or two tokens, horizon 4, averages and simulations of 6 periods, quantities up to 12, edits in every order until all is settled | 11,020 | verdicts, advice and diagnosis against the simulation of what the design settles to |
| `interview` | two tokens, one or two values a slot and four slips, a model that writes arguments as text, one unasked answer, correction or form save | 481,707 | the interview ends, and rightly |
| `language` | two documents of two tokens, three edits (rules with a condition or a distribution, events that occur at random), saves and re-reads anywhere | 342,285 | loading, migration and picture keep what a design says |
| `expressions` | six texts with every construct, two edits, seven words: a minus, a product, a bracket, a conjunction, a number, an identifier, a namespace; horizon 2, simulations of 4 periods | 115,337 | precedence, and one meaning for simulation and checks |
| `engine` | 4 periods, 3 agents of 2 types and one arrival, 2 tokens with caps, 3 flows, a regime and a supply-dependent rule | 808,520 | the books of a run and the reports of it |

The bounds are chosen so that every conflict can occur: it takes two holders of one id to race and one
fault to hit each window; three POSTs for a pause, its confirmation and a later turn; three identical calls
for a run, its retry and a call that comes too late; two recorders and a saver for a lost update; three calls to
verify, simulate and report, two designs and two versions so that a reference can be wrong in either half. The
designs of `verdicts` are chosen one per way of computing (conditions and regimes, schedules, capped and uncapped
flows, rates that change over the horizon, each topology, each kind of vote), with two to four open ranges each,
so that narrowing, declaring and advice interleave; a simulation is longer than the checks look, as in the code (260
periods to 52), so that the two averages of a rate that fades differ. Three edits of a document are enough to add a rule, save, and
add one before it; two edits of a text reach every pair of neighbouring operators and every misplaced bracket.
Four periods let a regime start, a stake of two periods end, an agent leave and another arrive. More
faults, a third worker or a third token add states of the same kinds. A third chat turn does not (one that is told,
one beside it, one that comes after both): three turns with one recorder were checked apart, and the theorem is for
any number. Symmetry is used only in runs without liveness.
Deadlock is switched off where a model ends on purpose: all calls made, all POSTs over, the last period run, an
author who stops.

## Fairness

- `Jobs`: a call is synchronous code on a thread and runs to its end; a worker blocks on its queue, runs
  what it pops (tasks have a `job_timeout`) and RQ repeats its cleanup. No fairness for requests, cancels,
  stop commands, deaths or failures.
- `Conversation`: every await of a turn ends (the provider's and the bridge's requests have timeouts), so
  weak fairness of `Advance`, the steps a turn takes by itself. None for POSTs, faults, the deadline and the
  token budget: `EveryTurnEnds` holds without them.
- `ToolCalls`: the event loop runs every due callback and timer. A handler in `Hanging` never returns.
- `Interview`, `Verdicts`: the program only answers; that somebody goes on asking, replying and following the
  advice is the assumption under which ending is claimed, and the only one.

## Proofs

The assumptions are those the modules state about their constants (`JobsAssumption`,
`DesignSessionAssumption`, ...); any number of jobs, callers, workers, POSTs, calls, questions and tokens.

- `JobsProofs`: `TypeCorrect` needs to know what an actor holds at each point of its program (`Sound`: who
  is past the lookup has a job, who settles has an outcome). `QuotaOvershoot` rests on `QuotaInv`: the
  counter plus the callers that passed the check and have not counted yet is at most the limit less one
  plus the number of callers; a caller is counted once because it holds one job at a time.
  `ThreeRecordsAgree`, `FinalRowKept` and the refinement `LedgerImplemented` rest on `Good` and `CountInv`: for each
  untouched job, where it is (in the queue, in one worker's hands, being enqueued, being settled) determines what
  its row and its slot say (`Tidy`); and as long as no window was hit, the counter is the number of slots taken and
  nobody reaches the clamp at zero. Where `LREM` finds the first copy of a job in the queue is the minimum of a set
  of naturals, taken from the well-foundedness of strict inclusion (lemma `Smallest`).
- `ConversationProofs`: `Consent` (a costly call is executed only after a POST confirmed it) is not
  inductive: a call is executed some steps after it is sent. `SentHasConsent` says that every costly call
  a turn has sent was confirmed. `NothingRunsTwice` keeps an account of each call (`Account`): its runs, plus the
  turns that may still run it, are at most the POSTs that confirmed it, or one for a free call, which only the turn
  that asked for it can hold. It led to a correction of the model: calls of a bridge that failed must not count as
  sent any longer.
  `QuietHistory` and `QuietDialogue` assume what their run assumes (`Quiet`): turns follow one another, and only the
  provider fails or a limit is reached; without it both have counterexamples, listed below. The invariant is `Calm`:
  one turn at most is running; what it holds, or what is pending, is exactly what the last stored message asked for;
  the stored history is paired up to there; and a call has run if a stored result or the turn says so.
- `ToolCallsProofs`: `NeverTwice` and `FreshWithoutTimeout` from one invariant: an entry belongs to its key, a
  mark or a kept result has a time-out behind it, only kept runs stay registered after their end, and a run handed
  over late is not registered any more. `RetryIsServed` adds that a run a caller waited for in vain is the registered one
  of its key, the only one under way and still unclaimed, until it is received, dropped by its timer or a run of the
  key is kept (`Standing`).
- `DesignSessionProofs`: `SavedTogether`, `NothingLostSilently`, `NoteOnce` and the refinement `Implements`. The
  strengthening is `HoldsCurrent`: a writer that holds the row lock has read the latest version, and there is
  one such writer. It is what the lock is for; without it (`BeginUnlocked`) the two and the
  refinement fail. `NoteOnce` rests on `Telling`: a form's save that counts as quiet waits while no turn runs, and of
  the turns since such a save, one was given the note before any spoke, and told it or failed (`Since`). An attempt
  without the exception failed, and three turns in TLC showed why: the property had held only because its run has two.
- `EvaluationProofs`: `StateAlwaysEarned`, `PromisesAlwaysStored`, `NothingLost` and the refinement
  `FormalComesFirst`. The strengthening says of each call that the reference it evaluates is stored and is of its own design
  (`Referred`), that its job and the report's row are at the point its own steps have reached
  (`Staged`, `Filed`), that the run it shares is one of the same tool and ends before it (`Linked`), and that a
  simulation whose id it was given is recorded (`Answered`); of each shared job, that it is recorded before it is queued,
  for a design whose verification is stored (`Pooled`). Stored verifications only grow, so it does not matter what is edited meanwhile. `NothingLost` assumes that no older verifier is deployed
  again, as its run does, and names the recording of a simulation anew among the reasons: nothing else takes a finished
  row back (`RowsReset`). Then the stored verifications are in the order of their versions, each once, and a call
  that has not stored its own refers to the present version (`Kept`), so a verification by the present version is the
  newest of its design.
- `EngineProofs`: `SupplyCapped` (no step takes a supply above its cap: every place that creates tokens asks
  `Room` or `Clipped` first), `PlanIsTheRules` (what the reports call the plan is the fixed part and one part per
  applied patch) and `StakesAreSafe`. The last is not inductive: an agent whose stake
  runs must also not have chosen to spend or to stake again when its turn comes, which is `StakersRest`.
  `PlanIsRealised` rests on `Schedule`: while the agents act, what has been realised and the shares of those who
  still wait fit into the pools (`Planned`); and after the rest of the burn pool has been shared out in proportion
  to the balances, either the pool is drawn or nobody who redeems has anything left (`Drawn`).
  `BooksAlwaysBalance` rests on `Books`: what the agents hold never adds up to more than the supply (`Issued`), so that
  no clip at zero ever takes from the supply less than what a balance lost, and in every stage the supply a period
  opened with, plus its creation, is the supply plus its removal (`Explained`). `ReportsAlwaysAgree` adds `Record`:
  the snapshots are the books at the end of each period (`Recorded`), and the differences they show telescope to the
  totals of the summary (`Tallies`). Both suppose `NothingUnissued`, which the run's instance satisfies: nobody comes
  with tokens that were not issued, and no flow burns the token the agents hold. Without it both have counterexamples,
  listed below. `ExploreAssumption` says of the clauses that are watched only what the checks produce: coverage is
  bounded from below (`fm3_burn_emission.py`), and the types of agents are not called like the pools.
- `InterviewProofs`: `StoppingIsSound`. The invariant is `Filled`: a field holds something it takes, and participants
  and demand, which no form may leave out, are there once they were answered. When the interview is complete, only the
  Gini coefficient, the topology and the degree can be open, and the two slots that feed no check. FM5 has then settled over every topology and
  degree, and that is for the number of participants alone, because the network rule decides nothing
  (`NetworkDecidesNothing`); FM6 is sound with every inequality, so the shares that temper it keep it below the
  threshold whatever is answered (`SettledFM6`); and FM4 reads none of what is open but proportionality,
  whose answers up to three are the same to it (`SameFM4`). The
  module also proves what holds of every design and range: more creation never cures a burn that does not cover it
  (`CreationNeverCures`). And of every question, answer and
  slot: an estimate that is shown can be kept (`EstimateCanBeKept`), an accepted range is the range the design holds
  (`RangeArrives`), and whether a model writes arguments as text does not matter except for a bare number or flag in a
  slot of another kind (`TextIsNoObstacle`).
- `VerdictsProofs`: `SoundIsAlwaysSafe`. The invariant is `Current`: the report is the one on the design as it stands.
  The rest is about one design that is `Formed` (what the schema accepts; `AdviceHelps` has TLC check that every edit
  leaves the design so) and whose ranges are single values. Nothing is assumed of the length of a run, and of the simulator's average only that it is over no fewer periods than
  the checks'. A regime that may
  be in force in some period is one the checks have counted with (`MayHoldIsNotNever`, `InForceIsLive`), and a longer
  average moves a rate only the way it grows or falls (`SimSlopeIs`, `DrawnIs`), so each rule creates no more, or
  removes no less, than what the checks took it for (`PaidIs`, `RealisedIs`, `AmountIs`), though no condition is
  asked of it. Added up, no period creates more than the one end of the token's creation or removes less than the
  other end of its removal (`CreationIsCounted`, `RemovalIsCounted`), also where the cap cuts creation, and that pair
  is among the balances FM1 and FM3 look at (`WorstIsChecked`, `PeriodIsWithin`). FM2, FM4, FM5 and FM6 compare single
  values with the thresholds their clauses carry (`SafeFM1` to `SafeFM6`, `SoundMeetsAll`); for FM5 this needs that its
  network rule decides nothing.
  `SettlingSharpens` is monotonicity, check by check (`FM1Passes` to `FM6Fails`): every amount a check computes on the
  narrowed design lies within what it was (`Inside`, from `VarietiesInside` and `RuleRateInside` up to `SidesInside`),
  and a condition that was certain or impossible stays so (`StatusSharper`). The step that is not monotone is the choice
  of what the sources of flows create, since creation and removal both grow with it. Each weighed sum of the two
  is linear in what one source creates, so it is greatest at a corner (`CornerReached`), where every source that
  creates something still does: whatever balance the narrowed design has, the wider one has a balance among those the
  checks look at that is at least as bad (`WorstAtCorner`), or at least as good (`LeastAtCorner`, `CoveredBefore`).
  It supposes that the schema accepts each design (`[]Formed(design)`), as the verifier does. It corrected the model:
  the emission of a source is a range to the solver, not a choice between two ends. And it set the exceptions: the
  property as it stood was false of designs that the run does not contain.

Sums over agents, rules, flows and periods would seem to need induction over data. Instead, the library's definition
is characterised without it: strict inclusion on a finite set is well founded, so if a sum had not the property
claimed there would be a least set without it (`LeastSet`), and taking one element out contradicts that. From there
the proofs use sums only by lemmas: one term changes, one is taken out, term by term, two disjoint sets, a factor.

Only model-checked:

- liveness (`EveryJobSettles`, `EveryTurnEnds`, `EverythingEnds`, `AdviceRunsOut`, `InterviewEnds`), because ENABLED
  and fairness are out of the prover's reach;
- `PrecedenceHolds`, `MeaningsAgree` and `RatesAreChecked`: parser, trees and evaluators are recursive operators;
- `LoadKeepsMeaning`, `MigrationKeepsVerdicts` and `PictureAgrees`: names are generated by putting strings together,
  of which the prover knows nothing, and what a design means is recomputed by folds over the rules of whole documents;
- `DiagnosisHolds` and `AdviceHelps`: they compare a design with its course over the periods, or with what becomes of it
  when advice is followed, through divisions and case distinctions that have not been taken apart into lemmas.

## What the repository says and the code does not do

None of the runs above contains these; each is reproduced by starting from a run's configuration, making the
changes named, and checking the one property. A `-` leaves the constants as they are.

| Run | Changes | Property | What happens |
|---|---|---|---|
| `jobs_cancel` | `Fresh = {}`, `Workers = {w1}`, limits 1 | `FirstReportWins` | a caller's cancel and a worker's callback both find the row not final and both write it: a final status flips (`repo.py:642`; the comment above: "the FIRST report wins") |
| `jobs_cancel` | `Fresh = {}`, `Workers = {w1}`, limits 1 | `CancelledNeverRuns` | a worker has popped the job that `cancel_job` finds queued: it runs after it was cancelled and settled (`queue.py:439`: "it will never run") |
| `jobs_cancel` | `Seeded = {}`, `Workers = {w1}`, limits 1 | `EverySlotComesBack` | as before, then both ends are settled: the counter is not back at 0 when everything is idle |
| `jobs_faults` | `Cancelling = FALSE`, limits 2, no faults, `Spec` | `IdenticalRequestsShare` | two identical requests overlap: both look the id up before either has pushed it (`queue.py:33-35`) |
| `jobs_faults` | as before, `Seeded = {}`, `Fresh = {f1, f2}`, `MaxConcurrent = 1` | `QuotaRespected` | two calls of one user pass the check before either is counted (`OvershootBounded` says by how many) |
| `conversation_faults` | `Uses = {f1, c}`, `BadForms = {}`, limit 2, `Overlapping = FALSE`, `FaultKinds = {"lost", "limit"}`, `Spec` | `EveryCallAnswered` | a turn cut short between storing a reply and storing its results leaves calls nothing will answer (`loop.py:176-177`) |
| `conversation_faults` | as before, `FaultKinds = {"cut", "limit"}` | `EveryCallAnswered` | a reply cut at `max_tokens` in the middle of its calls ends the turn without answering them (`loop.py:702`) |
| `conversation_faults` | as before, no faults, `Overlapping = TRUE` | `EveryCallAnswered` | the messages of two overlapping turns interleave in the stored history |
| `conversation_faults` | as before, no faults, `Overlapping = FALSE` | `UnfinishedMeansCutShort` | a turn that ended at a limit is shown as cut short (`transcript.py:72-74`) |
| `toolcalls_shared` | `Calls = {a1, a2, a3}`, `Hanging = {}`, `Spec` | `KeptForOneRetry` | a result already received by a retry is given to a further call (`pipeline.py:155`: "kept for ONE retry") |
| `toolcalls_shared` | as before | `ForgottenAtOnce` | a time limit that fires just after the end marks the *next* run of the key, whose result is then kept (`pipeline.py:153-154`) |
| `toolcalls_shared` | as before | `RetryFindsResult` | the retention timer of an earlier run drops the mark of the present one, and the retry starts a second run |
| `session_writers` | `Recorders = {}`, `Savers = {}` | `FormEditAnnounced` | a form edit made while a turn runs is never announced to the model (`repo.py:420-421`: "the model learns of it only through a note, once") |
| `session_writers` | three turns, `Recorders = {r1}` | `NoteIsNews` without its exception (`Hidden`) | a turn that was told fails and its message is deleted, while the message of a turn beside it stays: no later turn learns of the edit (`repo.py:421-435`) |
| `session_writers` | `Recorders = {r1}`, `Tabs = {}`, `Turns = {}` | `SpecStands` | saving a design with more tokens than the answer to `tokens.ids` named cuts it down and calls that restoring an answer (`spec_save.py:51-52`: "the spec's value stands") |
| `evaluation` | one version, `Calls = {c1, c2}`, `Stateless = {}` | `EveryReverifyHelps` | a call made after an edit finds the run of an identical call made before it, and is answered with the verification of the design before the edit (`pipeline.py:366`) |
| `evaluation` | one design, one version, `Calls = {c1}`, `Stateless = {}` | `SuggestionIsTrue` | suggestions are computed from the facts loaded before the handler ran: the answer that completes the interview reports `spec_ready` and suggests more questions |
| `evaluation` | one version, `Calls = {c1, c2}`, `Stateless = {}` | `ReportOfOneDesign` | a report queued before an edit shows the edited design beside the verdicts of the design before it (`tool_policy.yaml:80`) |
| `evaluation` | one design, one version, `Calls = {c1, c2, c3}`, `Stateless = {}` | `SameData` | a simulation ends after the texts of a report were checked: the report shows another one |
| `evaluation` | one design, one version, `Calls = {c1, x1}` | `SavingSucceeds` | two identical verifications at once: the second insert violates the primary key |
| `evaluation` | one design, `Rollback = TRUE`, `Calls = {c1, c2, c3}`, `Stateless = {}` | `ReverifyHelps` | the verifier is rolled back: the old row is found, no new one written, and the newest reference stays refused |
| `evaluation` | one design, one version | `ResultsAreFound` | a seeded simulation that has finished is asked for again after RQ has dropped its result, or by a request that overlapped the first: its row is reset, and the session falls back with no edit (`queue.py:382-383`: "so the session state ("simulated") and reports can find it after RQ has expired the result"; `repo.py:564`) |
| `verdicts` | - | `SoundIsUnreachable` | a design that is sound to the checks is simulated otherwise: by a longer average, with rules whose conditions never hold, without ratios and, at the deployment, caps (`minimal.py:22`: "SOUND: violation unreachable") |
| `interview` | `Spec` | `NothingAtAllMatters` | the interview is complete with governance maturity open, and the answer "indefinite" turns FM6; so does proportionality FM4: the protocol gives neither slot a check to feed (`ranking.py:40-41`: "nothing still unknown can change a verdict") |
| `interview` | `Spec` | `NothingUnknownMatters` | a token removed and put back is new, and its old answer still counts as given: what the design lacks is never asked again (`ranking.py:37`) |
| `language` | - | `DanglingIsRejected` | a reference to an event that does not exist is captured by a generated name, which is added before references are checked (`te_ir.py:1546`, `1622`) |
| `language` | - | `VarietyIsOffered` | offer variety derived from assets stays when the assets are gone (`te_ir.py:1662`) |
| `language` | - | `EveryDesignMigrates` | designs with algorithmic emissions, regimes or expressions are refused by the second language, and conditions, caps and utility hints are dropped on the way back, distributions on the way there (`te_ir_v2.py:1398`, `1402-1417`) (`te_ir_v2.py`: "Every v1 IR produces a valid v2 IR with identical observable behavior under the v1 FM checks") |
| `expressions` | - | `NegativeRatesAreChecked` | a negative rate is none to the simulator where the expression reads the state (`engine.py:424`), and not considered by the checks where they have no term for it |
| `expressions` | - | `LaterRatesAreChecked` | the checks bind `state.t` to their horizon of 52 periods (`asymptotic.py:326-327`), a simulation runs for 260 by default and up to 10000 (`engine.py:119`, `te_ir.py:1301-1306`): a rate that reads the period runs where nothing was checked |
| `expressions` | - | `CheckedRulesRun` | a rule the checks accept cannot be run: `const.horizon` is not bound in a simulation (`expr.py:43`) |
| `engine` | `RegimeRates = {1, 2}`, `Leaving = {work, spend}`, `Population <- MCArrival`, `Spec` | `IdsStayUnique` | ids are the number of agents: after somebody has left, an arrival gets an id that is taken (`events.py`: "stay unique") |
| `engine` | `Population <- MCEveryoneLeaves`, `Spec` | `PoolGoesUnspent` | when everybody has left, the rules are applied in aggregate instead of leaving the pool unspent (`actions.py`, `compute_pool_shares`) |
| `engine` | as for `IdsStayUnique` | `DelegatesPresent`, `VotesAreCurrent` | delegates who have left keep their votes; the votes shown are those of the last reckoning |
| `engine` | `Population <- MCEndowed`, `Spec` | `HeldIsIssued` | an arrival's balance is not added to the supply |
| `engine` | `Flows <- MCPrimaryBurned`, `Spec` | `HeldIsIssued` | a flow that burns the token the agents hold takes it from the supply and from nobody's balance (`engine.py:838-845`) |

Also found while modelling, not as a counterexample of a run:

- *Checks.* A burn conditional on an event of the catalogue counts as certain, although a burn is to count only if it
  always happens (`conditions.py:15-24`, `165-175`); conditions of events are never read (`events_resolver.py:65`);
  a flow's source is taken without catalogue frequencies or regimes, and burn flows follow its bare rates;
  an expression hides a rule's regimes; creation that can be negative is netted against the rest where no sign is
  checked. For the last reason settling a condition can turn sound into not
  sound; and where capture is meant, a community that may be too unequal for it is broken until its votes are known to
  be equal enough (`SharpenOnly` excepts both). The network rule of FM5 decides
  nothing: where it passes, the well-mixed rule passes too (proved: `NetworkDecidesNothing`). FM4 marks its share of
  contributors as committed where it is a range. FM6's count of what must be demoted hides a Gini violation until it
  has been followed. The BROKEN text of `minimal.py` ("for every assignment") does not fit conditions that hold only
  at times.
- *Checks and simulator.* The simulator counts a rule whose condition can never hold, since it asks no condition of a
  rule (`engine.py:403-434`); averages schedules and fading rates over its own 260 periods (`engine.py:119`, `176-185`),
  the checks over 52 (`asymptotic.py:52`, `100-111`); applies no `coupling_ratio` (`engine.py:437-442`, `825-846`); keeps
  a regime after its condition has ended (`regimes.py:116-133`); and has no cap at the deployment.
  `Excepted` names where a verdict suffers from it.
- *Advice.* FM6 advises to tighten the cap and to raise the average lock although effective Gini falls with both, and
  says that the token Gini will not help when it is the one that was read. FM4's mechanisms are chosen by γ with T−R
  held fixed, which the mechanism sets too, and "safe" includes the violation's boundary (as FM2's τ does). FM3's
  "raise the lower bound" for a near-zero emission never helps, since its violation grows with emission (proved: `CreationNeverCures`).
  The upper bound that is quoted as an over-estimate is none for polynomials, and leaves out flows and regimes;
  "more than 10×" compares three times.
- *Forms.* A multiple choice answer that ticks what was estimated and adds a text under "Other" counts as the
  estimate kept (proved: `OtherGoesUnnoticed`), though "Kept = the same value as proposed" is said of an answer the
  designer did not change.
- *Trajectories.* The only input FM3's sensitivity tries is one FM3 never reads; conditions and regimes are not
  followed; a supply cap is overshot by up to one period's contribution; another token's rules never reach their caps
  within a flow; the horizon of the checks is 52 whatever is plotted.
- *Simulator.* Rates are never judged in the first 52 periods; a population event with `at_period` 0 never fires, one
  with conditions too may fire twice (`te_ir.py:1033`); final balances are assigned by position in the *initial* list
  of agents; the realised totals on the graph take the last period for a total; coherence demands one alternative of a
  group in all periods where the Monte Carlo accepts one in each; exits are offset by arrivals in the summary.
- *Language and picture.* Events generated for a rule stay when the rule is gone. Of two flows between the same pools
  only the last is drawn; the flow of a mint is drawn from the source's burn while the checks couple it to its
  emission; a token created by a flow alone and never burned gets no warning.
- *Expressions.* `math.log(0)` is not caught; parameters of two rules with one name share a solver variable;
  `asset.t` is read as `state.t`; aggregates over agents and tokens are 0 for the checks; `2^3^2` is rejected though
  `^` is said to associate to the right; `clamp` with its ends exchanged differs between the two evaluators.

## Not modelled, and what comes next

Text and its layout, library code (RQ beyond what the workers do, SQLAlchemy, anyio, Z3), distributions beyond their support, and
formulas over reals that whole numbers do not reach (square roots, logarithms, exponentials, Gini coefficients,
network metrics) are outside. In `Engine` reputations, growth and non-tokenized assets are left out; in `Interview` the
slots that only FM1 to FM4 read (but proportionality); resilience and circulation speed, which feed no check either and
FM3 and FM2 read, are among them. The simulation that `SoundIsSafe` is about has participants that neither grow in
number nor leave, frequencies that do not vary, an unread function drawn anywhere from 0 to `Top`, and, in the place of
a sequence of regimes, any that can be in force; with agents, only its deployment is considered. `PROJECT.json` gives a reason for every part. Next, in order:

1. Kept results (`ToolCalls`) composed with `Evaluation`: what a retry is told after an edit.
2. The other slots of the interview, and the wizard that fills a design from recommendations.
3. Proofs: that an author's edits keep a design `Formed`; loading a document (`LoadKeepsMeaning`) once generated names are an abstract injection.
4. Literature ingestion (`literature/ingest.py`): restarts between chunking, embedding and publishing.
