---------------------------- MODULE DesignSession ----------------------------
(***************************************************************************)
(* One design session as its writers see it: the versions of the design,   *)
(* the designer's answers, the lock on the session row and the note that   *)
(* tells the model of a form edit (te_platform/db/repo.py; the tools       *)
(* elicit.record_answer.v1 and spec.save.v1; agent/spec_api.py and         *)
(* agent/chat_api.py).                                                     *)
(*                                                                         *)
(* A transaction is what its caller does between two commits: taking the   *)
(* row lock, and everything up to the commit that releases it.             *)
(*                                                                         *)
(* A design is its number of tokens and the values of its items: an item   *)
(* is a question of the protocol (index 0) or a per-token question and a   *)
(* token.  The list question tokens.ids, which creates the tokens, is      *)
(* apart (`named').  Names, and the shapes of values, are left out.        *)
(***************************************************************************)
EXTENDS Naturals, Sequences

CONSTANTS
  Scalars, PerToken,  \* questions asked once, and once for each token
  MaxTokens,          \* bound on the tokens of a design
  Values,             \* what a designer may answer
  Needed,             \* questions whose field the schema requires
  Unknowable,         \* allow_unknown: "unknown" is an answer
  Absentable,         \* unknown_means_absent: it leaves the field empty
  Recorders, Savers,  \* calls of elicit.record_answer.v1 and of spec.save.v1
  Tabs,               \* saves of the form
  Turns,              \* chat turns
  Drafts,             \* designs that a save or the form may hand over
  Free                \* no holder of the row lock

Writers == Recorders \cup Savers
Calls   == Writers \cup Tabs

VARIABLES
  versions,   \* spec_versions, oldest first
  answers,    \* the latest answer to each item
  named,      \* the latest answer to tokens.ids
  lock,       \* who holds the session row (SELECT ... FOR UPDATE)
  call,       \* what each call is doing
  turn,       \* what each turn is doing
  after,      \* turns with a message not older than the latest version
  announced   \* history: <<turn, version>>: a stored message tells of the version

vars == <<versions, answers, named, lock, call, turn, after, announced>>

Items == (Scalars \X {0}) \cup (PerToken \X (1..MaxTokens))
Held  == Values \cup {"none", "swept"}

Design == [tokens: 0..MaxTokens, val: [Items -> Held]]
Proper(d) == \A i \in Items : i[2] > d.tokens => d.val[i] = "none"
Valid(d)  == /\ Proper(d) /\ d.tokens > 0
             /\ \A i \in Items : i[1] \in Needed /\ i[2] <= d.tokens => d.val[i] # "none"

ASSUME DesignSessionAssumption ==
  /\ MaxTokens \in Nat \ {0}
  /\ Writers \cap Tabs = {} /\ Free \notin Calls
  /\ Values \cap {"none", "swept", "unknown"} = {}
  /\ Drafts \subseteq Design

Empty == [tokens |-> 0, val |-> [i \in Items |-> "none"]]

(* `from' refines the author column: "agent" is what a recorded answer and *)
(* a save write.  History fields: the design as it was handed over, the    *)
(* answers reported as not restored, and whether no turn ran meanwhile.    *)
Version == [from: {"answer", "names", "save", "form"}, spec: Design, given: Design,
            lost: SUBSET Items, quiet: BOOLEAN]

Answer == [val: Values \cup {"none", "unknown"}, at: Nat, early: BOOLEAN]
Named  == [val: 0..MaxTokens, at: Nat]

Call == [at: {"idle", "locked", "asked", "over"}, base: Design,
         said: SUBSET Turns, alone: BOOLEAN]
Turn == [at: {"idle", "loaded", "said", "more", "over", "failed"}, note: Nat]

Active == {t \in Turns : turn[t].at \in {"loaded", "said", "more"}}

Current == IF versions = << >> THEN Empty ELSE versions[Len(versions)].spec

Init ==
  /\ versions = << >> /\ lock = Free /\ after = {} /\ announced = {}
  /\ answers = [i \in Items |-> [val |-> "none", at |-> 0, early |-> FALSE]]
  /\ named = [val |-> 0, at |-> 0]
  /\ call = [c \in Calls |-> [at |-> "idle", base |-> Empty, said |-> {}, alone |-> FALSE]]
  /\ turn = [t \in Turns |-> [at |-> "idle", note |-> 0]]

------------------------------------------------------------------------------
(* The designs that answers make (elicitation/answers.py).                 *)

(* What an answer leaves in its field: an unknown is the protocol's range  *)
(* to sweep (or its value), or nothing where absence is the honest unknown.*)
Written(i, x) == IF x # "unknown" THEN x ELSE IF i[1] \in Absentable THEN "none" ELSE "swept"

(* apply_answer refuses an index the design has no token for. *)
Fits(d, i) == i[2] <= d.tokens
Apply(d, i, x) == [d EXCEPT !.val = [@ EXCEPT ![i] = Written(i, x)]]

(* _set_column: one token per name, the first ones keep what they hold.    *)
Resize(d, n) ==
  [tokens |-> n, val |-> [i \in Items |-> IF i[2] <= n THEN d.val[i] ELSE "none"]]

(* One stretch of _merge_answers' loop: the answers to the items of S that *)
(* the design lacks are put back where they fit.                           *)
Lacks(d, S) == {i \in S : answers[i].val \in Values /\ d.val[i] = "none"}
Fill(d, S) ==
  [d EXCEPT !.val = [i \in Items |-> IF i \in Lacks(d, S) /\ Fits(d, i) THEN answers[i].val ELSE d.val[i]]]
Unfit(d, S) == {i \in Lacks(d, S) : ~Fits(d, i)}

(* _merge_answers takes the answers in the order of their first recording. *)
(* The list tokens.ids never `has a value' (get_value finds no index), so  *)
(* its answer is always put back: the tokens become as many as it names.   *)
Early == {i \in Items : answers[i].early}
Renamed(d) == IF named.val = 0 THEN d ELSE Resize(d, named.val)
Merge(d)    == Fill(Renamed(Fill(d, Early)), Items \ Early)
Failed(d)   == Unfit(d, Early) \cup Unfit(Renamed(Fill(d, Early)), Items \ Early)

------------------------------------------------------------------------------
(* The calls.                                                              *)

SetCall(c, at) == call' = [call EXCEPT ![c] = [@ EXCEPT !.at = at]]

Unsaid == UNCHANGED <<turn, announced>>

(* add_spec_version, and the commit that releases the lock. *)
Add(from, d, given, lost, quiet) ==
  versions' = Append(versions,
    [from |-> from, spec |-> d, given |-> given, lost |-> lost, quiet |-> quiet])

(* Mutant: the reads come without the row lock.                          *)
BeginUnlocked(c) ==
  /\ call[c].at = "idle"
  /\ lock' = c
  /\ call' = [call EXCEPT ![c] = [@ EXCEPT !.at = "locked", !.base = Current]]
  /\ UNCHANGED <<versions, answers, named, after>> /\ Unsaid

(* lock_session, then the reads that the write will be based on.           *)
Begin(c) ==
  /\ call[c].at = "idle" /\ lock = Free
  /\ lock' = c
  /\ call' = [call EXCEPT ![c] = [@ EXCEPT !.at = "locked", !.base = Current]]
  /\ UNCHANGED <<versions, answers, named, after>> /\ Unsaid

(* Mutant: the answer's row names the version before.                    *)
RecordOldVersion(c) == \E i \in Items, x \in Values \cup {"unknown"} :
  /\ call[c].at = "locked" /\ Fits(call[c].base, i) /\ (x = "unknown" => i[1] \in Unknowable)
  /\ Add("answer", Apply(call[c].base, i, x), Apply(call[c].base, i, x), {}, FALSE)
  /\ answers' = [answers EXCEPT ![i] =
       [val |-> x, at |-> Len(versions),
        early |-> IF @.val = "none" THEN named.val = 0 ELSE @.early]]
  /\ lock' = Free /\ after' = {} /\ SetCall(c, "over")
  /\ UNCHANGED named /\ Unsaid

(* An answer to an item: the design with it is the next version, and the   *)
(* answer's row names that version.                                        *)
Record(c) == \E i \in Items, x \in Values \cup {"unknown"} :
  /\ call[c].at = "locked" /\ Fits(call[c].base, i) /\ (x = "unknown" => i[1] \in Unknowable)
  /\ Add("answer", Apply(call[c].base, i, x), Apply(call[c].base, i, x), {}, FALSE)
  /\ answers' = [answers EXCEPT ![i] =
       [val |-> x, at |-> Len(versions) + 1,
        early |-> IF @.val = "none" THEN named.val = 0 ELSE @.early]]
  /\ lock' = Free /\ after' = {} /\ SetCall(c, "over")
  /\ UNCHANGED named /\ Unsaid

(* An answer to tokens.ids.                                                *)
RecordNames(c) == \E n \in 1..MaxTokens :
  /\ call[c].at = "locked"
  /\ Add("names", Resize(call[c].base, n), Resize(call[c].base, n), {}, FALSE)
  /\ named' = [val |-> n, at |-> Len(versions) + 1]
  /\ lock' = Free /\ after' = {} /\ SetCall(c, "over")
  /\ UNCHANGED answers /\ Unsaid

(* Mutant: the design is stored as it came, without the merge.           *)
SaveAsGiven(c) == \E d \in Drafts :
  /\ call[c].at = "locked" /\ Valid(d) /\ Valid(Merge(d))
  /\ Add("save", d, d, Failed(d), FALSE)
  /\ lock' = Free /\ after' = {} /\ SetCall(c, "over")
  /\ UNCHANGED <<answers, named>> /\ Unsaid

(* spec.save.v1: a valid design with the answers it lacks put back; it is  *)
(* stored if it is still valid.                                            *)
Save(c) == \E d \in Drafts :
  /\ call[c].at = "locked" /\ Valid(d) /\ Valid(Merge(d))
  /\ Add("save", Merge(d), d, Failed(d), FALSE)
  /\ lock' = Free /\ after' = {} /\ SetCall(c, "over")
  /\ UNCHANGED <<answers, named>> /\ Unsaid

(* The call stores nothing: an answer that does not fit, a design that is  *)
(* not valid, an error, a lost connection.  The rollback frees the lock.   *)
Rollback(c) ==
  /\ call[c].at = "locked"
  /\ lock' = Free /\ SetCall(c, "over")
  /\ UNCHANGED <<versions, answers, named, after>> /\ Unsaid

(* put_spec's transaction starts: now() is its created_at, and it waits    *)
(* for the row lock.                                                       *)
Ask(c) ==
  /\ call[c].at = "idle"
  /\ call' = [call EXCEPT ![c] = [@ EXCEPT !.at = "asked", !.alone = (Active = {})]]
  /\ UNCHANGED <<versions, answers, named, lock, after>> /\ Unsaid

(* It has the lock and stores the form's valid design as it is.            *)
Put(c) == \E d \in Drafts :
  /\ call[c].at = "asked" /\ lock = Free /\ Valid(d)
  /\ Add("form", d, d, {}, call[c].alone)
  /\ after' = call[c].said /\ SetCall(c, "over")
  /\ UNCHANGED <<answers, named, lock>> /\ Unsaid

------------------------------------------------------------------------------
(* The chat turns, of which a stored message and the note matter here.     *)

(* Every message stored now is as late as any version still being saved.   *)
Stores(t) ==
  /\ after' = after \cup {t}
  /\ call' = [c \in Calls |-> IF call[c].at = "asked"
                              THEN [call[c] EXCEPT !.said = @ \cup {t}] ELSE call[c]]

SetTurn(t, at) == turn' = [turn EXCEPT ![t] = [@ EXCEPT !.at = at]]

(* spec_from_form_unseen: the latest version if the form stored it after   *)
(* the last message of the session.                                        *)
Unseen == /\ versions # << >> /\ versions[Len(versions)].from = "form"
          /\ after = {}

(* Mutant: the note is due whatever was said since.                      *)
TurnLoadAlways(t) ==
  /\ turn[t].at = "idle"
  /\ turn' = [turn EXCEPT ![t] =
       [at |-> "loaded", note |-> IF versions # << >> /\ versions[Len(versions)].from = "form"
                                  THEN Len(versions) ELSE 0]]
  /\ call' = [c \in Calls |-> [call[c] EXCEPT !.alone = FALSE]]
  /\ UNCHANGED <<versions, answers, named, lock, after, announced>>

(* _load_turn: the note is decided before the turn stores anything.        *)
TurnLoad(t) ==
  /\ turn[t].at = "idle"
  /\ turn' = [turn EXCEPT ![t] =
       [at |-> "loaded", note |-> IF Unseen THEN Len(versions) ELSE 0]]
  /\ call' = [c \in Calls |-> [call[c] EXCEPT !.alone = FALSE]]
  /\ UNCHANGED <<versions, answers, named, lock, after, announced>>

(* The turn's first message, with the note if there is one.                *)
TurnSay(t) ==
  /\ turn[t].at = "loaded" /\ SetTurn(t, "said") /\ Stores(t)
  /\ announced' = announced \cup (IF turn[t].note = 0 THEN {} ELSE {<<t, turn[t].note>>})
  /\ UNCHANGED <<versions, answers, named, lock>>

(* A later message: a reply, the results of its tool calls.                *)
TurnMore(t) ==
  /\ turn[t].at \in {"said", "more"} /\ SetTurn(t, "more") /\ Stores(t)
  /\ UNCHANGED <<versions, answers, named, lock, announced>>

TurnEnd(t) ==
  /\ t \in Active /\ SetTurn(t, "over")
  /\ UNCHANGED <<versions, answers, named, lock, call, after, announced>>

(* The turn fails with one message stored: _discard_unanswered deletes it. *)
TurnFails(t) ==
  /\ turn[t].at = "said" /\ SetTurn(t, "failed")
  /\ after' = after \ {t} /\ announced' = announced \ ({t} \X Nat)
  /\ call' = [c \in Calls |-> [call[c] EXCEPT !.said = @ \ {t}]]
  /\ UNCHANGED <<versions, answers, named, lock>>

------------------------------------------------------------------------------
Next ==
  \/ \E c \in Writers : Begin(c) \/ Rollback(c)
  \/ \E c \in Recorders : Record(c) \/ RecordNames(c)
  \/ \E c \in Savers : Save(c)
  \/ \E c \in Tabs : Ask(c) \/ Put(c)
  \/ \E t \in Turns : TurnLoad(t) \/ TurnSay(t) \/ TurnMore(t) \/ TurnEnd(t) \/ TurnFails(t)

Spec == Init /\ [][Next]_vars

TypeOK ==
  /\ versions \in Seq(Version) /\ answers \in [Items -> Answer] /\ named \in Named
  /\ lock \in Writers \cup {Free} /\ (lock # Free => call[lock].at = "locked")
  /\ call \in [Calls -> Call] /\ turn \in [Turns -> Turn]
  /\ after \subseteq Turns /\ announced \subseteq Turns \X Nat

------------------------------------------------------------------------------
(* Properties.                                                             *)

(* An answer's row and the version it names were written together: that    *)
(* version holds what the answer says, whatever else was going on          *)
(* (elicit_record_answer.py: "saved together or not at all").              *)
AnswersBelongToVersions ==
  /\ \A i \in Items : answers[i].val # "none" =>
       /\ answers[i].at \in 1..Len(versions)
       /\ versions[answers[i].at].from = "answer"
       /\ versions[answers[i].at].spec.val[i] = Written(i, answers[i].val)
  /\ named.val # 0 =>
       /\ named.at \in 1..Len(versions)
       /\ versions[named.at].from = "names" /\ versions[named.at].spec.tokens = named.val

(* A value the designer gave, for a token the design still has, is in the  *)
(* design unless the form took it out, a save said it could not put it     *)
(* back, or the tokens were named anew since (spec_save.py:49).            *)
NoSilentLoss ==
  \A i \in Items :
    answers[i].val \in Values /\ i[2] <= Current.tokens /\ Current.val[i] = "none" =>
      \E n \in answers[i].at + 1..Len(versions) :
        versions[n].from \in {"form", "names"} \/ i \in versions[n].lost

(* A turn that starts alone tells the model of the form's design exactly   *)
(* when no stored message told it, if the form saved while no turn was     *)
(* running (repo.py spec_from_form_unseen).  The exception takes two turns *)
(* at a time: the one that told it failed and its message is gone, that of *)
(* another is not, and hides the design from every later turn.             *)
Told(n) == \E t \in Turns : <<t, n>> \in announced
Hidden(n) == \E t \in Turns : /\ turn[t].at = "failed" /\ turn[t].note = n
                             /\ \E u \in after : u # t
Loads(t) == turn[t].at = "idle" /\ turn'[t].at = "loaded"
NoteIsNews ==
  [][\A t \in Turns :
       Loads(t) /\ Active = {} /\ versions # << >> =>
         LET n == Len(versions) IN
           versions[n].from = "form" /\ versions[n].quiet =>
             /\ turn'[t].note # 0 => ~Told(n)
             /\ ~Told(n) => turn'[t].note # 0 \/ Hidden(n)]_vars

------------------------------------------------------------------------------
(* What the repository says and the code does not keep.                    *)

(* spec_save.py:51: of answers the design states differently "it may be a  *)
(* deliberate correction, so the spec's value stands": a save only adds.   *)
SpecStands ==
  \A n \in 1..Len(versions) :
    LET v == versions[n] IN
      v.from = "save" => \A i \in Items : v.given.val[i] # "none" => v.spec.val[i] = v.given.val[i]

(* repo.py:421: of the design the form saves, "the model learns of it only *)
(* through a note (agent/notes.py), once": no turn starts, alone, on a     *)
(* form's design that neither it nor an earlier one was told of.           *)
FormEditAnnounced ==
  [][\A t \in Turns :
       Loads(t) /\ Active = {} /\ versions # << >> =>
         LET v == versions[Len(versions)] IN
           v.from = "form" => turn'[t].note # 0 \/ Told(Len(versions))]_vars

=============================================================================
