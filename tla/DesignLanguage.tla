--------------------------- MODULE DesignLanguage ---------------------------
(***************************************************************************)
(* The language designs are written in: what loading a document makes of   *)
(* it (schema/te_ir.py, TokenEconomy); its successor (te_ir_v2.py) with    *)
(* the migration to it (from_v1, cli.py --emit-v2) and the adapter through *)
(* which the checks read it (_v2_compat.py).                               *)
(*                                                                         *)
(* An author edits a document: rules that spell their trigger out or name  *)
(* an event of the catalogue, events, assets, caps.  Saving loads it: the  *)
(* document is rejected or becomes the design, normalised.  Reading back   *)
(* makes the design the document.                                          *)
(*                                                                         *)
(* Documents have the shape of FailureModes' designs and, besides: order   *)
(* (the tokens as listed), catalogue (the events as listed, with ids),     *)
(* assets, initial (an amount per token or None), a label on every rule.   *)
(* The frequency of an event that is spread is a distribution, given by    *)
(* its support; a function that is a distribution keeps in b the range of  *)
(* the class it is declared with.                                          *)
(***************************************************************************)
EXTENDS FailureModes, TLC

CONSTANTS Documents,  \* the documents an author starts from
          NewRules, NewEvents, NewAssets, NewCaps, NewRanges,  \* what may be added to them
          MaxEdits    \* bound: edits between start and end

VARIABLES doc, design, edits
vars == <<doc, design, edits>>

Sides == <<"emits", "burns">>

(***************************************************************************)
(* Loading                                                                 *)
(***************************************************************************)
Ids(te) == {te.catalogue[i].id : i \in DOMAIN te.catalogue}
Sites(te) ==
  FlattenSeq([k \in DOMAIN te.order |-> FlattenSeq([s \in {1, 2} |->
    [i \in DOMAIN te.token[te.order[k]][Sides[s]] |-> [token |-> te.order[k], side |-> Sides[s], at |-> i]]])])
RuleAt(te, s) == te.token[s.token][s.side][s.at]

EventKind(kind) == IF kind = "behavioral_event" THEN "behavioral" ELSE kind

(* Mutant: a name already in the catalogue is taken again *)
MutFresh(ids, name) == name
Fresh(ids, name) ==
  LET numbered(n) == name \o "_" \o ToString(n)
  IN IF name \notin ids THEN name
     ELSE numbered(Min({n \in 2 .. Cardinality(ids) + 2 : numbered(n) \notin ids}))

(* The trigger of a rule becomes an event, the rule a reference to it *)
Promote(te, s) ==
  LET r  == RuleAt(te, s)
      id == Fresh(Ids(te), "_auto_" \o s.token \o "_" \o s.side \o "_" \o ToString(s.at - 1))
  IN [te EXCEPT !.token[s.token][s.side][s.at] = [r EXCEPT !.event = id, !.kind = None, !.label = None, !.freq = None],
                !.catalogue = Append(@, [id |-> id, kind |-> EventKind(r.kind), label |-> IF r.label = None THEN id ELSE r.label,
                                         freq |-> IF r.kind = "none" THEN None ELSE r.freq, spread |-> FALSE, when |-> {}])]

Normalised(te) == FoldLeft(Promote, te, SelectSeq(Sites(te), LAMBDA s : RuleAt(te, s).event = None))

Offered(te, t) == MapThenSumSet(LAMBDA a : a.variety, {a \in te.assets : t \in a.tokens})
Counted(te) ==
  LET told  == {t \in te.tokens : \E a \in te.assets : t \in a.tokens}
      name(t) == "K_" \o t
  IN [te EXCEPT !.span = [n \in {name(t) : t \in told} |->
                            LET k == Offered(te, CHOOSE t \in told : name(t) = n) IN [lo |-> k, hi |-> k]] @@ @,
                !.token = [t \in te.tokens |-> IF t \in told THEN [te.token[t] EXCEPT !.variety = name(t)] ELSE te.token[t]]]

(* The catalogue as the checks look it up *)
Indexed(te) ==
  [te EXCEPT !.event = [id \in Ids(te) |->
     LET e == CHOOSE e \in Range(te.catalogue) : e.id = id
     IN [kind |-> e.kind, label |-> e.label, freq |-> e.freq, when |-> e.when]]]

Load(te) == Indexed(Counted(Normalised(te)))

Named(rule) == {c.event : c \in {c \in rule.when : c.sort = "event" /\ c.source = None}}
               \cup ({rule.event} \ {None})
UniqueIds(te) ==
  /\ \A i, j \in DOMAIN te.catalogue : te.catalogue[i].id = te.catalogue[j].id => i = j
  /\ \A a, b \in te.assets : a.id = b.id => a = b
  /\ te.tokens # {}
EventsConsistent(te) == \A e \in Range(te.catalogue) : e.kind = "none" => e.freq = None /\ ~e.spread
SupplyWithinCap(te) ==
  \A t \in te.tokens : Capped(te, t) /\ te.initial[t] # None =>
    te.span[te.initial[t]].hi <= te.span[te.token[t].cap].lo
Ordered(te) == \A n \in DOMAIN te.span : te.span[n].lo <= te.span[n].hi
Domains(te) ==
  /\ te.span["N"].lo >= 1 /\ te.span["Q"].lo >= 0 /\ te.span["d"].lo >= 0
  /\ \A r \in Varieties(te) : r.lo >= 1
Fractions(te) ==
  \A n \in {"gamma", "S", "gini"} \cap DOMAIN te.span : 0 <= te.span[n].lo /\ te.span[n].hi <= 100
SharesAddUp(te) == te.agents = <<>> \/ ShareOf(te, DOMAIN te.agents) \in 99 .. 101
WellFormed(te) == UniqueIds(te) /\ EventsConsistent(te) /\ SupplyWithinCap(te) /\ Ordered(te)
                  /\ Domains(te) /\ Fractions(te) /\ SharesAddUp(te)
Resolved(te) ==   \* of a document whose triggers are events
  /\ \A s \in Range(Sites(te)) : Named(RuleAt(te, s)) \subseteq Ids(te)
  /\ \A a \in te.assets : a.tokens \subseteq te.tokens
(* Fields first, then references, in the normalised document *)
Valid(te) == WellFormed(te) /\ Resolved(Normalised(te))

(***************************************************************************)
(* The author's operations                                                 *)
(***************************************************************************)
Edit(new) == edits < MaxEdits /\ edits' = edits + 1 /\ doc' = new /\ UNCHANGED design

AddRule(t, side) ==
  \E r \in NewRules, first \in BOOLEAN :
    Edit([doc EXCEPT !.token[t][side] = IF first THEN <<r>> \o @ ELSE Append(@, r)])
DropRule(t, side, i) == Edit([doc EXCEPT !.token[t][side] = RemoveAt(@, i)])
AddEvent(e)  == Edit([doc EXCEPT !.catalogue = Append(@, e)])
DropEvent(i) == Edit([doc EXCEPT !.catalogue = RemoveAt(@, i)])
AddAsset(a)  == a \notin doc.assets /\ Edit([doc EXCEPT !.assets = @ \cup {a}])
DropAsset(a) == Edit([doc EXCEPT !.assets = @ \ {a}])
DropAgent(i) == Edit([doc EXCEPT !.agents = RemoveAt(@, i)])
SetRange(n, r) == doc.span[n] # r /\ Edit([doc EXCEPT !.span[n] = r])
SetCap(t, c) == doc.token[t].cap # c /\ Edit([doc EXCEPT !.token[t].cap = c])

Save     == Valid(doc) /\ design' = Load(doc) /\ UNCHANGED <<doc, edits>>
ReadBack == doc' = design /\ UNCHANGED <<design, edits>>

Init == doc \in Documents /\ design = Load(doc) /\ edits = 0
Next ==
  \/ \E t \in doc.tokens, s \in {1, 2} :
       \/ AddRule(t, Sides[s])
       \/ \E i \in DOMAIN doc.token[t][Sides[s]] : DropRule(t, Sides[s], i)
  \/ \E e \in NewEvents : AddEvent(e)
  \/ \E i \in DOMAIN doc.catalogue : DropEvent(i)
  \/ \E a \in NewAssets : AddAsset(a)
  \/ \E a \in doc.assets : DropAsset(a)
  \/ \E t \in doc.tokens, c \in NewCaps : SetCap(t, c)
  \/ \E i \in DOMAIN doc.agents : DropAgent(i)
  \/ \E n \in DOMAIN NewRanges : SetRange(n, NewRanges[n])
  \/ Save \/ ReadBack
Spec == Init /\ [][Next]_vars

(***************************************************************************)
(* The successor language.  A rule is a function with phases; what a rule  *)
(* waits for is the condition of its first phase, and nothing happens in   *)
(* the second.  A design with a feature the migration refuses has no       *)
(* counterpart; others lose a feature on the way.                          *)
(***************************************************************************)
EmissionKinds == {"none", "time_based", "behavioral_event", "physical_resource_flow", "algorithmic"}
BurnKinds == {"none", "demand_driven", "rule_driven", "threshold_driven", "expiry", "coupon_layer_only"}

FunctionKind(kind, side) ==
  CASE side = "emits" /\ kind = "behavioral" -> "behavioral_event"
    [] side = "burns" /\ kind \in {"behavioral", "behavioral_event", "physical_resource_flow"} -> "demand_driven"
    [] side = "burns" /\ kind \in {"time_based", "algorithmic"} -> "rule_driven"
    [] OTHER -> kind

Driver(kind) == CASE kind \in {"behavioral_event", "physical_resource_flow", "demand_driven", "rule_driven"} -> "event"
                  [] kind \in {"algorithmic", "threshold_driven"} -> "state"
                  [] OTHER -> "time"

(* Distributions stay behind: the class a function is declared with takes  *)
(* its place, and a frequency is left out.                                 *)
Stochastic(fn) == fn.family = "distribution"
Spread(rule, te) == \E e \in Range(te.catalogue) : e.id = rule.event /\ e.spread
MigrateShape(fn) == IF Stochastic(fn) THEN [fn EXCEPT !.family = "constant", !.a = fn.b, !.b = None] ELSE fn

Nothing == [family |-> "constant", a |-> "zero", b |-> None, degree |-> 1]
MigrateFunction(rule, te, side) ==
  LET e == Resolve(rule, te)
      kind == FunctionKind(e.kind, side)
      shape == MigrateShape(rule.fn)
  IN [driver |-> Driver(kind), kind |-> kind, label |-> e.label, freq |-> IF Spread(rule, te) THEN None ELSE e.freq, of_variable |-> None,
      phases |-> IF rule.when = {} THEN << [when |-> {}, fn |-> shape] >>
                 ELSE << [when |-> rule.when, fn |-> shape], [when |-> {}, fn |-> Nothing] >>,
      schedule |-> rule.schedule]

Refused(rule) ==
  \/ rule.regimes # <<>>
  \/ rule.fn.family \in {"expression", "opaque"}
  \/ \E c \in rule.when : c.sort = "threshold" /\ c.var \in {"K", "d"}

Accepted(f, side) ==
  /\ f.kind \in (IF side = "emits" THEN EmissionKinds ELSE BurnKinds)
  /\ f.driver = "state" => f.of_variable # None

Migratable(te) ==
  /\ \A s \in Range(Sites(te)) :
       ~Refused(RuleAt(te, s)) /\ Accepted(MigrateFunction(RuleAt(te, s), te, s.side), s.side)
  /\ \A f \in Range(te.flows) : {f.src, f.dst} \subseteq te.tokens

MigrateToken(te, t) ==
  LET functions(side) == [i \in DOMAIN te.token[t][side] |-> MigrateFunction(te.token[t][side][i], te, side)]
  IN [te.token[t] EXCEPT !.emits = functions("emits"), !.burns = functions("burns"), !.cap = None]

Migrate(te) ==
  [te EXCEPT !.token = [t \in te.tokens |-> MigrateToken(te, t)],
             !.agents = [i \in DOMAIN te.agents |-> [te.agents[i] EXCEPT !.hint = FALSE]],
             !.catalogue = <<>>, !.assets = {}]

(* Mutant: the frequency stays behind *)
MutToRule(f) == [fn |-> f.phases[1].fn, freq |-> None, event |-> None, kind |-> f.kind,
                 label |-> f.label, when |-> {}, regimes |-> <<>>, schedule |-> f.schedule]
ToRule(f) == [fn |-> f.phases[1].fn, freq |-> f.freq, event |-> None, kind |-> f.kind,
              label |-> f.label, when |-> {}, regimes |-> <<>>, schedule |-> f.schedule]
ToV1(v2) ==
  LET rules(fs) == [i \in DOMAIN fs |-> ToRule(fs[i])]
  IN Load([v2 EXCEPT !.token = [t \in v2.tokens |->
             [v2.token[t] EXCEPT !.emits = rules(v2.token[t].emits), !.burns = rules(v2.token[t].burns)]]])

(***************************************************************************)
(* Properties                                                              *)
(***************************************************************************)
(* What the author wrote of a rule, and what the design makes of it *)
Written(te, s) ==
  LET r == RuleAt(te, s)
  IN IF r.event = None THEN [kind |-> EventKind(r.kind), label |-> r.label, freq |-> IF r.kind = "none" THEN None ELSE r.freq]
     ELSE LET e == CHOOSE e \in Range(te.catalogue) : e.id = r.event
          IN [kind |-> e.kind, label |-> e.label, freq |-> e.freq]
Understood(te, s) == LET e == Resolve(RuleAt(te, s), te) IN [kind |-> e.kind, label |-> e.label, freq |-> e.freq]

(* Whatever the author edits, saves and reads back, in any order, loading  *)
(* keeps what the document says: each rule fires on the trigger it was     *)
(* written with, whatever its neighbours' generated names, and the design  *)
(* loads to itself.                                                        *)
LoadKeepsMeaning ==
  Valid(doc) /\ Resolved(doc) =>
    LET te == Load(doc) IN
    /\ Load(te) = te /\ Valid(te)
    /\ \A s \in Range(Sites(doc)) :
         LET said == Written(doc, s) IN
         \/ Understood(te, s) = said
         \/ said.label = None /\ Understood(te, s) = [said EXCEPT !.label = RuleAt(te, s).event]

(* "Rule references unknown event_id. Define it in te.events": refuted.    *)
(* References are checked once generated events are in, and one to a       *)
(* generated event that was removed is taken for a new one's of that name. *)
DanglingIsRejected == Valid(doc) => Resolved(doc)

(* "Tokens that no asset references keep their declared K": refuted, since *)
(* a variety that was derived is read back as a declared one and outlives  *)
(* the assets it was derived from.                                         *)
VarietyIsOffered ==
  \A t \in design.tokens : design.token[t].variety = "K_" \o t => Offered(design, t) > 0

SameVerdicts(a, b) ==
  \A fm \in Modes, t \in a.tokens :
    Check(a, fm, t) = Check(b, fm, t) /\ Predicates(a, fm, t) = Predicates(b, fm, t)

(* What the migration drops without a word *)
Lossy(te) ==
  \/ \E s \in Range(Sites(te)) : LET r == RuleAt(te, s) IN r.when # {} \/ Stochastic(r.fn) \/ Spread(r, te)
  \/ \E t \in te.tokens : Capped(te, t)
  \/ \E i \in DOMAIN te.agents : te.agents[i].hint

(* A design that migrates and has none of those features is judged alike   *)
(* in both languages, and so is what the simulator is asked to watch.      *)
MigrationKeepsVerdicts ==
  Migratable(design) /\ ~Lossy(design) => SameVerdicts(design, ToV1(Migrate(design)))

(* "Every v1 IR produces a valid v2 IR with identical observable behavior  *)
(* under the v1 FM checks" (te_ir_v2.py): refuted, by designs that cannot  *)
(* be migrated and by designs whose conditions, caps or distributions are  *)
(* dropped.                                                                *)
EveryDesignMigrates ==
  Migratable(design) /\ SameVerdicts(design, ToV1(Migrate(design)))
=============================================================================
