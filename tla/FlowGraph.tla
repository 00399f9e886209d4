------------------------------ MODULE FlowGraph ------------------------------
(***************************************************************************)
(* The picture of a saved design (verifier/abm/flow_graph.py, behind the   *)
(* flow_graph tool): pools where each token is created and removed, the    *)
(* wallets of the roles that may hold it, assets, the events that drive    *)
(* rules, and what flows between them; and what is said beside it.         *)
(* Agents have acts, the actions their role is limited to, if any.         *)
(***************************************************************************)
EXTENDS DesignLanguage

Node(kind, of, who) == [kind |-> kind, of |-> of, who |-> who]
MintPool(t)  == Node("mint", t, 0)
BurnSink(t)  == Node("burn", t, 0)
Wallet(i, t) == Node("wallet", t, i)
Arrow(from, to, kind, style) == [from |-> from, to |-> to, kind |-> kind, style |-> style]

May(agent, act) == agent.acts = {} \/ act \in agent.acts
Eligible(agent) == May(agent, "earn") \/ May(agent, "redeem") \/ agent.role = "governance_only"

Style(rules) ==
  IF \E r \in Range(rules) : r.fn.family \in {"expression", "opaque"} THEN "double"
  ELSE IF \E r \in Range(rules) : r.when # {} \/ r.regimes # <<>> THEN "dashed" ELSE "solid"

Triggers(te, t, side) == {r.event : r \in Range(te.token[t][side])} \ {None}

Drawn(te) ==
  LET referenced == UNION {Triggers(te, t, Sides[s]) : t \in te.tokens, s \in {1, 2}}
  IN {MintPool(t) : t \in te.tokens} \cup {BurnSink(t) : t \in te.tokens}
     \cup {Wallet(i, t) : i \in {i \in DOMAIN te.agents : Eligible(te.agents[i])}, t \in te.tokens}
     \cup {Node("asset", a.id, 0) : a \in te.assets}
     \cup {Node("event", id, 0) : id \in referenced \cap Ids(te)}

(* Of several flows between the same pools the last one's arrow stays.     *)
Source(f) == IF f.act = "transfer" THEN MintPool(f.src) ELSE BurnSink(f.src)
Target(f) == IF f.act = "burn" THEN BurnSink(f.dst) ELSE MintPool(f.dst)
(* Mutant: only removal is drawn *)
MutFlowArrows(te) ==
  {Arrow(Source(te.flows[i]), Target(te.flows[i]), "flow", "solid") : i \in {i \in DOMAIN te.flows : te.flows[i].act = "burn"}}
FlowArrows(te) ==
  LET last(i) == \A j \in DOMAIN te.flows : j > i => <<Source(te.flows[i]), Target(te.flows[i])>> # <<Source(te.flows[j]), Target(te.flows[j])>>
  IN {Arrow(Source(te.flows[i]), Target(te.flows[i]), "flow", IF te.flows[i].ratio = None THEN "solid" ELSE "dashed") :
        i \in {i \in DOMAIN te.flows : last(i)}}

RuleArrows(te) ==
  LET who(act) == {i \in DOMAIN te.agents : May(te.agents[i], act)}
      earned   == {IF te.token[t].emits = <<>> THEN {}
                   ELSE {Arrow(MintPool(t), Wallet(i, t), "emission", Style(te.token[t].emits)) : i \in who("earn")} : t \in te.tokens}
      burnt    == {IF te.token[t].burns = <<>> THEN {}
                   ELSE {Arrow(Wallet(i, t), BurnSink(t), "burn", Style(te.token[t].burns)) : i \in who("redeem")} : t \in te.tokens}
      redeemed == {{Arrow(Wallet(i, t), Node("asset", a.id, 0), "redemption", "solid") :
                     i \in who("redeem"), t \in a.tokens \cap te.tokens} : a \in te.assets}
  IN UNION (earned \cup burnt \cup redeemed)

EventArrows(te) ==
  UNION {{Arrow(Node("event", id, 0), MintPool(t), "drives", "dotted") : id \in Triggers(te, t, "emits") \cap Ids(te)}
         \cup {Arrow(Node("event", id, 0), BurnSink(t), "drives", "dotted") : id \in Triggers(te, t, "burns") \cap Ids(te)} : t \in te.tokens}

(* Wallets that nothing reaches or leaves are left out *)
Picture(te) ==
  LET arrows == FlowArrows(te) \cup RuleArrows(te) \cup EventArrows(te)
      busy   == {a.from : a \in arrows} \cup {a.to : a \in arrows}
  IN [nodes |-> {n \in Drawn(te) : n.kind = "wallet" => n \in busy}, arrows |-> arrows]

Components(g) ==   \* weakly connected: each arrow joins what its ends belong to
  LET join(a, parts) == LET ends == {p \in parts : a.from \in p \/ a.to \in p}
                        IN (parts \ ends) \cup {UNION ends}
  IN FoldSet(join, {{n} : n \in g.nodes}, g.arrows)

Issue(kind, of) == [kind |-> kind, of |-> of]
Diagnostics(te) ==
  {Issue("dangling_event", t) : t \in {t \in te.tokens : ~(Triggers(te, t, "emits") \subseteq Ids(te))}}
  \cup {Issue("sink_only_token", t) : t \in {t \in te.tokens : te.token[t].burns # <<>> /\ ~Emits(te, t)}}
  \cup {Issue("source_only_token", t) : t \in {t \in te.tokens : te.token[t].emits # <<>> /\ ~Burns(te, t)}}
  \cup {Issue("unfundable_asset", a.id) : a \in {a \in te.assets : a.tokens = {}}}

(* The smaller components are said to have no flow path to the main economy *)
Joined(parts, t) ==   \* the tokens joined to t
  {n.of : n \in {n \in UNION {c \in parts : c \cap {MintPool(t), BurnSink(t)} # {}} : n.kind \in {"mint", "burn"}}}

Only(te, ts) ==
  [te EXCEPT !.tokens = ts, !.order = SelectSeq(@, LAMBDA t : t \in ts), !.flows = SelectSeq(@, LAMBDA f : {f.src, f.dst} \subseteq ts),
             !.token = [t \in ts |-> @[t]], !.initial = [t \in ts |-> @[t]], !.assets = {a \in @ : a.tokens \subseteq ts}]
Secluded(te, t) ==   \* its rules wait for nothing that other tokens do
  \A s \in {1, 2} : \A r \in Range(te.token[t][Sides[s]]) :
    \A c \in r.when : c.sort = "window" \/ (c.sort = "threshold" /\ c.var # "K")

(* What is said beside the picture of any saved design agrees with what    *)
(* the checks find: an event is never missing, a token that is only        *)
(* created does not pass for balanced, one that is only removed does not   *)
(* fail by growing, and a token that no path joins to others is judged as  *)
(* it would be if they did not exist.                                      *)
PictureAgrees ==
  doc = design =>
    LET said == Diagnostics(design)
        parts == Components(Picture(design))
    IN
    /\ \A x \in said : x.kind # "dangling_event"
    /\ \A t \in design.tokens :
         /\ Issue("source_only_token", t) \in said => Check(design, "FM3", t) # "pass"
         /\ Issue("sink_only_token", t) \in said => Check(design, "FM1", t) # "fail" /\ Check(design, "FM3", t) # "fail"
         /\ Secluded(design, t) =>
              LET alone == Only(design, Joined(parts, t))
              IN \A fm \in PerToken : Check(alone, fm, t) = Check(design, fm, t)
=============================================================================
