---------------------------- MODULE MCExpressions ----------------------------
(* Texts for TLC: a conditional, a power among products, a clamp, an       *)
(* aggregate over agents, and a rate that changes with the period.         *)
EXTENDS Expressions
Range2(lo, hi) == [lo |-> lo, hi |-> hi]
StartTexts == {
  << "if", "(", "state", ".", "t", ">", "1", ",", "param", ".", "x", ",", "event", ".", "y", ")" >>,
  << "2", "-", "param", ".", "x", "*", "2", "^", "2", "/", "event", ".", "y" >>,
  << "clamp", "(", "param", ".", "x", ",", "0", ",", "event", ".", "y", ")" >>,
  << "mean_over", "(", "agents_of_type", "[", "t", "]", ",", "agent", ".", "x", ")" >>,
  << "log", "(", "1", ")", "+", "state", "[", "M", "]", "[", "A", "]" >>,
  << "state", ".", "t", "*", "param", ".", "x" >> }
AllWords == {"-", "*", "(", "&&", "0", "x", "agent"}
Numbers == ("0" :> Whole(0)) @@ ("1" :> Whole(1)) @@ ("2" :> Whole(2)) @@ ("0.5" :> [n |-> 1, d |-> 2])
ParamRanges == "x" :> Range2(-1, 1)
PayloadRanges == "y" :> Range2(0, 2)
Population == << [type |-> "t", has |-> "x" :> Whole(2)], [type |-> "u", has |-> "x" :> Whole(1)], [type |-> "t", has |-> "x" :> Whole(0)] >>
=============================================================================
