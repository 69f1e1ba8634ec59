---------------------------- MODULE MCObligations ----------------------------
(***************************************************************************)
(* Diagrams of two states whose names are hard to keep apart, with at most *)
(* two edges; few ids, and hashes that meet at the end of their range.     *)
(***************************************************************************)
EXTENDS Obligations

MCTau == <<"t", "a", "u">>

MCHex == [c \in {"_", "-"} |-> IF c = "_" THEN <<"5", "f">> ELSE <<"2", "d">>]

A == <<"_">>
B == <<"_", "u", "5", "f", "u">>
Missing == <<"m">>

Visible == <<"-">>
Other   == <<"_", "u", "2", "d", "u">>

N == [name |-> <<"n">>, type |-> "Nat"]
I == [name |-> <<"n">>, type |-> "Int"]
O == [name |-> <<"n", "_">>, type |-> "Nat"]

States(a, b) == [s \in {A, B} |-> IF s = A THEN [fields |-> a, line |-> 2]
                                           ELSE [fields |-> b, line |-> 1]]

Edge(src, dst, event, guard, post, line) ==
  [src |-> src, dst |-> dst, event |-> event, guard |-> guard, post |-> post, line |-> line]

Diagram(states, post, edges, end) ==
  [states |-> states, start |-> [dst |-> A, post |-> post], edges |-> edges, end |-> end]

End(src, guard) == << [src |-> src, guard |-> guard, line |-> 6] >>

Fields == {States(<< >>, << >>), States(<<N>>, <<I>>), States(<<N, O>>, << >>)}

Loop(t)        == << Edge(A, A, MCTau, t[1], t[2], 4) >>
Cycle(t)       == << Edge(A, B, MCTau, t[1], t[2], 4), Edge(B, A, MCTau, t[3], t[4], 5) >>
Later(t)       == << Edge(A, B, Visible, t[1], t[2], 5), Edge(B, B, MCTau, t[3], t[4], 4) >>
Unreachable(t) == << Edge(A, A, Visible, t[1], t[2], 4), Edge(B, B, MCTau, t[3], t[4], 5) >>
Choice(t)      == << Edge(A, B, Visible, t[1], t[2], 4), Edge(A, A, Other, t[3], t[4], 5) >>
Astray(t)      == << Edge(A, A, MCTau, t[1], t[2], 4), Edge(A, Missing, Visible, t[3], t[4], 5) >>

TextsOf == {<<"true", "true", "true", "true">>, <<"p", "q", "q", "p">>, <<"p", "p", "true", "">>}

LivelockJobs ==
  {[mode |-> "livelock", diagrams |-> << Diagram(f, post, edges, << >>) >>] :
     f \in Fields, post \in {"true", "q"},
     edges \in UNION {{Loop(t), Cycle(t), Later(t), Unreachable(t), Astray(t)} : t \in TextsOf}}

AstrayJobs ==
  {[mode |-> "livelock",
    diagrams |-> << [Diagram(States(<< >>, << >>), "true", Loop(<<"p", "q">>), << >>)
                       EXCEPT !.start.dst = Missing] >>]}

Mixed == <<"p", "q", "q", "p">>

RefinementDiagrams ==
  {Diagram(f, "p", edges, end) :
     f \in Fields, end \in {<< >>, End(A, "p"), End(B, "")},
     edges \in {<< >>, Cycle(Mixed), Choice(Mixed)}}

SpecDiagrams ==
  {Diagram(States(<<N>>, <<I>>), "p", Cycle(Mixed), << >>),
   Diagram(States(<< >>, << >>), "r", Choice(Mixed), End(A, "r")),
   Diagram(States(<< >>, << >>), "true", Unreachable(Mixed), << >>)}

RefinementJobs ==
  {[mode |-> mode, diagrams |-> << spec, impl >>] :
     mode \in {"trace", "stable-failure", "failures-divergence"},
     spec \in SpecDiagrams, impl \in RefinementDiagrams}

MCJobs == LivelockJobs \cup AstrayJobs \cup RefinementJobs

MCHash(signature) ==
  CASE signature[1] \in {"p", "q"} -> 15
    [] signature[1] = "true"       -> 14
    [] OTHER                       -> 0

=============================================================================
