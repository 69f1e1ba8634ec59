----------------------------- MODULE MCLivelock -----------------------------
(***************************************************************************)
(* All diagrams over three states with few edges, silent or visible, the   *)
(* start state first or last in the order of ids; and diagrams with two    *)
(* edges between the same states that differ in their predicates; and      *)
(* diagrams of five states with a short and a long way to a silent loop,   *)
(* and one edge more.                                                      *)
(***************************************************************************)
EXTENDS Livelock

CONSTANTS MaxState, MaxEdges, Visible

EdgeOver(labels) ==
  [src : 1 .. MaxState, event : {Tau, Visible}, dst : 1 .. MaxState, label : labels]

Few(E, n) == {{}} \cup {{f[i] : i \in 1 .. n} : f \in [1 .. n -> E]}

TauCycle(l) == {[src |-> 1, event |-> Tau, dst |-> 2, label |-> l],
                [src |-> 2, event |-> Tau, dst |-> 1, label |-> 0]}

Way(s, t) == [src |-> s, event |-> Visible, dst |-> t, label |-> 0]

TwoWays ==
  {Way(1, 2), Way(2, 5), Way(1, 3), Way(3, 4), Way(4, 5),
   [src |-> 5, event |-> Tau, dst |-> 5, label |-> 0]}

OneMore ==
  [src : 1 .. 5, event : {Tau, Visible}, dst : 1 .. 5, label : {0}]

MCDiagrams ==
  [start : {1, MaxState}, edges : Few(EdgeOver({0}), MaxEdges)]
  \cup [start : {2}, edges : {TauCycle(1) \cup E : E \in Few(EdgeOver({0, 1}), 1)}]
  \cup [start : {1}, edges : {TwoWays \cup E : E \in Few(OneMore, 1)}]

=============================================================================
