-------------------------- MODULE MCNormalization --------------------------
(***************************************************************************)
(* All diagrams over three states with few edges on two visible events or  *)
(* tau, and a diagram with an end edge.  Edges have guards and posts of    *)
(* their own, some of them true.                                           *)
(***************************************************************************)
EXTENDS Normalization

CONSTANT MaxEdges

P == <<"p">>
Q == <<"q">>
R == <<"r">>

PlainIDs == <<P, Q, R>>

Edge(s, ev, t) ==
  [src |-> s, event |-> ev, dst |-> t,
   guard |-> IF s = t THEN PredicateTrue ELSE <<s, t>>,
   post  |-> IF t = P THEN PredicateTrue ELSE <<ev, t>>]

Diagram(ids, entry, E, hasEnd) ==
  [states |-> [id \in ids |-> id], start |-> [dst |-> entry, post |-> <<"init">>],
   edges |-> E, end |-> hasEnd]

Few(E, n) == {{}} \cup {{f[i] : i \in 1 .. n} : f \in [1 .. n -> E]}

EdgesOver(ids) == {Edge(s, ev, t) : s \in ids, ev \in {1, 2, 3}, t \in ids}

MCInputs ==
  {Diagram({P, Q, R}, P, E, FALSE) : E \in Few(EdgesOver({P, Q, R}), MaxEdges)}
  \cup {Diagram({P, Q}, P, {}, TRUE)}

(* Plain ids joined with "_" can be taken apart again.                     *)
ASSUME MCInputsAssumption == UnambiguousInputs

=============================================================================
