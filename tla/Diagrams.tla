------------------------------ MODULE Diagrams ------------------------------
(***************************************************************************)
(* The abstract syntax shared by the models of package csdf (csdf/ast.go). *)
(*                                                                         *)
(* A diagram is a record                                                   *)
(*   states : a function from declared state ids to their contents;        *)
(*   start  : [dst, post], the start edge;                                 *)
(*   edges  : the set of its transitions [src, event, dst, guard, post];   *)
(*   end    : whether it has an end edge.                                  *)
(* A slice of edges is modelled as a set: the code orders it canonically   *)
(* (SortEdges) before it is used or printed, and never counts copies.      *)
(*                                                                         *)
(* A state id is the sequence of its characters, because two functions of  *)
(* the code build ids by joining other ids and what matters about them is  *)
(* which ids they can confuse.                                             *)
(***************************************************************************)
EXTENDS Naturals, Sequences

CONSTANTS
  Char,  \* the characters of ids
  Sep    \* the character ids are joined with, "_"

ASSUME SepAssumption == Sep \in Char

StateID == Seq(Char)

(* An id in which the joining character does not occur.                    *)
Plain(id) == \A i \in DOMAIN id : id[i] # Sep

(***************************************************************************)
(* A predicate is the sequence of the natural-language conjuncts it joins. *)
(* The empty sequence stands for the omitted predicate and for "true",     *)
(* which IsTrue treats alike, so joining by Conjunction is concatenation.  *)
(***************************************************************************)
PredicateTrue == << >>

Conjunction(g1, g2) == g1 \o g2

(* Names a diagram mentions: the parser does not require the endpoints of  *)
(* an edge, or the target of the start edge, to be declared states.        *)
Nodes(d) ==
  DOMAIN d.states \cup {d.start.dst}
    \cup {e.src : e \in d.edges} \cup {e.dst : e \in d.edges}

(* d.States[id]: the zero State when the id is not declared.               *)
StateOf(d, id) == IF id \in DOMAIN d.states THEN d.states[id] ELSE << >>

Outgoing(d, id) == {e \in d.edges : e.src = id}

=============================================================================
