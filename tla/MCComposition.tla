--------------------------- MODULE MCComposition ---------------------------
(***************************************************************************)
(* Every pair of two-state diagrams with at most two transitions on the    *)
(* left and two on the right over an interface event, a local event and    *)
(* tau, and folds of three diagrams.                                       *)
(***************************************************************************)
EXTENDS ProcessTree

CONSTANTS LocalEvents, Interface, MaxEdges

S0 == <<"s", "0">>
S1 == <<"s", "1">>
\* An id with a separator, legal everywhere and used in the first operand only.
S01 == <<"s", "_", "0">>

(* Each process writes predicates of its own, so that a swapped or a lost  *)
(* conjunct shows; a self loop has the guard "true" and no post.           *)
Edge(i, s, ev, t) ==
  [src |-> s, event |-> ev, dst |-> t,
   guard |-> IF s = t THEN PredicateTrue ELSE <<"g", i>>,
   post  |-> IF s = t THEN PredicateTrue ELSE <<"p", i>>]

Diagram(i, ids, entry, E, hasEnd) ==
  [states |-> [id \in ids |-> <<i, id>>], start |-> [dst |-> entry, post |-> <<"init", i>>],
   edges |-> E, end |-> hasEnd]

EdgesOver(i, ids) ==
  {Edge(i, s, ev, t) : s \in ids, ev \in LocalEvents \cup Interface, t \in ids}

EdgeSets(i, ids, n) == {E \in SUBSET EdgesOver(i, ids) : Cardinality(E) <= n}

(* Two operands, all choices of edges; the first has an undeclared start.  *)
TwoOperands ==
  {[ops |-> <<Diagram(1, {S0}, S01, E, FALSE), Diagram(2, {S0, S1}, S0, F, FALSE)>>,
    sync |-> Interface] :
     E \in EdgeSets(1, {S01, S0}, MaxEdges), F \in EdgeSets(2, {S0, S1}, MaxEdges)}

(* Three and four operands that walk along chains of their own.            *)
Chain(i, ev1, ev2) ==
  Diagram(i, {S0, S1}, S0, {Edge(i, S0, ev1, S1), Edge(i, S1, ev2, S0)}, FALSE)

Events == LocalEvents \cup Interface

ManyOperands ==
  {[ops |-> <<Chain(1, e[1], e[2]), Chain(2, e[2], e[3]), Chain(3, e[3], e[1])>>,
    sync |-> Interface] : e \in [1 .. 3 -> Events]}
  \cup {[ops |-> <<Chain(1, e[1], e[2])>>, sync |-> Interface] : e \in [1 .. 2 -> Events]}

(* A diagram with an end edge in every position of the fold.               *)
WithEndEdge ==
  {[ops |-> [i \in 1 .. 3 |-> Diagram(i, {S0, S1}, S0, EdgesOver(i, {S0}), i = k)],
    sync |-> Interface] : k \in 1 .. 3}

(* Two legal diagrams over local events whose ids read the same joined:    *)
(* "a" with "b_a" and "a_b" with "a".                                      *)
AmbiguousJobs ==
  LET a == <<"a">>  a_b == <<"a", "_", "b">> b_a == <<"b", "_", "a">>
  IN  {[ops |-> <<Diagram(1, {a, a_b}, a, {Edge(1, a, ev1, a_b)}, FALSE),
                  Diagram(2, {b_a, a}, b_a, {Edge(2, b_a, ev2, a)}, FALSE)>>,
        sync |-> Interface] : ev1, ev2 \in LocalEvents}

(***************************************************************************)
(* Composition trees over three leaves that share the events of the        *)
(* interface, with hiding above, below and between two compositions, and   *)
(* composites nested in every position.                                    *)
(***************************************************************************)
Leaf1 == Chain(1, "x", "a")
Leaf2 == Chain(2, "a", "x")
Leaf3 == Diagram(3, {S0, S1}, S0,
           {Edge(3, S0, "x", S1), Edge(3, S0, "tau", S1), Edge(3, S1, "a", S1)}, FALSE)

MCLibrary ==
  [path \in {"1", "2", "3", "end"} |->
     CASE path = "1" -> Leaf1 [] path = "2" -> Leaf2 [] path = "3" -> Leaf3
       [] OTHER -> [Leaf1 EXCEPT !.end = TRUE]]

Interfaces == SUBSET {"a", "x"}

(* Both ways to nest one composition in another, in each position.         *)
NestedTrees ==
  UNION {{Hiding(h[3], Parallel(s[2],
            <<Hiding(h[2], Parallel(s[1], <<Refer("1"), Refer("2")>>)), Hiding(h[1], Refer("3"))>>)),
          Hiding(h[3], Parallel(s[2],
            <<Hiding(h[1], Refer("3")), Hiding(h[2], Parallel(s[1], <<Refer("1"), Refer("2")>>))>>))} :
             s \in [1 .. 2 -> Interfaces], h \in [1 .. 3 -> {{}, {"x"}}]}

(* Flat trees, synchronised on what csdfevents prints for their leaves.    *)
FlatTrees ==
  UNION {LET leaves == [i \in DOMAIN p |-> Refer(p[i])]
             ds     == [i \in DOMAIN p |-> MCLibrary[p[i]]]
         IN  {Parallel(CommonEvents(ds), leaves), Parallel(AllEvents(ds) \ {Tau}, leaves),
              Hiding(AllEvents(ds), leaves[1])} :
           p \in BoundedSeq({"1", "2", "3"}, 3) \ {<< >>}}

(* A broken part, a path that does not load and an end edge, at each leaf  *)
(* of a tree; hiding does not take an end edge away.                       *)
BrokenTrees ==
  {LET part(i) == IF i = k THEN e ELSE Refer("1")
   IN  Parallel({"x"}, <<part(1), Parallel({}, <<part(2), Hiding({"a"}, part(3))>>)>>) :
     k \in 1 .. 3,
     e \in {Malformed, Refer(""), Refer("missing"), Parallel({}, << >>), Hiding({"x"}, Malformed),
            Refer("end"), Hiding({"x"}, Refer("end")), Parallel({}, <<Refer("end")>>)}}

MCTrees == NestedTrees \cup FlatTrees \cup BrokenTrees \cup {Refer("end"), Hiding({"a"}, Refer("end"))}

MCJobs == TwoOperands \cup ManyOperands \cup WithEndEdge

=============================================================================
