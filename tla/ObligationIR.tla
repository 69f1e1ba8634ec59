---------------------------- MODULE ObligationIR ----------------------------
(***************************************************************************)
(* csdf/obligationir: what csdflivelockfree and csdfrefinement build from  *)
(* diagrams before a backend writes it.  The guards and posts of diagrams  *)
(* are texts that nobody interprets; BuildInit, BuildEdges and BuildEnd    *)
(* add each occurrence of one, in the order of the source, to one          *)
(* PredicateSet, which gives it the id of the placeholder that stands for  *)
(* it.  Two diagrams of a refinement share the set.                        *)
(*                                                                         *)
(* A diagram is as the parser leaves it:                                   *)
(*   states : state id -> [fields, line], fields a sequence [name, type];  *)
(*   start  : [dst, post];                                                 *)
(*   edges  : a sequence of [src, dst, event, guard, post, line];          *)
(*   end    : a sequence of at most one [src, guard, line].                *)
(* No two of its declarations are on one line.                             *)
(***************************************************************************)
EXTENDS Naturals, Sequences, FiniteSets

CONSTANTS
  Jobs,     \* [mode, diagrams]: one diagram in mode "livelock", two in "trace",
            \* "stable-failure" and "failures-divergence"
  Tau,      \* the silent event
  IdSpace,  \* the number of predicate ids, 2^32 in the code
  Hash(_)   \* CRC-32 of a signature

IsList(s) == s \in Seq({s[i] : i \in DOMAIN s})

(* Ids are sequences of characters, slices sequences, maps finite.         *)
IsDiagram(d) ==
  /\ IsFiniteSet(DOMAIN d.states) /\ \A s \in DOMAIN d.states : IsList(s)
  /\ IsList(d.edges) /\ IsList(d.end)
  /\ \A i, j \in DOMAIN d.edges : d.edges[i].line = d.edges[j].line => i = j
  /\ \A i \in DOMAIN d.edges, j \in DOMAIN d.end : d.edges[i].line # d.end[j].line

ASSUME JobsAssumption ==
  \A j \in Jobs :
    /\ IsList(j.diagrams) /\ \A k \in DOMAIN j.diagrams : IsDiagram(j.diagrams[k])
    /\ \/ j.mode = "livelock" /\ Len(j.diagrams) = 1
       \/ j.mode \in {"trace", "stable-failure", "failures-divergence"} /\ Len(j.diagrams) = 2

ASSUME IdSpaceAssumption == IdSpace \in Nat \ {0}

VARIABLES
  job,
  at,       \* the occurrence to be added next
  id,       \* PredicateSet.id: the id of every signature added
  m,        \* PredicateSet.m: the predicate of every id given out
  name      \* the ids the occurrences before "at" got, in their order

buildVars == <<job, at, id, m, name>>

-----------------------------------------------------------------------------
(* A state the diagram does not declare is the zero value.                 *)
FieldsOf(states, s) == IF s \in DOMAIN states THEN states[s].fields ELSE << >>

ArgsOf(states, s, primed) ==
  [i \in DOMAIN FieldsOf(states, s) |->
     [name |-> FieldsOf(states, s)[i].name, type |-> FieldsOf(states, s)[i].type,
      primed |-> primed]]

Predicate(args, text) == [args |-> args, text |-> text]

(* IRPredicate.Signature: what makes two predicates one.                   *)
(* Faulty variant: without the types of primed arguments.                  *)
Signature_Unprimed(p) ==
  <<p.text, [i \in {i \in DOMAIN p.args : ~ p.args[i].primed} |-> p.args[i].type]>>

Signature(p) == <<p.text, [i \in DOMAIN p.args |-> p.args[i].type]>>

(* The predicates of one diagram in the order they are added.              *)
InitPredicate(d) == Predicate(ArgsOf(d.states, d.start.dst, FALSE), d.start.post)

GuardPredicate(d, e) == Predicate(ArgsOf(d.states, e.src, FALSE), e.guard)

PostPredicate(d, e) ==
  Predicate(ArgsOf(d.states, e.src, FALSE) \o ArgsOf(d.states, e.dst, TRUE), e.post)

EndPredicate(d, end) == Predicate(ArgsOf(d.states, end.src, FALSE), end.guard)

(* Guards and posts alternate after the init predicate.                    *)
EdgePredicates(d) ==
  [i \in 1 .. 2 * Len(d.edges) |->
     IF i % 2 = 1 THEN GuardPredicate(d, d.edges[(i + 1) \div 2])
                  ELSE PostPredicate(d, d.edges[i \div 2])]

SidePredicates(d) ==
  << InitPredicate(d) >> \o EdgePredicates(d)
    \o [i \in DOMAIN d.end |-> EndPredicate(d, d.end[i])]

(* Where the occurrences of side k begin, less one.                        *)
Offset(k) == IF k = 1 THEN 0 ELSE Len(SidePredicates(job.diagrams[1]))

OccurrencesOf(j) ==
  IF Len(j.diagrams) = 1
  THEN SidePredicates(j.diagrams[1])
  ELSE SidePredicates(j.diagrams[1]) \o SidePredicates(j.diagrams[2])

Occurrences == OccurrencesOf(job)

Signatures ==
  UNION {{Signature(OccurrencesOf(j)[i]) : i \in DOMAIN OccurrencesOf(j)} : j \in Jobs}

ASSUME HashAssumption == \A signature \in Signatures : Hash(signature) \in 0 .. IdSpace - 1

-----------------------------------------------------------------------------
(* PredicateSet.Add: a signature met before has its id; a new one gets its *)
(* hash, or the next id after it that is free.                             *)
Probe(signature, k) == (Hash(signature) + k) % IdSpace

(* Faulty variant: no step beyond the hash.                                *)
FreeProbe_Hash(signature, k) == k = 0 /\ Probe(signature, 0) \notin DOMAIN m

FreeProbe(signature, k) ==
  /\ Probe(signature, k) \notin DOMAIN m
  /\ \A j \in 0 .. k - 1 : Probe(signature, j) \in DOMAIN m

AddKnown ==
  LET p == Occurrences[at]
  IN  /\ Signature(p) \in DOMAIN id
      /\ name' = Append(name, id[Signature(p)])
      /\ UNCHANGED <<id, m>>

(* There is no end to the probing of a set that is full: no step.          *)
AddNew ==
  LET p == Occurrences[at]  signature == Signature(p)
  IN  /\ signature \notin DOMAIN id
      /\ \E k \in 0 .. IdSpace - 1 :
           LET new == Probe(signature, k)
           IN  /\ FreeProbe(signature, k)
               /\ id' = [s \in DOMAIN id \cup {signature} |->
                           IF s = signature THEN new ELSE id[s]]
               /\ m' = [i \in DOMAIN m \cup {new} |-> IF i = new THEN p ELSE m[i]]
               /\ name' = Append(name, new)

Add ==
  /\ at <= Len(Occurrences)
  /\ AddKnown \/ AddNew
  /\ at' = at + 1
  /\ UNCHANGED job

Empty == [x \in {} |-> x]

BuildInitial ==
  /\ job \in Jobs
  /\ at = 1 /\ id = Empty /\ m = Empty /\ name = << >>

BuildSpec == BuildInitial /\ [][Add]_buildVars

Built == at > Len(Occurrences)

-----------------------------------------------------------------------------
(* Two predicates are the same if their texts are and they are about       *)
(* variables of the same types in the same order.                          *)
SameMeaning(p, q) ==
  /\ p.text = q.text
  /\ DOMAIN p.args = DOMAIN q.args
  /\ \A i \in DOMAIN p.args : p.args[i].type = q.args[i].type

(* Whatever ids the probing gives out, two occurrences of predicates get   *)
(* one placeholder if and only if they are the same predicate, and the     *)
(* placeholder is declared with that predicate (PredicateSet.Add).         *)
PlaceholdersFaithful ==
  /\ \A i, j \in DOMAIN name :
       name[i] = name[j] <=> SameMeaning(Occurrences[i], Occurrences[j])
  /\ \A i \in DOMAIN name :
       name[i] \in DOMAIN m /\ SameMeaning(m[name[i]], Occurrences[i])

-----------------------------------------------------------------------------
(* CheckLivelockFree: no reachable cycle of silent edges (what it answers  *)
(* is the subject of module Livelock).                                     *)
Cyclic(nodes, start, edges) ==
  LET Closed(S) == start \in S /\ \A e \in edges : e.src \in S => e.dst \in S
      reachable == {s \in nodes : \A S \in SUBSET nodes : Closed(S) => s \in S}
  IN  \E S \in (SUBSET reachable) \ {{}} :
        \A s \in S : \E e \in edges : e.src = s /\ e.event = Tau /\ e.dst \in S

Edges(d) == {d.edges[i] : i \in DOMAIN d.edges}

Nodes(d) ==
  DOMAIN d.states \cup {d.start.dst} \cup {e.src : e \in Edges(d)} \cup {e.dst : e \in Edges(d)}

StructurallyFree(d) == ~ Cyclic(Nodes(d), d.start.dst, Edges(d))

(* One side of the representation: edges, start and end with the ids of    *)
(* their predicates and their own arguments.                               *)
IREdge(k, i) ==
  LET d == job.diagrams[k]  e == d.edges[i]
  IN  [src |-> e.src, dst |-> e.dst, event |-> e.event, line |-> e.line,
       guard |-> name[Offset(k) + 2 * i], guardArgs |-> GuardPredicate(d, e).args,
       post |-> name[Offset(k) + 2 * i + 1], postArgs |-> PostPredicate(d, e).args]

(* StructurallyLivelockFree is set in failures-divergence mode only.       *)
Verdict(d) == IF job.mode = "failures-divergence" THEN << StructurallyFree(d) >> ELSE << >>

IRSide(k) ==
  LET d == job.diagrams[k]
  IN  [states |-> d.states,
       init   |-> [dst |-> d.start.dst, post |-> name[Offset(k) + 1],
                   postArgs |-> InitPredicate(d).args],
       edges  |-> [i \in DOMAIN d.edges |-> IREdge(k, i)],
       end    |-> [i \in DOMAIN d.end |->
                     [src |-> d.end[i].src, line |-> d.end[i].line,
                      guard |-> name[Offset(k) + 2 * Len(d.edges) + 2],
                      guardArgs |-> EndPredicate(d, d.end[i]).args]],
       free   |-> Verdict(d)]

(* The visible events of both diagrams.                                    *)
Alphabet == (UNION {{e.event : e \in Edges(job.diagrams[k])} : k \in DOMAIN job.diagrams}) \ {Tau}

IRLivelockFree ==
  [structurally |-> StructurallyFree(job.diagrams[1]), predicates |-> m,
   states |-> IRSide(1).states, init |-> IRSide(1).init, edges |-> IRSide(1).edges]

IRRefinement ==
  [mode |-> job.mode, alphabet |-> Alphabet, predicates |-> m,
   sides |-> << IRSide(1), IRSide(2) >>]

=============================================================================
