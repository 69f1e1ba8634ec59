---------------------------- MODULE Composition ----------------------------
(***************************************************************************)
(* csdf/composition.go: ComposeParallel folds a list of diagrams, and      *)
(* ComposeParallel2 builds the interface parallel of two of them by a      *)
(* worklist over pairs of states.  The worklist recognises a pair by its   *)
(* composed id alone, and the pairs it discovers in one iteration come out *)
(* of Go maps, so they are enqueued in any order and, where two of them    *)
(* share an id, either may be the one that is kept.                        *)
(***************************************************************************)
EXTENDS InterfaceParallel

CONSTANT Jobs  \* the calls: records [ops : sequence of diagrams, sync : set of events]

Operands == UNION {ToSet(j.ops) : j \in Jobs}

ASSUME JobsAssumption ==
  /\ \A j \in Jobs : j.ops \in Seq(Operands) \ {<< >>}
  /\ \A d \in Operands : Nodes(d) \subseteq StateID

VARIABLES
  job,     \* the arguments of ComposeParallel
  pc,      \* "fold", "explore", "done" or "failed"; "idle" between calls
  dL, dR,  \* the two diagrams being composed
  rest,    \* the diagrams still to be folded in, in order
  states, start, edges,  \* the diagram under construction
  marked,  \* ids of the pairs that have been enqueued
  queue    \* the worklist, a sequence of pairs <<left id, right id>>

out == <<states, start, edges>>

vars == <<job, pc, dL, dR, rest, out, marked, queue>>

NoDiagram ==
  [states |-> [id \in {} |-> << >>], start |-> [dst |-> << >>, post |-> PredicateTrue],
   edges |-> {}, end |-> FALSE]

ComposeStateIDs(s1, s2) == s1 \o <<Sep>> \o s2

PairID(p) == ComposeStateIDs(p[1], p[2])

(* Name and variables of a pair: those of its components, side by side.    *)
PairState(p) == StateOf(dL, p[1]) \o StateOf(dR, p[2])

(***************************************************************************)
(* The transitions composeParallel2 emits for a pair.  Para3: an event of  *)
(* the synchronisation set is taken by both sides; Para1, Para2: any other *)
(* event is taken by one side while the other stays.                       *)
(***************************************************************************)
Para3(p) ==
  {[event |-> m[1].event, dst |-> <<m[1].dst, m[2].dst>>,
    guard |-> Conjunction(m[1].guard, m[2].guard),
    post  |-> Conjunction(m[1].post, m[2].post)] :
     m \in {x \in Outgoing(dL, p[1]) \X Outgoing(dR, p[2]) :
              x[1].event = x[2].event /\ x[1].event \in job.sync}}

(* Faulty variant: Para1 without its test of the synchronisation set.      *)
Para1_Unsynchronised(p) ==
  {[event |-> e.event, dst |-> <<e.dst, p[2]>>, guard |-> e.guard, post |-> e.post] :
     e \in Outgoing(dL, p[1])}

Para1(p) ==
  {[event |-> e.event, dst |-> <<e.dst, p[2]>>, guard |-> e.guard, post |-> e.post] :
     e \in {x \in Outgoing(dL, p[1]) : x.event \notin job.sync}}

Para2(p) ==
  {[event |-> e.event, dst |-> <<p[1], e.dst>>, guard |-> e.guard, post |-> e.post] :
     e \in {x \in Outgoing(dR, p[2]) : x.event \notin job.sync}}

Moves(p) == Para3(p) \cup Para1(p) \cup Para2(p)

Successors(p) == {m.dst : m \in Moves(p)}

EdgesOf(p) ==
  {[src |-> PairID(p), event |-> m.event, dst |-> PairID(m.dst),
    guard |-> m.guard, post |-> m.post] : m \in Moves(p)}

IDs(S) == {PairID(p) : p \in S}

(* Faulty variant: a pair is passed over when its left state was met.      *)
Enqueuings_ByLeftState(S) ==
  {q \in BoundedSeq(S, Cardinality(S)) :
     /\ {p[1] : p \in S} = {q[i][1] : i \in DOMAIN q}
     /\ \A i, j \in DOMAIN q : q[i][1] = q[j][1] => i = j}

(* The orders in which an iteration may enqueue the pairs S: one pair for  *)
(* each id, the others sharing it being passed over as already marked.     *)
Enqueuings(S) ==
  {q \in BoundedSeq(S, Cardinality(S)) :
     /\ IDs(S) = {PairID(q[i]) : i \in DOMAIN q}
     /\ \A i, j \in DOMAIN q : PairID(q[i]) = PairID(q[j]) => i = j}

(* Faulty variant: the pairs are enqueued and not marked.                  *)
Mark_Forgotten(S) == marked

Mark(S) == marked \cup IDs(S)

(* Faulty variant: the head stays in the worklist.                         *)
Dequeued_Kept == queue

Dequeued == Tail(queue)

(***************************************************************************)
(* ComposeParallel.  The first diagram is composed with the third and the  *)
(* following ones in turn, and the second comes last.                      *)
(***************************************************************************)
FoldOrder(ops) ==
  IF Len(ops) > 1 THEN SubSeq(ops, 3, Len(ops)) \o <<ops[2]>> ELSE << >>

Init ==
  /\ job \in Jobs
  /\ pc = "fold"
  /\ dL = job.ops[1] /\ dR = NoDiagram
  /\ rest = FoldOrder(job.ops)
  /\ states = NoDiagram.states /\ start = NoDiagram.start /\ edges = NoDiagram.edges
  /\ marked = {} /\ queue = << >>

(* ComposeParallel2 refuses diagrams with end edges.                       *)
RejectEndEdge ==
  /\ pc = "fold" /\ rest # << >>
  /\ dL.end \/ Head(rest).end
  /\ pc' = "failed"
  /\ UNCHANGED <<job, dL, dR, rest, out, marked, queue>>

(* ComposeParallel2 up to its loop.                                        *)
ComposeParallel2 ==
  /\ pc = "fold" /\ rest # << >>
  /\ ~ (dL.end \/ Head(rest).end)
  /\ LET r == Head(rest)
         p == <<dL.start.dst, r.start.dst>>
     IN  /\ dR' = r /\ rest' = Tail(rest)
         /\ states' = [id \in {PairID(p)} |-> StateOf(dL, p[1]) \o StateOf(r, p[2])]
         /\ start' = [dst  |-> PairID(p),
                      post |-> Conjunction(dL.start.post, r.start.post)]
         /\ edges' = {}
         /\ marked' = {PairID(p)} /\ queue' = <<p>>
  /\ pc' = "explore"
  /\ UNCHANGED <<job, dL>>

(* One iteration of the worklist: every transition of the pair at its head *)
(* is emitted, the target's state is written again (the last write wins)   *)
(* and the target is enqueued unless its id is marked.                     *)
composeParallel2 ==
  /\ pc = "explore" /\ queue # << >>
  /\ LET p    == Head(queue)
         next == Successors(p)
         new  == {q \in next : PairID(q) \notin marked}
     IN  /\ \E w \in [IDs(next) -> next] :
              /\ \A id \in IDs(next) : PairID(w[id]) = id
              /\ states' = [id \in DOMAIN states \cup IDs(next) |->
                              IF id \in IDs(next) THEN PairState(w[id]) ELSE states[id]]
         /\ edges' = edges \cup EdgesOf(p)
         /\ marked' = Mark(next)
         /\ \E q \in Enqueuings(new) : queue' = Dequeued \o q
  /\ UNCHANGED <<job, pc, dL, dR, rest, start>>

(* The composite becomes the left operand of the rest of the fold.         *)
ReturnComposite ==
  /\ pc = "explore" /\ queue = << >>
  /\ dL' = [states |-> states, start |-> start, edges |-> edges, end |-> FALSE]
  /\ pc' = "fold"
  /\ UNCHANGED <<job, dR, rest, out, marked, queue>>

ReturnResult ==
  /\ pc = "fold" /\ rest = << >>
  /\ pc' = "done"
  /\ UNCHANGED <<job, dL, dR, rest, out, marked, queue>>

Next ==
  \/ RejectEndEdge
  \/ ComposeParallel2
  \/ composeParallel2
  \/ ReturnComposite
  \/ ReturnResult

(* A single goroutine runs the call to its end.                            *)
Spec == Init /\ [][Next]_vars /\ WF_vars(Next)

-----------------------------------------------------------------------------
(***************************************************************************)
(* What a call of ComposeParallel2 promises about its two operands.        *)
(***************************************************************************)
Pairs == Nodes(dL) \X Nodes(dR)

StartPair == <<dL.start.dst, dR.start.dst>>

Closed(S) == \A p \in S : Successors(p) \subseteq S

(* The least set of pairs that holds the start pair and is closed under    *)
(* the transitions of the composition.                                     *)
ReachablePairs ==
  {p \in Pairs : \A S \in SUBSET Pairs : StartPair \in S /\ Closed(S) => p \in S}

(***************************************************************************)
(* The operands' ids keep composed ids apart: in every operand but the     *)
(* first no id has the joining character.                                  *)
(***************************************************************************)
PlainJobs ==
  \A j \in Jobs : \A i \in 2 .. Len(j.ops) : \A id \in Nodes(j.ops[i]) : Plain(id)

-----------------------------------------------------------------------------
(* Every variable stays in its domain; in particular the worklist holds    *)
(* pairs of nodes of the two operands and every pair in it is marked.      *)
TypeOK ==
  /\ pc \in {"idle", "fold", "explore", "done", "failed"}
  /\ rest \in Seq(ToSet(job.ops))
  /\ pc = "explore" =>
       /\ queue \in Seq(Pairs)
       /\ marked \subseteq IDs(Pairs)
       /\ \A i \in DOMAIN queue : PairID(queue[i]) \in marked
       /\ DOMAIN states = marked

(* When the worklist of ComposeParallel2 runs dry, the diagram it built    *)
(* has exactly the states and the transitions of the reachable pairs: no   *)
(* pair is missed because another one was marked before it, none is        *)
(* explored that cannot be reached, in whatever order the maps gave them.  *)
ExhaustedIsProduct ==
  pc = "explore" /\ queue = << >> =>
    /\ DOMAIN states = IDs(ReachablePairs)
    /\ edges = UNION {EdgesOf(p) : p \in ReachablePairs}
    /\ \A p \in ReachablePairs : states[PairID(p)] = PairState(p)

(* The ids of a vector, joined.                                            *)
VectorID(v) ==
  FlattenSeq([i \in DOMAIN v |-> IF i = 1 THEN v[1] ELSE <<Sep>> \o v[i]])

(* The transition of a composite that a joint step of its operands gives.  *)
EdgeFor(v, m) ==
  [src |-> VectorID(v), event |-> m.event, dst |-> VectorID(m.dst),
   guard |-> m.guard, post |-> m.post]

StartPosts(ops) == FlattenSeq([i \in Ports(ops) |-> ops[i].start.post])

Contents(ops, v) == FlattenSeq([i \in Ports(ops) |-> StateOf(ops[i], v[i])])

(* The diagram d is the interface parallel of ops: its states are the      *)
(* reachable vectors, each under an id of its own, and its edges are the   *)
(* joint steps of the operands with their predicates joined.               *)
IsInterfaceParallel(d, ops, sync) ==
  LET reach == ReachableVectors(ops, sync)
  IN  /\ d.start = [dst |-> VectorID(InitialVector(ops)), post |-> StartPosts(ops)]
      /\ DOMAIN d.states = {VectorID(v) : v \in reach}
      /\ \A v, w \in reach : VectorID(v) = VectorID(w) => v = w
      /\ \A v \in reach : d.states[VectorID(v)] = Contents(ops, v)
      /\ d.edges = UNION {{EdgeFor(v, m) : m \in Steps(ops, sync, v)} : v \in reach}

(* The operands in the order in which ComposeParallel folds them.          *)
AsFolded(ops) == <<ops[1]>> \o FoldOrder(ops)

(* The result of ComposeParallel is the CSP interface parallel of all its  *)
(* operands (README.md:7), whatever the fold does in between.              *)
ResultIsInterfaceParallel ==
  pc = "done" =>
    LET ops == AsFolded(job.ops)
    IN  IF Len(ops) = 1 THEN dL = ops[1] ELSE IsInterfaceParallel(dL, ops, job.sync)
=============================================================================
