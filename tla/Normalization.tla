--------------------------- MODULE Normalization ---------------------------
(***************************************************************************)
(* csdf/normalize.go: Normalize builds the normal form of a diagram by the *)
(* subset construction with tau closure.  The worklist recognises a set of *)
(* states by its id alone, the sorted ids of its members joined with "_".  *)
(*                                                                         *)
(* The phases are the points of the code between which nothing branches:   *)
(* "closure" is the loop of TauClosure, called for the start state (event  *)
(* is Tau then) and for the targets of each event of a dequeued set.       *)
(* Events are naturals in the order of the strings they stand for.         *)
(***************************************************************************)
EXTENDS Diagrams, FiniteSets, SequencesExt

CONSTANTS
  Tau,     \* the silent event
  IDs,     \* all state ids, as a sequence in the order of strings
  Inputs,  \* the diagrams to normalise
  MaxTrace \* bound on the length of the traces the properties compare

ASSUME InputsAssumption ==
  /\ Tau \in Nat /\ MaxTrace \in Nat
  /\ IDs \in Seq(StateID) /\ \A i, j \in DOMAIN IDs : IDs[i] = IDs[j] => i = j
  /\ \A d \in Inputs : Nodes(d) \subseteq ToSet(IDs) /\ \A e \in d.edges : e.event \in Nat

VARIABLES
  d,                  \* the diagram being normalised
  pc,                 \* "init", "closure", "dequeue", "events", "done" or "failed"
  closure, frontier,  \* TauClosure: its result so far, and its queue
  u,                  \* the set dequeued
  todo,               \* events of u still to be handled, in order
  event,              \* the event whose targets are being closed
  states, start, edges,  \* the normal form; a state is the set its name spells
  marked, queue       \* ids of enqueued sets; the worklist, a sequence of sets

result == <<states, start, edges>>

vars == <<d, pc, closure, frontier, u, todo, event, result, marked, queue>>

(* Member ids sorted and joined; a set in the worklist is never empty.     *)
SortedMembers(S) == SelectSeq(IDs, LAMBDA id : id \in S)

normalStateID(S) ==
  LET ms == SortedMembers(S)
  IN  FoldLeft(LAMBDA joined, id : joined \o <<Sep>> \o id, ms[1], Tail(ms))

(* A true disjunct absorbs the others; otherwise they are listed once each.*)
DisjunctionAll(preds) ==
  IF preds = {} \/ PredicateTrue \in preds THEN {PredicateTrue} ELSE preds

(* Faulty variant: the members' tau edges are grouped with the others.     *)
Visible_WithTau(S) == {e \in d.edges : e.src \in S}

(* byEvent: the visible edges of the members of a closed set.              *)
Visible(S) == {e \in d.edges : e.src \in S /\ e.event # Tau}

EdgesOn(S, ev) == {e \in Visible(S) : e.event = ev}

(* The ids of sets of states cannot be confused, as they can when ids of   *)
(* states hold the joining character.                                      *)
UnambiguousInputs ==
  \A x \in Inputs : \A S, T \in (SUBSET Nodes(x)) \ {{}} :
    normalStateID(S) = normalStateID(T) => S = T

Init ==
  /\ d \in Inputs /\ pc = "init"
  /\ closure = {} /\ frontier = {} /\ u = {} /\ todo = {} /\ event = Tau
  /\ states = [id \in {} |-> {}] /\ start = << >> /\ edges = {}
  /\ marked = {} /\ queue = << >>

RejectEndEdge ==
  /\ pc = "init" /\ d.end
  /\ pc' = "failed"
  /\ UNCHANGED <<d, closure, frontier, u, todo, event, result, marked, queue>>

(* TauClosure is called with the set S for the event ev.                   *)
CallTauClosure(S, ev) ==
  /\ closure' = S /\ frontier' = S /\ event' = ev
  /\ pc' = "closure"

CloseStart ==
  /\ pc = "init" /\ ~ d.end
  /\ CallTauClosure({d.start.dst}, Tau)
  /\ UNCHANGED <<d, u, todo, result, marked, queue>>

(* Faulty variants: TauClosure stops after one tau edge; it does not take  *)
(* the state off its queue.                                                *)
CloseStep_Once ==
  /\ pc = "closure"
  /\ \E s \in frontier :
       /\ closure' = closure \cup {e.dst : e \in {x \in Outgoing(d, s) : x.event = Tau}}
       /\ frontier' = frontier \ {s}
  /\ UNCHANGED <<d, pc, u, todo, event, result, marked, queue>>

CloseStep_Kept ==
  /\ pc = "closure"
  /\ \E s \in frontier :
       LET new == {e.dst : e \in {x \in Outgoing(d, s) : x.event = Tau}} \ closure
       IN  /\ closure' = closure \cup new
           /\ frontier' = frontier \cup new
  /\ UNCHANGED <<d, pc, u, todo, event, result, marked, queue>>

(* An iteration of TauClosure; its queue may come from a Go map, and the   *)
(* closure does not depend on the order.                                   *)
CloseStep ==
  /\ pc = "closure"
  /\ \E s \in frontier :
       LET new == {e.dst : e \in {x \in Outgoing(d, s) : x.event = Tau}} \ closure
       IN  /\ closure' = closure \cup new
           /\ frontier' = (frontier \ {s}) \cup new
  /\ UNCHANGED <<d, pc, u, todo, event, result, marked, queue>>

Add(S) ==
  [id \in DOMAIN states \cup {normalStateID(S)} |->
     IF id \in DOMAIN states THEN states[id] ELSE S]

(* The closure of the start state is the initial state.                    *)
RecordStart ==
  /\ pc = "closure" /\ frontier = {} /\ event = Tau
  /\ start' = [dst |-> normalStateID(closure), post |-> d.start.post]
  /\ states' = Add(closure)
  /\ marked' = {normalStateID(closure)} /\ queue' = <<closure>>
  /\ pc' = "dequeue"
  /\ UNCHANGED <<d, closure, frontier, u, todo, event, edges>>

Dequeue ==
  /\ pc = "dequeue" /\ queue # << >>
  /\ u' = Head(queue) /\ queue' = Tail(queue)
  /\ todo' = {e.event : e \in Visible(Head(queue))}
  /\ pc' = "events"
  /\ UNCHANGED <<d, closure, frontier, event, result, marked>>

(* The next event in order: its targets are closed.                        *)
CloseTargets ==
  /\ pc = "events"
  /\ \E ev \in todo :
       /\ \A other \in todo : ev <= other
       /\ todo' = todo \ {ev}
       /\ CallTauClosure({e.dst : e \in EdgesOn(u, ev)}, ev)
  /\ UNCHANGED <<d, u, result, marked, queue>>

(* Faulty variant: only the posts are merged, one of the guards is kept.   *)
Merged_OneGuard(S, ev) ==
  [guard |-> {(CHOOSE e \in EdgesOn(S, ev) : TRUE).guard},
   post  |-> DisjunctionAll({e.post : e \in EdgesOn(S, ev)})]

(* The predicates of the edges merged into one.                            *)
Merged(S, ev) ==
  [guard |-> DisjunctionAll({e.guard : e \in EdgesOn(S, ev)}),
   post  |-> DisjunctionAll({e.post : e \in EdgesOn(S, ev)})]

Enqueue(S) ==
  LET id == normalStateID(S)
  IN  IF id \in marked THEN UNCHANGED <<marked, queue>>
      ELSE marked' = marked \cup {id} /\ queue' = Append(queue, S)

(* The closed targets become a state, unless its id is taken, and an edge. *)
RecordEdge ==
  /\ pc = "closure" /\ frontier = {} /\ event # Tau
  /\ states' = Add(closure)
  /\ edges' = edges \cup
       {[src |-> normalStateID(u), event |-> event, dst |-> normalStateID(closure),
         guard |-> Merged(u, event).guard, post |-> Merged(u, event).post]}
  /\ Enqueue(closure)
  /\ pc' = "events"
  /\ UNCHANGED <<d, closure, frontier, u, todo, event, start>>

EndIteration ==
  /\ pc = "events" /\ todo = {}
  /\ pc' = "dequeue"
  /\ UNCHANGED <<d, closure, frontier, u, todo, event, result, marked, queue>>

Return ==
  /\ pc = "dequeue" /\ queue = << >>
  /\ pc' = "done"
  /\ UNCHANGED <<d, closure, frontier, u, todo, event, result, marked, queue>>

Next ==
  \/ RejectEndEdge \/ CloseStart \/ CloseStep \/ RecordStart
  \/ Dequeue \/ CloseTargets \/ RecordEdge \/ EndIteration \/ Return

(* A single goroutine runs the call to its end.                            *)
Spec == Init /\ [][Next]_vars /\ WF_vars(Next)

-----------------------------------------------------------------------------
(* The states a set of states leads to by tau: the least closed superset.  *)
TauClosed(T) == \A e \in d.edges : e.event = Tau /\ e.src \in T => e.dst \in T

TauReach(S) ==
  {s \in Nodes(d) : \A T \in SUBSET Nodes(d) : S \subseteq T /\ TauClosed(T) => s \in T}

(* The states the diagram may be in after a trace of visible events.       *)
After(trace) ==
  LET after[n \in 0 .. Len(trace)] ==
        IF n = 0 THEN TauReach({d.start.dst})
        ELSE TauReach({e.dst : e \in EdgesOn(after[n - 1], trace[n])})
  IN  after[Len(trace)]

(* The ids the normal form may be in after a trace.                        *)
NormalAfter(trace) ==
  LET after[n \in 0 .. Len(trace)] ==
        IF n = 0 THEN {start.dst}
        ELSE {e.dst : e \in {x \in edges : x.src \in after[n - 1] /\ x.event = trace[n]}}
  IN  after[Len(trace)]

Traces(n) == BoundedSeq({e.event : e \in d.edges} \ {Tau}, n)

-----------------------------------------------------------------------------
(* Every variable stays in its domain; what is queued or being explored is *)
(* a non-empty closed set, as the code relies on when it skips tau edges.  *)
TypeOK ==
  /\ pc \in {"init", "closure", "dequeue", "events", "done", "failed"}
  /\ frontier \subseteq closure /\ closure \subseteq Nodes(d)
  /\ event \in Nat /\ todo \subseteq Nat \ {Tau}
  /\ marked = DOMAIN states
  /\ queue \in Seq((SUBSET Nodes(d)) \ {{}})
  /\ \A i \in DOMAIN queue : TauClosed(queue[i])
  /\ TauClosed(u)
  /\ \A e \in edges : e.src \in marked /\ e.dst \in marked

(* The doc comment of Normalize: the normal form is deterministic and free *)
(* of tau, and a state of it stands for the source states its name lists.  *)
(* After any trace it is in one state, which lists exactly the states the  *)
(* diagram may be in after the trace; in none when the diagram refuses it. *)
FollowsEveryTrace ==
  pc = "done" =>
    /\ \A e \in edges : e.event # Tau
    /\ \A trace \in Traces(MaxTrace) :
         LET S == After(trace)  N == NormalAfter(trace)
         IN  IF S = {} THEN N = {} ELSE Cardinality(N) = 1 /\ {states[id] : id \in N} = {S}

(* Merged edges keep their predicates: an edge of the normal form taken    *)
(* after a trace offers what each edge the diagram may take there offers,  *)
(* and is guarded only if all of those are.                                *)
KeepsPredicates ==
  pc = "done" =>
    \A trace \in Traces(MaxTrace) : \A n \in edges :
      n.src \in NormalAfter(trace) =>
        LET may == EdgesOn(After(trace), n.event)
        IN  /\ may # {}
            /\ \A e \in may : e.guard \in n.guard \/ n.guard = {PredicateTrue}
            /\ n.guard = {PredicateTrue} <=> \E e \in may : e.guard = PredicateTrue
            /\ n.post = {PredicateTrue} <=> \E e \in may : e.post = PredicateTrue

(* The normalisation ends.                                                 *)
Returns == <>(pc \in {"done", "failed"})

=============================================================================
