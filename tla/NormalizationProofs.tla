------------------------ MODULE NormalizationProofs ------------------------
(***************************************************************************)
(* Normalize, for every set of diagrams: type correctness, and, when the   *)
(* ids of sets cannot be confused, that the result is the tau-closed       *)
(* subset construction.                                                    *)
(***************************************************************************)
EXTENDS Normalization, FiniteSetTheorems, SequenceTheorems, Recursion, TLAPS

(* Before the initial state is recorded; while a dequeued set is explored. *)
Starting  == pc \in {"init", "failed"} \/ (pc = "closure" /\ event = Tau)
Exploring == pc = "events" \/ (pc = "closure" /\ event # Tau)

EventsFrom(S) == {e.event : e \in Visible(S)}

(* The ids of the sets in the worklist.                                    *)
QueueIDs == {normalStateID(queue[i]) : i \in DOMAIN queue}

TypeInv ==
  /\ TypeOK
  /\ d \in Inputs
  /\ u \subseteq Nodes(d)
  /\ Starting => marked = {} /\ edges = {} /\ queue = << >>
  /\ pc = "closure" =>
       /\ closure # {}
       /\ \A e \in d.edges : e.event = Tau /\ e.src \in closure \ frontier => e.dst \in closure
  /\ pc = "closure" /\ event # Tau => event \in EventsFrom(u)
  /\ Exploring => normalStateID(u) \in marked /\ todo \subseteq EventsFrom(u)
  /\ QueueIDs \subseteq marked

-----------------------------------------------------------------------------
LEMMA InputFacts ==
  ASSUME d \in Inputs
  PROVE  /\ Tau \in Nat /\ d.start.dst \in Nodes(d)
         /\ \A e \in d.edges : e.event \in Nat /\ e.src \in Nodes(d) /\ e.dst \in Nodes(d)
  BY InputsAssumption DEF Nodes

LEMMA InitType == ASSUME Init PROVE TypeInv
<1>1. TypeOK
  BY InputsAssumption DEF Init, TypeOK, TauClosed
<1> QED BY <1>1 DEF Init, TypeInv, Starting, Exploring, QueueIDs

(* What a dequeue and an enqueue do to the ids in the worklist.            *)
LEMMA DequeueIDs ==
  ASSUME NEW S, queue \in Seq(S), queue # << >>, queue' = Tail(queue)
  PROVE  /\ queue' \in Seq(S) /\ Head(queue) \in S
         /\ normalStateID(Head(queue)) \in QueueIDs
         /\ QueueIDs' \subseteq QueueIDs
         /\ \A i \in DOMAIN queue' : i + 1 \in DOMAIN queue /\ queue'[i] = queue[i + 1]
         /\ Head(queue) = queue[1] /\ 1 \in DOMAIN queue
         /\ QueueIDs = QueueIDs' \cup {normalStateID(Head(queue))}
<1>1. /\ queue' \in Seq(S) /\ Head(queue) \in S /\ Head(queue) = queue[1]
      /\ Len(queue) \in Nat /\ Len(queue) > 0 /\ Len(queue') = Len(queue) - 1
      /\ DOMAIN queue = 1 .. Len(queue) /\ DOMAIN queue' = 1 .. Len(queue) - 1
      /\ \A i \in 1 .. Len(queue) - 1 : queue'[i] = queue[i + 1]
  OBVIOUS
<1>2. /\ \A i \in DOMAIN queue' : i + 1 \in DOMAIN queue /\ queue'[i] = queue[i + 1]
      /\ 1 \in DOMAIN queue
      /\ \A i \in DOMAIN queue : i # 1 => i - 1 \in DOMAIN queue' /\ queue'[i - 1] = queue[i]
  BY <1>1
<1>3. normalStateID(Head(queue)) \in QueueIDs /\ QueueIDs' \subseteq QueueIDs
  BY <1>1, <1>2 DEF QueueIDs
<1>4. QueueIDs \subseteq QueueIDs' \cup {normalStateID(Head(queue))}
  <2>1. SUFFICES ASSUME NEW i \in DOMAIN queue, i # 1
                 PROVE  normalStateID(queue[i]) \in QueueIDs'
    BY <1>1 DEF QueueIDs
  <2>2. i - 1 \in DOMAIN queue' /\ queue'[i - 1] = queue[i]
    BY <1>2, <2>1
  <2> QED BY ONLY <2>2 DEF QueueIDs
<1> QED BY <1>1, <1>2, <1>3, <1>4

LEMMA EnqueueIDs ==
  ASSUME NEW S, queue \in Seq(S), NEW x \in S, queue' = Append(queue, x)
  PROVE  /\ queue' \in Seq(S)
         /\ QueueIDs' = QueueIDs \cup {normalStateID(x)}
         /\ DOMAIN queue' = DOMAIN queue \cup {Len(queue) + 1} /\ Len(queue) + 1 \notin DOMAIN queue
         /\ queue'[Len(queue) + 1] = x
         /\ \A i \in DOMAIN queue : queue'[i] = queue[i]
<1>1. /\ queue' \in Seq(S)
      /\ DOMAIN queue' = DOMAIN queue \cup {Len(queue) + 1} /\ Len(queue) + 1 \notin DOMAIN queue
      /\ queue'[Len(queue) + 1] = x
      /\ \A i \in DOMAIN queue : queue'[i] = queue[i]
  OBVIOUS
<1> QED BY <1>1 DEF QueueIDs

LEMMA StartType == ASSUME TypeInv, RejectEndEdge \/ CloseStart PROVE TypeInv'
<1>1. CASE RejectEndEdge
  BY <1>1 DEF RejectEndEdge, TypeInv, TypeOK, Starting, Exploring, QueueIDs, TauClosed, result
<1>2. CASE CloseStart
  BY <1>2, InputFacts
  DEF CloseStart, CallTauClosure, TypeInv, TypeOK, Starting, Exploring, QueueIDs, TauClosed, result
<1> QED BY <1>1, <1>2

LEMMA CloseStepType == ASSUME TypeInv, CloseStep PROVE TypeInv'
<1>1. PICK s \in frontier :
        LET new == {e.dst : e \in {x \in Outgoing(d, s) : x.event = Tau}} \ closure
        IN  closure' = closure \cup new /\ frontier' = (frontier \ {s}) \cup new
  BY DEF CloseStep
<1>2. /\ pc = "closure" /\ UNCHANGED <<d, pc, u, todo, event, result, marked, queue>>
  BY DEF CloseStep
<1>3. closure' \subseteq Nodes(d) /\ frontier' \subseteq closure' /\ closure \subseteq closure'
  BY <1>1, InputFacts DEF TypeInv, TypeOK, Outgoing
<1>4. \A e \in d.edges : e.event = Tau /\ e.src \in closure' \ frontier' => e.dst \in closure'
  BY <1>1, <1>2 DEF TypeInv, Outgoing
<1>5. EventsFrom(u)' = EventsFrom(u) /\ QueueIDs' = QueueIDs
  BY <1>2 DEF EventsFrom, Visible, QueueIDs, result
<1>6. TypeOK'
  BY <1>2, <1>3 DEF TypeInv, TypeOK, TauClosed, result
<1>7. Starting' = Starting /\ Exploring' = Exploring /\ closure' # {}
  BY <1>2, <1>3 DEF Starting, Exploring, TypeInv
<1>8. UNCHANGED <<d, pc, u, todo, event, marked, queue, edges>>
  BY <1>2 DEF result
<1>9. /\ d \in Inputs /\ u \subseteq Nodes(d) /\ QueueIDs \subseteq marked
      /\ Starting => marked = {} /\ edges = {} /\ queue = << >>
      /\ pc = "closure" /\ event # Tau => event \in EventsFrom(u)
      /\ Exploring => normalStateID(u) \in marked /\ todo \subseteq EventsFrom(u)
  BY DEF TypeInv
<1>10. (/\ d \in Inputs /\ u \subseteq Nodes(d) /\ QueueIDs \subseteq marked
        /\ Starting => marked = {} /\ edges = {} /\ queue = << >>
        /\ pc = "closure" /\ event # Tau => event \in EventsFrom(u)
        /\ Exploring => normalStateID(u) \in marked /\ todo \subseteq EventsFrom(u))'
  BY <1>5, <1>7, <1>8, <1>9
<1>11. (closure # {} /\ \A e \in d.edges : e.event = Tau /\ e.src \in closure \ frontier => e.dst \in closure)'
  BY <1>4, <1>7, <1>8
<1> QED
  BY <1>6, <1>10, <1>11 DEF TypeInv

LEMMA ClosureClosed ==
  ASSUME TypeInv, pc = "closure", frontier = {}
  PROVE  TauClosed(closure) /\ closure \in (SUBSET Nodes(d)) \ {{}}
  BY DEF TypeInv, TypeOK, TauClosed

LEMMA RecordStartType == ASSUME TypeInv, RecordStart PROVE TypeInv'
<1>1. DOMAIN states' = {normalStateID(closure)} /\ marked' = {normalStateID(closure)}
  BY DEF RecordStart, Add, TypeInv, TypeOK, Starting
<1>2. queue' = << closure >> /\ pc' = "dequeue" /\ edges = {}
      /\ UNCHANGED <<d, closure, frontier, u, todo, event, edges>>
  BY DEF RecordStart, TypeInv, Starting
<1>3. queue' \in Seq((SUBSET Nodes(d)) \ {{}}) /\ DOMAIN queue' = {1} /\ queue'[1] = closure
      /\ TauClosed(closure)
  BY <1>2, ClosureClosed DEF RecordStart
<1>4. QueueIDs' = {normalStateID(closure)}
  BY <1>3 DEF QueueIDs
<1> QED
  BY <1>1, <1>2, <1>3, <1>4
  DEF TypeInv, TypeOK, Starting, Exploring, TauClosed

LEMMA DequeueType == ASSUME TypeInv, Dequeue PROVE TypeInv'
<1>1. /\ queue' \in Seq((SUBSET Nodes(d)) \ {{}}) /\ u' \in SUBSET Nodes(d) /\ TauClosed(u')
      /\ \A i \in DOMAIN queue' : TauClosed(queue'[i])
      /\ normalStateID(u') \in marked /\ QueueIDs' \subseteq marked
  BY DequeueIDs DEF Dequeue, TypeInv, TypeOK
<1>2. todo' = EventsFrom(u)' /\ todo' \subseteq Nat \ {Tau}
  BY InputFacts DEF Dequeue, EventsFrom, Visible, TypeInv
<1> QED
  BY <1>1, <1>2 DEF Dequeue, TypeInv, TypeOK, Starting, Exploring, TauClosed, result

LEMMA CloseTargetsType == ASSUME TypeInv, CloseTargets PROVE TypeInv'
<1>1. PICK ev \in todo : /\ todo' = todo \ {ev}
                         /\ CallTauClosure({e.dst : e \in EdgesOn(u, ev)}, ev)
  BY DEF CloseTargets
<1>2. /\ pc = "events" /\ UNCHANGED <<d, u, result, marked, queue>>
      /\ ev \in EventsFrom(u) /\ ev \in Nat \ {Tau} /\ Exploring
  BY DEF CloseTargets, TypeInv, TypeOK, Exploring
<1>3. closure' # {} /\ closure' \subseteq Nodes(d) /\ frontier' = closure' /\ event' = ev
      /\ pc' = "closure"
  BY <1>1, <1>2, InputFacts DEF CallTauClosure, EdgesOn, EventsFrom, TypeInv, Visible
<1>4. EventsFrom(u)' = EventsFrom(u) /\ QueueIDs' = QueueIDs
  BY <1>2 DEF EventsFrom, Visible, QueueIDs
<1> QED
  BY <1>1, <1>2, <1>3, <1>4 DEF TypeInv, TypeOK, Starting, Exploring, TauClosed, result

LEMMA RecordEdgeType == ASSUME TypeInv, RecordEdge PROVE TypeInv'
<1>1. /\ DOMAIN states' = marked \cup {normalStateID(closure)} /\ marked' = DOMAIN states'
  BY DEF RecordEdge, Add, Enqueue, TypeInv, TypeOK
<1>2. /\ TauClosed(closure) /\ closure \in (SUBSET Nodes(d)) \ {{}}
      /\ normalStateID(u) \in marked
      /\ UNCHANGED <<d, closure, frontier, u, todo, event, start>> /\ pc' = "events"
  BY ClosureClosed DEF RecordEdge, TypeInv, Exploring
<1>3. /\ queue' \in Seq((SUBSET Nodes(d)) \ {{}}) /\ QueueIDs' \subseteq marked'
      /\ \A i \in DOMAIN queue' : TauClosed(queue'[i])
  <2>1. CASE normalStateID(closure) \in marked
    BY <1>1, <2>1 DEF RecordEdge, Enqueue, TypeInv, TypeOK, QueueIDs
  <2>2. CASE normalStateID(closure) \notin marked
    <3>1. queue' = Append(queue, closure)
      BY <2>2 DEF RecordEdge, Enqueue
    <3> DEFINE Sets == (SUBSET Nodes(d)) \ {{}}
    <3>2. queue \in Seq(Sets) /\ closure \in Sets
      BY <1>2 DEF TypeInv, TypeOK
    <3> HIDE DEF Sets
    <3>3. /\ queue' \in Seq(Sets) /\ QueueIDs' = QueueIDs \cup {normalStateID(closure)}
          /\ \A i \in DOMAIN queue' : queue'[i] = closure \/ (i \in DOMAIN queue /\ queue'[i] = queue[i])
      BY <3>1, <3>2, EnqueueIDs
    <3>4. QueueIDs' \subseteq marked'
      BY <1>1, <3>3 DEF TypeInv
    <3>5. \A i \in DOMAIN queue' : TauClosed(queue'[i])
      BY <1>2, <3>3 DEF TypeInv, TypeOK
    <3> QED BY <3>3, <3>4, <3>5 DEF Sets
  <2> QED BY <2>1, <2>2
<1>4. \A e \in edges' : e.src \in marked' /\ e.dst \in marked'
  BY <1>1, <1>2 DEF RecordEdge, TypeInv, TypeOK
<1>5. EventsFrom(u)' = EventsFrom(u) /\ todo \subseteq EventsFrom(u)
  BY <1>2 DEF EventsFrom, Visible, RecordEdge, TypeInv, Exploring
<1> QED
  BY <1>1, <1>2, <1>3, <1>4, <1>5 DEF TypeInv, TypeOK, Starting, Exploring, TauClosed

LEMMA EndType == ASSUME TypeInv, EndIteration \/ Return \/ UNCHANGED vars PROVE TypeInv'
<1>1. QueueIDs' = QueueIDs /\ EventsFrom(u)' = EventsFrom(u)
  BY DEF EndIteration, Return, vars, QueueIDs, EventsFrom, Visible
<1> QED
  BY <1>1 DEF EndIteration, Return, vars, result, TypeInv, TypeOK, Starting, Exploring, TauClosed

LEMMA StepType == ASSUME TypeInv, [Next]_vars PROVE TypeInv'
  BY StartType, CloseStepType, RecordStartType, DequeueType, CloseTargetsType,
     RecordEdgeType, EndType
  DEF Next

LEMMA TypeInvariance == Spec => []TypeInv
  BY InitType, StepType, PTL DEF Spec

(* Every variable stays in its domain, and what is queued or explored is   *)
(* non-empty and closed under tau, whatever ids the sets have (Normalize). *)
THEOREM TypeCorrect == Spec => []TypeOK
<1>1. TypeInv => TypeOK
  BY DEF TypeInv
<1> QED BY <1>1, TypeInvariance, PTL

-----------------------------------------------------------------------------
(* From here on, no two sets of states of an input have the same id: then  *)
(* the worklist, which goes by ids, never takes one set for another.       *)
Sets == (SUBSET Nodes(d)) \ {{}}

Targets(S, ev) == {e.dst : e \in EdgesOn(S, ev)}

(* The set TauClosure was called with.                                     *)
Base == IF event = Tau THEN {d.start.dst} ELSE Targets(u, event)

ClosureInv ==
  pc = "closure" =>
    /\ Base \subseteq closure
    /\ \A T \in SUBSET Nodes(d) : Base \subseteq T /\ TauClosed(T) => closure \subseteq T

(* Ids name the sets they are made of, and a set is queued once.           *)
NamesInv ==
  /\ \A id \in marked : states[id] \in Sets /\ normalStateID(states[id]) = id
  /\ \A i, j \in DOMAIN queue : normalStateID(queue[i]) = normalStateID(queue[j]) => i = j
  /\ Exploring => u # {} /\ normalStateID(u) \notin QueueIDs
  /\ pc = "closure" => event \notin todo
  /\ pc = "done" => queue = << >>

StartInv ==
  Starting \/ (start.dst \in marked /\ states[start.dst] = TauReach({d.start.dst}))

(* The edges of the normal form for an id and an event, once they are      *)
(* recorded and before.                                                    *)
EdgesFrom(id, ev) == {e \in edges : e.src = id /\ e.event = ev}

NormalEdge(id, ev, dst) ==
  [src |-> id, event |-> ev, dst |-> dst,
   guard |-> Merged(states[id], ev).guard, post |-> Merged(states[id], ev).post]

Recorded(id, ev) ==
  IF EdgesOn(states[id], ev) = {} THEN EdgesFrom(id, ev) = {}
  ELSE \E dst \in marked : /\ states[dst] = TauReach(Targets(states[id], ev))
                           /\ EdgesFrom(id, ev) = {NormalEdge(id, ev, dst)}

Pending(ev) == ev \in todo \/ (pc = "closure" /\ ev = event)

Handled(id, ev) ==
  id \notin QueueIDs /\ ~ (Exploring /\ id = normalStateID(u) /\ Pending(ev))

EdgesInv ==
  /\ \A e \in edges : e.event \in Nat \ {Tau}
  /\ \A id \in marked, ev \in Nat \ {Tau} :
       IF Handled(id, ev) THEN Recorded(id, ev) ELSE EdgesFrom(id, ev) = {}

ConstructionInv == TypeInv /\ ClosureInv /\ NamesInv /\ StartInv /\ EdgesInv

-----------------------------------------------------------------------------
LEMMA NamesAgree ==
  ASSUME UnambiguousInputs, TypeInv, NamesInv, NEW S \in Sets, normalStateID(S) \in marked
  PROVE  states[normalStateID(S)] = S
  BY DEF UnambiguousInputs, TypeInv, NamesInv, Sets

(* When the queue of TauClosure is empty, its result is the closure.       *)
LEMMA ClosureIsReach ==
  ASSUME TypeInv, ClosureInv, pc = "closure", frontier = {}
  PROVE  closure = TauReach(Base) /\ closure \in Sets
<1>1. TauClosed(closure) /\ closure \in (SUBSET Nodes(d)) \ {{}}
  BY ClosureClosed
<1> QED BY <1>1 DEF ClosureInv, TauReach, Sets

LEMMA InitConstruction == ASSUME Init PROVE ConstructionInv
<1>1. pc = "init" /\ marked = {} /\ edges = {} /\ queue = << >>
  BY DEF Init
<1> QED
  BY <1>1, InitType
  DEF ConstructionInv, ClosureInv, NamesInv, StartInv, EdgesInv, Starting, Exploring

(* Before the initial state is recorded there is nothing to know but what  *)
(* the closure is.                                                         *)
LEMMA StartingConstruction ==
  ASSUME TypeInv', ClosureInv', Starting'
  PROVE  ConstructionInv'
<1>1. marked' = {} /\ edges' = {} /\ queue' = << >> /\ ~ Exploring'
  BY InputsAssumption DEF TypeInv, Starting, Exploring
<1>2. pc' = "closure" => event' \notin todo'
  BY InputsAssumption DEF TypeInv, TypeOK, Starting
<1> QED BY <1>1, <1>2 DEF ConstructionInv, NamesInv, StartInv, EdgesInv

(* What a step that leaves the normal form and the worklist alone keeps.   *)
LEMMA SameResult ==
  ASSUME UNCHANGED <<d, u, states, start, edges, marked, queue>>
  PROVE  /\ QueueIDs' = QueueIDs /\ Sets' = Sets
         /\ \A id, ev : Recorded(id, ev)' = Recorded(id, ev) /\ EdgesFrom(id, ev)' = EdgesFrom(id, ev)
         /\ \A S : TauReach(S)' = TauReach(S) /\ TauClosed(S)' = TauClosed(S)
         /\ \A S, ev : Targets(S, ev)' = Targets(S, ev)
  BY DEF QueueIDs, Sets, Recorded, EdgesFrom, NormalEdge, Merged, EdgesOn, Visible, Targets,
         TauReach, TauClosed

LEMMA RejectConstruction == ASSUME ConstructionInv, RejectEndEdge PROVE ConstructionInv'
<1>1. TypeInv'
  BY StartType DEF ConstructionInv
<1>2. pc' = "failed"
  BY DEF RejectEndEdge
<1> QED BY <1>1, <1>2, StartingConstruction DEF ClosureInv, Starting

LEMMA CloseStartConstruction == ASSUME ConstructionInv, CloseStart PROVE ConstructionInv'
<1>1. TypeInv'
  BY StartType DEF ConstructionInv
<1>2. pc' = "closure" /\ event' = Tau /\ closure' = {d.start.dst} /\ d' = d
  BY DEF CloseStart, CallTauClosure
<1>3. Base' = closure'
  BY <1>2 DEF Base
<1> QED BY <1>1, <1>2, <1>3, StartingConstruction DEF ClosureInv, Starting

(* An iteration of TauClosure stays inside every closed superset.          *)
LEMMA CloseStepClosure == ASSUME TypeInv, ClosureInv, CloseStep PROVE ClosureInv'
<1>1. PICK s \in frontier :
        LET new == {e.dst : e \in {x \in Outgoing(d, s) : x.event = Tau}} \ closure
        IN  closure' = closure \cup new /\ frontier' = (frontier \ {s}) \cup new
  BY DEF CloseStep
<1>2. pc = "closure" /\ UNCHANGED <<d, pc, u, todo, event>>
  BY DEF CloseStep
<1>3. Base' = Base
  BY <1>2 DEF Base, Targets, EdgesOn, Visible
<1>4. ASSUME NEW T \in SUBSET Nodes(d), Base \subseteq T, TauClosed(T)
      PROVE  closure' \subseteq T
  <2>1. closure \subseteq T /\ s \in T
    BY <1>2, <1>4 DEF ClosureInv, TypeInv, TypeOK
  <2> QED BY <1>1, <1>4, <2>1 DEF Outgoing, TauClosed
<1>5. Base \subseteq closure'
  BY <1>1, <1>2 DEF ClosureInv
<1>6. \A T : TauClosed(T)' = TauClosed(T)
  BY <1>2 DEF TauClosed
<1> QED BY <1>2, <1>3, <1>4, <1>5, <1>6 DEF ClosureInv

LEMMA CloseStepConstruction == ASSUME ConstructionInv, CloseStep PROVE ConstructionInv'
<1>1. TypeInv' /\ ClosureInv'
  BY CloseStepType, CloseStepClosure DEF ConstructionInv
<1>2. UNCHANGED <<d, pc, u, todo, event, states, start, edges, marked, queue>>
  BY DEF CloseStep, result
<1>3. /\ Starting' = Starting /\ Exploring' = Exploring
      /\ \A id, ev : Handled(id, ev)' = Handled(id, ev)
  BY <1>2, SameResult DEF Starting, Exploring, Handled, Pending
<1>4. NamesInv' /\ StartInv'
  BY <1>2, <1>3, SameResult DEF ConstructionInv, NamesInv, StartInv
<1>5. EdgesInv'
  BY <1>2, <1>3, SameResult DEF ConstructionInv, EdgesInv
<1> QED BY <1>1, <1>4, <1>5 DEF ConstructionInv

LEMMA RecordStartConstruction == ASSUME ConstructionInv, RecordStart PROVE ConstructionInv'
<1> DEFINE id == normalStateID(closure)
<1>1. /\ pc = "closure" /\ event = Tau /\ marked = {} /\ edges = {} /\ Starting
      /\ closure = TauReach({d.start.dst}) /\ closure \in Sets
  BY ClosureIsReach DEF RecordStart, ConstructionInv, TypeInv, Starting, Base
<1>2. /\ marked' = {id} /\ states'[id] = closure /\ queue' = <<closure>> /\ start'.dst = id
      /\ edges' = {} /\ pc' = "dequeue" /\ UNCHANGED <<d, closure, frontier, u, todo, event>>
  BY <1>1 DEF RecordStart, Add, ConstructionInv, TypeInv, TypeOK
<1>3. TypeInv' /\ ClosureInv' /\ ~ Exploring'
  BY <1>2, RecordStartType DEF ConstructionInv, ClosureInv, Exploring
<1>4. DOMAIN queue' = {1} /\ QueueIDs' = {id}
  BY <1>2 DEF QueueIDs
<1>5. \A S : TauReach(S)' = TauReach(S)
  BY <1>2 DEF TauReach, TauClosed
<1>6. NamesInv'
  BY <1>1, <1>2, <1>3, <1>4 DEF NamesInv, Sets
<1>7. StartInv'
  <2>1. (start.dst \in marked)' /\ states'[start'.dst] = TauReach({d.start.dst})
    BY <1>1, <1>2
  <2>2. TauReach({d.start.dst})' = TauReach({d.start.dst})
    BY <1>2, <1>5
  <2> QED BY <2>1, <2>2 DEF StartInv
<1>8. EdgesInv'
  BY <1>2, <1>4 DEF EdgesInv, EdgesFrom, Handled
<1> QED BY <1>3, <1>6, <1>7, <1>8 DEF ConstructionInv

(* Every edge to record for the set dequeued is still to be recorded.      *)
LEMMA DequeueConstruction ==
  ASSUME UnambiguousInputs, ConstructionInv, Dequeue
  PROVE  ConstructionInv'
<1> DEFINE S == Head(queue)  id == normalStateID(S)
<1>1. /\ pc = "dequeue" /\ pc' = "events" /\ queue # << >> /\ queue' = Tail(queue)
      /\ u' = S /\ todo' = EventsFrom(S) /\ ~ Exploring /\ Exploring' /\ ~ Starting
      /\ UNCHANGED <<d, closure, frontier, event, states, start, edges, marked>>
  BY DEF Dequeue, EventsFrom, Exploring, Starting, result
<1>2. queue \in Seq(Sets)
  BY DEF ConstructionInv, TypeInv, TypeOK, Sets
<1>3. /\ S \in Sets /\ id \in QueueIDs /\ QueueIDs = QueueIDs' \cup {id}
      /\ \A i \in DOMAIN queue' : i + 1 \in DOMAIN queue /\ queue'[i] = queue[i + 1]
      /\ S = queue[1] /\ 1 \in DOMAIN queue /\ DOMAIN queue' \subseteq Nat \ {0}
  BY <1>1, <1>2, DequeueIDs
<1>4. id \notin QueueIDs'
  <2>1. ASSUME NEW i \in DOMAIN queue', normalStateID(queue'[i]) = id PROVE FALSE
    <3>1. i + 1 = 1
      BY <1>3, <2>1 DEF ConstructionInv, NamesInv
    <3> QED BY <1>3, <3>1
  <2> QED BY <2>1 DEF QueueIDs
<1>5. states[id] = S /\ id \in marked
  BY <1>3, NamesAgree DEF ConstructionInv, TypeInv
<1>6. TypeInv' /\ ClosureInv'
  BY <1>1, DequeueType DEF ConstructionInv, ClosureInv
<1>7. NamesInv'
  <2>1. (\A i, j \in DOMAIN queue : normalStateID(queue[i]) = normalStateID(queue[j]) => i = j)'
    BY <1>3 DEF ConstructionInv, NamesInv
  <2>2. Sets' = Sets /\ u' # {} /\ normalStateID(u)' = id
    BY <1>1, <1>3 DEF Sets
  <2> QED BY <1>1, <1>4, <2>1, <2>2 DEF ConstructionInv, NamesInv
<1>8. StartInv'
  BY <1>1 DEF ConstructionInv, StartInv, Starting, TauReach, TauClosed
<1>9. EdgesInv'
  <2>1. SUFFICES ASSUME NEW i \in marked, NEW ev \in Nat \ {Tau}
                 PROVE  (IF Handled(i, ev) THEN Recorded(i, ev) ELSE EdgesFrom(i, ev) = {})'
    BY <1>1 DEF ConstructionInv, EdgesInv
  <2>2. /\ Recorded(i, ev)' = Recorded(i, ev) /\ EdgesFrom(i, ev)' = EdgesFrom(i, ev)
    BY <1>1 DEF Recorded, EdgesFrom, NormalEdge, Merged, EdgesOn, Visible, Targets, TauReach, TauClosed
  <2>3. CASE i # id
    <3>1. Handled(i, ev)' = Handled(i, ev)
      BY <1>1, <1>3, <2>3 DEF Handled
    <3> QED BY <2>2, <3>1 DEF ConstructionInv, EdgesInv
  <2>4. CASE i = id
    <3>1. EdgesFrom(i, ev) = {}
      BY <1>3, <2>4 DEF ConstructionInv, EdgesInv, Handled
    <3>2. Handled(i, ev)' => EdgesOn(states[i], ev) = {}
      BY <1>1, <1>4, <1>5, <2>4 DEF Handled, Pending, EventsFrom, EdgesOn
    <3> QED BY <2>2, <3>1, <3>2 DEF Recorded
  <2> QED BY <2>3, <2>4
<1> QED BY <1>6, <1>7, <1>8, <1>9 DEF ConstructionInv

LEMMA CloseTargetsConstruction == ASSUME ConstructionInv, CloseTargets PROVE ConstructionInv'
<1>1. PICK ev \in todo : todo' = todo \ {ev} /\ CallTauClosure(Targets(u, ev), ev)
  BY DEF CloseTargets, Targets
<1>2. /\ pc = "events" /\ pc' = "closure" /\ event' = ev /\ closure' = Targets(u, ev) /\ ev # Tau
      /\ UNCHANGED <<d, u, states, start, edges, marked, queue>>
  BY <1>1 DEF CloseTargets, CallTauClosure, ConstructionInv, TypeInv, TypeOK, result
<1>3. TypeInv'
  BY CloseTargetsType DEF ConstructionInv
<1>4. ClosureInv'
  <2>1. Targets(u, event)' = Targets(u, ev)
    BY <1>2 DEF Targets, EdgesOn, Visible
  <2>2. Base' = Targets(u, event)'
    BY <1>2 DEF Base
  <2>3. Base' = closure'
    BY <1>2, <2>1, <2>2
  <2> QED BY <2>3 DEF ClosureInv
<1>5. /\ Exploring /\ Exploring' /\ ~ Starting /\ ~ Starting'
      /\ \A id, x : Handled(id, x)' = Handled(id, x)
  BY <1>1, <1>2, SameResult DEF Exploring, Starting, Handled, Pending
<1>6. NamesInv' /\ StartInv'
  BY <1>1, <1>2, <1>5, SameResult DEF ConstructionInv, NamesInv, StartInv
<1>7. EdgesInv'
  BY <1>2, <1>5, SameResult DEF ConstructionInv, EdgesInv
<1> QED BY <1>3, <1>4, <1>6, <1>7 DEF ConstructionInv

LEMMA EndConstruction ==
  ASSUME ConstructionInv, EndIteration \/ Return \/ UNCHANGED vars
  PROVE  ConstructionInv'
<1>1. /\ UNCHANGED <<d, u, todo, event, states, start, edges, marked, queue>>
      /\ \/ UNCHANGED <<pc, closure, frontier>>
         \/ pc = "events" /\ pc' = "dequeue" /\ todo = {}
         \/ pc = "dequeue" /\ pc' = "done" /\ queue = << >>
  BY DEF EndIteration, Return, vars, result
<1>2. TypeInv'
  BY EndType DEF ConstructionInv
<1>3. ClosureInv'
  <2>1. Base' = Base /\ Nodes(d)' = Nodes(d)
    BY <1>1 DEF Base, Targets, EdgesOn, Visible
  <2> QED BY <1>1, <2>1, SameResult DEF ConstructionInv, ClosureInv
<1>4. /\ Starting' = Starting /\ (Exploring' => Exploring)
      /\ \A id, ev : Handled(id, ev)' = Handled(id, ev)
  BY <1>1, SameResult DEF Exploring, Starting, Handled, Pending
<1>5. NamesInv' /\ StartInv'
  BY <1>1, <1>4, SameResult DEF ConstructionInv, NamesInv, StartInv
<1>6. EdgesInv'
  BY <1>1, <1>4, SameResult DEF ConstructionInv, EdgesInv
<1> QED BY <1>2, <1>3, <1>5, <1>6 DEF ConstructionInv

(* The closed targets get the state that stands for them, and one edge.    *)
LEMMA RecordEdgeConstruction ==
  ASSUME UnambiguousInputs, ConstructionInv, RecordEdge
  PROVE  ConstructionInv'
<1> DEFINE id == normalStateID(closure)  iu == normalStateID(u)
           new == NormalEdge(iu, event, id)
<1>1. /\ pc = "closure" /\ pc' = "events" /\ frontier = {} /\ event \in Nat \ {Tau}
      /\ Exploring /\ Exploring' /\ ~ Starting
      /\ UNCHANGED <<d, closure, frontier, u, todo, event, start>>
  BY DEF RecordEdge, Exploring, Starting, ConstructionInv, TypeInv, TypeOK
<1>2. /\ closure = TauReach(Targets(u, event)) /\ closure \in Sets
      /\ u \in Sets /\ iu \in marked /\ states[iu] = u
      /\ EdgesOn(u, event) # {} /\ event \notin todo /\ iu \notin QueueIDs
  <2>1. closure = TauReach(Targets(u, event)) /\ closure \in Sets
    BY <1>1, ClosureIsReach DEF ConstructionInv, Base
  <2>2. u \in Sets /\ iu \in marked /\ event \notin todo /\ iu \notin QueueIDs
        /\ event \in EventsFrom(u)
    BY <1>1 DEF ConstructionInv, TypeInv, NamesInv, Sets
  <2>3. EdgesOn(u, event) # {}
    BY <2>2 DEF EventsFrom, EdgesOn
  <2>4. states[iu] = u
    BY <2>2, NamesAgree DEF ConstructionInv
  <2> QED BY <2>1, <2>2, <2>3, <2>4
<1>3. /\ marked' = marked \cup {id} /\ states'[id] = closure
      /\ \A x \in marked : states'[x] = states[x]
  <2>1. /\ marked = DOMAIN states /\ states' = Add(closure)
        /\ marked' = marked \cup {id}
    BY DEF RecordEdge, Enqueue, ConstructionInv, TypeInv, TypeOK
  <2>2. id \in marked => states[id] = closure
    BY <1>2, NamesAgree DEF ConstructionInv
  <2> QED BY <2>1, <2>2 DEF Add
<1>4. edges' = edges \cup {new}
  BY <1>2 DEF RecordEdge, NormalEdge
<1>5. /\ id \in marked => queue' = queue
      /\ id \notin marked => queue' = Append(queue, closure)
  BY DEF RecordEdge, Enqueue
<1>6. QueueIDs' = QueueIDs \cup (IF id \in marked THEN {} ELSE {id})
  <2>1. CASE id \in marked
    BY <1>5, <2>1 DEF QueueIDs
  <2>2. CASE id \notin marked
    <3>1. queue \in Seq(Sets)
      BY DEF ConstructionInv, TypeInv, TypeOK, Sets
    <3> QED BY <1>2, <1>5, <2>2, <3>1, EnqueueIDs
  <2> QED BY <2>1, <2>2
<1>7. TypeInv' /\ ClosureInv'
  BY <1>1, RecordEdgeType DEF ConstructionInv, ClosureInv
<1>8. NamesInv'
  <2>1. (\A x \in marked : states[x] \in Sets /\ normalStateID(states[x]) = x)'
    BY <1>1, <1>2, <1>3 DEF ConstructionInv, NamesInv, Sets
  <2>2. (\A i, j \in DOMAIN queue : normalStateID(queue[i]) = normalStateID(queue[j]) => i = j)'
    <3>1. CASE id \in marked
      BY <1>5, <3>1 DEF ConstructionInv, NamesInv
    <3>2. CASE id \notin marked
      <4>1. queue \in Seq(Sets) /\ queue' = Append(queue, closure)
        BY <1>5, <3>2 DEF ConstructionInv, TypeInv, TypeOK, Sets
      <4>2. /\ DOMAIN queue' = DOMAIN queue \cup {Len(queue) + 1} /\ queue'[Len(queue) + 1] = closure
            /\ \A i \in DOMAIN queue : queue'[i] = queue[i]
        BY <1>2, <4>1, EnqueueIDs
      <4>3. \A i \in DOMAIN queue : normalStateID(queue[i]) # id
        BY <3>2 DEF ConstructionInv, TypeInv, QueueIDs
      <4> QED BY <4>2, <4>3 DEF ConstructionInv, NamesInv
    <3> QED BY <3>1, <3>2
  <2>3. iu \notin QueueIDs' /\ u' # {} /\ u' = u
    BY <1>1, <1>2, <1>6 DEF Sets
  <2> QED BY <1>1, <2>1, <2>2, <2>3 DEF NamesInv
<1>9. StartInv'
  <2>1. \A S : TauReach(S)' = TauReach(S)
    BY <1>1 DEF TauReach, TauClosed
  <2> QED BY <1>1, <1>3, <2>1 DEF ConstructionInv, StartInv
<1>10. EdgesInv'
  <2>1. \A e \in edges' : e.event \in Nat \ {Tau}
    BY <1>1, <1>4 DEF ConstructionInv, EdgesInv, NormalEdge
  <2>2. ASSUME NEW x \in marked', NEW ev \in Nat \ {Tau}
        PROVE  (IF Handled(x, ev) THEN Recorded(x, ev) ELSE EdgesFrom(x, ev) = {})'
    <3>1. CASE x = iu /\ ev = event
      <4>1. EdgesFrom(x, ev) = {}
        BY <1>1, <1>2, <3>1 DEF ConstructionInv, EdgesInv, Handled, Pending
      <4>2. new.src = x /\ new.event = ev
        BY <3>1 DEF NormalEdge
      <4>3. EdgesFrom(x, ev)' = {new}
        BY <1>4, <4>1, <4>2 DEF EdgesFrom
      <4>4. /\ states'[x] = u /\ states'[id] = closure /\ id \in marked'
        BY <1>2, <1>3, <3>1
      <4>5. \A dst : dst = id => NormalEdge(x, ev, dst)' = new
        BY <1>1, <1>2, <3>1, <4>4 DEF NormalEdge, Merged, EdgesOn, Visible
      <4>6. EdgesOn(states[x], ev)' # {} /\ TauReach(Targets(states[x], ev))' = closure
        <5>1. EdgesOn(states[x], ev)' = EdgesOn(u, event)
          BY <1>1, <3>1, <4>4 DEF EdgesOn, Visible
        <5>2. Targets(states[x], ev)' = {e.dst : e \in EdgesOn(states[x], ev)'}
          BY DEF Targets
        <5>3. Targets(states[x], ev)' = Targets(u, event)
          BY ONLY <5>1, <5>2 DEF Targets
        <5>4. TauReach(Targets(states[x], ev))' = TauReach(Targets(u, event))
          BY <1>1, <5>3 DEF TauReach, TauClosed
        <5> QED BY <1>2, <5>1, <5>4
      <4>7. Recorded(x, ev)'
        BY <4>3, <4>4, <4>5, <4>6 DEF Recorded
      <4>8. Handled(x, ev)'
        BY <1>1, <1>2, <1>6, <3>1 DEF Handled, Pending
      <4> QED BY <4>7, <4>8
    <3>2. CASE x \notin marked
      <4>1. x = id /\ x # iu /\ x \in QueueIDs'
        BY <1>2, <1>3, <1>6, <2>2, <3>2
      <4>2. EdgesFrom(x, ev)' = {}
        BY <1>4, <3>2, <4>1 DEF EdgesFrom, NormalEdge, ConstructionInv, TypeInv, TypeOK
      <4> QED BY <4>1, <4>2 DEF Handled
    <3>3. CASE x \in marked /\ (x # iu \/ ev # event)
      <4>1. EdgesFrom(x, ev)' = EdgesFrom(x, ev)
        BY <1>4, <3>3 DEF EdgesFrom, NormalEdge
      <4>2. Handled(x, ev)' = Handled(x, ev)
        BY <1>1, <1>6, <3>3 DEF Handled, Pending
      <4>3. states'[x] = states[x]
        BY <1>3, <3>3
      <4>4. /\ EdgesOn(states[x], ev)' = EdgesOn(states[x], ev)
            /\ TauReach(Targets(states[x], ev))' = TauReach(Targets(states[x], ev))
            /\ \A dst : NormalEdge(x, ev, dst)' = NormalEdge(x, ev, dst)
        BY <1>1, <4>3 DEF EdgesOn, Visible, Targets, TauReach, TauClosed, NormalEdge, Merged
      <4>5. Recorded(x, ev) => Recorded(x, ev)'
        BY <1>3, <4>1, <4>4 DEF Recorded
      <4> QED BY <3>3, <4>1, <4>2, <4>5 DEF ConstructionInv, EdgesInv
    <3> QED BY <3>1, <3>2, <3>3
  <2> QED BY <2>1, <2>2 DEF EdgesInv
<1> QED BY <1>7, <1>8, <1>9, <1>10 DEF ConstructionInv

LEMMA StepConstruction ==
  ASSUME UnambiguousInputs, ConstructionInv, [Next]_vars
  PROVE  ConstructionInv'
  BY RejectConstruction, CloseStartConstruction, CloseStepConstruction, RecordStartConstruction,
     DequeueConstruction, CloseTargetsConstruction, RecordEdgeConstruction, EndConstruction
  DEF Next

-----------------------------------------------------------------------------
(* The result is the tau-closed subset construction.  The initial state    *)
(* stands for the closure of the diagram's; the edges from a state on an   *)
(* event are none when no member has one, and otherwise the one to the     *)
(* state that stands for the closure of all their targets, with the        *)
(* disjunction of their guards and of their posts (Normalize).             *)
IsSubsetConstruction ==
  pc = "done" =>
    /\ start.dst \in DOMAIN states /\ states[start.dst] = TauReach({d.start.dst})
    /\ \A e \in edges : e.src \in DOMAIN states /\ e.event # Tau
    /\ \A id \in DOMAIN states, ev \in Nat \ {Tau} :
         LET found == EdgesOn(states[id], ev)
             from  == {e \in edges : e.src = id /\ e.event = ev}
         IN  \/ found = {} /\ from = {}
             \/ /\ found # {}
                /\ \E dst \in DOMAIN states :
                     /\ states[dst] = TauReach({e.dst : e \in found})
                     /\ from = {[src |-> id, event |-> ev, dst |-> dst,
                                 guard |-> DisjunctionAll({e.guard : e \in found}),
                                 post  |-> DisjunctionAll({e.post : e \in found})]}

LEMMA ConstructionAtEnd == ASSUME ConstructionInv PROVE IsSubsetConstruction
<1>1. SUFFICES ASSUME pc = "done" PROVE IsSubsetConstruction
  BY DEF IsSubsetConstruction
<1>2. queue = << >> /\ marked = DOMAIN states /\ ~ Starting /\ ~ Exploring
  BY <1>1 DEF ConstructionInv, NamesInv, TypeInv, TypeOK, Starting, Exploring
<1>3. QueueIDs = {}
  BY <1>2 DEF QueueIDs
<1>4. \A id, ev : Handled(id, ev)
  BY <1>2, <1>3 DEF Handled
<1>5. \A id \in marked, ev \in Nat \ {Tau} : Recorded(id, ev)
  BY <1>4 DEF ConstructionInv, EdgesInv
<1>6. start.dst \in marked /\ states[start.dst] = TauReach({d.start.dst})
  BY <1>2 DEF ConstructionInv, StartInv
<1>7. \A e \in edges : e.src \in marked /\ e.event # Tau
  BY DEF ConstructionInv, EdgesInv, TypeInv, TypeOK
<1>8. ASSUME NEW id \in marked, NEW ev \in Nat \ {Tau}
      PROVE  LET found == EdgesOn(states[id], ev)
             IN  \/ found = {} /\ EdgesFrom(id, ev) = {}
                 \/ /\ found # {}
                    /\ \E dst \in marked :
                         /\ states[dst] = TauReach({e.dst : e \in found})
                         /\ EdgesFrom(id, ev) = {NormalEdge(id, ev, dst)}
  BY <1>5, <1>8 DEF Recorded, Targets
<1>9. /\ \A id, ev : EdgesFrom(id, ev) = {e \in edges : e.src = id /\ e.event = ev}
      /\ \A id, ev, dst : NormalEdge(id, ev, dst) =
           [src |-> id, event |-> ev, dst |-> dst,
            guard |-> DisjunctionAll({e.guard : e \in EdgesOn(states[id], ev)}),
            post  |-> DisjunctionAll({e.post : e \in EdgesOn(states[id], ev)})]
  BY DEF EdgesFrom, NormalEdge, Merged
<1> QED
  BY <1>2, <1>6, <1>7, <1>8, <1>9 DEF IsSubsetConstruction

THEOREM SubsetConstruction == UnambiguousInputs => (Spec => []IsSubsetConstruction)
<1> SUFFICES ASSUME UnambiguousInputs PROVE Spec => []IsSubsetConstruction
  OBVIOUS
<1>1. Init => ConstructionInv
  BY InitConstruction
<1>2. ConstructionInv /\ [Next]_vars => ConstructionInv'
  BY StepConstruction
<1>3. ConstructionInv => IsSubsetConstruction
  BY ConstructionAtEnd
<1> QED BY <1>1, <1>2, <1>3, PTL DEF Spec

-----------------------------------------------------------------------------
(* Both functions that follow a trace go from event to event.              *)
Step(S, ev)       == TauReach(Targets(S, ev))
NormalStep(S, ev) == {e.dst : e \in {x \in edges : x.src \in S /\ x.event = ev}}

Unfolds(h, trace) ==
  /\ h[0] = TauReach({d.start.dst})
  /\ \A n \in 1 .. Len(trace) : h[n] = Step(h[n - 1], trace[n])
  /\ After(trace) = h[Len(trace)]

NormalUnfolds(h, trace) ==
  /\ h[0] = {start.dst}
  /\ \A n \in 1 .. Len(trace) : h[n] = NormalStep(h[n - 1], trace[n])
  /\ NormalAfter(trace) = h[Len(trace)]

LEMMA AfterUnfolds ==
  ASSUME NEW trace, Len(trace) \in Nat
  PROVE  \E h : Unfolds(h, trace)
<1> DEFINE N == Len(trace)
           X == SUBSET Nodes(d)
           S0 == TauReach({d.start.dst})
           G == [n \in 1 .. N |-> [S \in X |-> Step(S, trace[n])]]
           Is(a) == a = [n \in 0 .. N |-> IF n = 0 THEN S0 ELSE Step(a[n - 1], trace[n])]
<1>1. S0 \in X /\ \A S, ev : Step(S, ev) \in X
  BY DEF Step, TauReach
<1>2. G \in [1 .. N -> [X -> X]]
  BY <1>1
<1>3. \A n \in 1 .. N, S \in X : G[n][S] = Step(S, trace[n])
  OBVIOUS
<1>4. After(trace) = (CHOOSE a : Is(a))[N]
  BY DEF After, Step, Targets
<1>5. N \in Nat
  OBVIOUS
<1> HIDE DEF G, X, S0, N
<1>6. PICK f : Iterates(f, N, X, S0, G)
  BY <1>1, <1>2, <1>5, Iteration
<1>7. Is(f)
  <2>1. \A k \in 0 .. N : k # 0 => k \in 1 .. N /\ k - 1 \in 0 .. N
    BY <1>5
  <2> QED BY <1>3, <1>6, <2>1 DEF Iterates
<1> DEFINE h == CHOOSE x : Is(x)
<1>8. Is(h)
  BY <1>7
<1> HIDE DEF h
<1>9. h[0] = S0 /\ \A n \in 1 .. N : h[n] = Step(h[n - 1], trace[n])
  <2>1. 0 \in 0 .. N /\ \A k \in 1 .. N : k \in 0 .. N /\ k # 0
    BY <1>5
  <2> QED BY <1>8, <2>1
<1>10. After(trace) = h[N]
  BY <1>4 DEF h
<1> QED BY <1>9, <1>10 DEF Unfolds, N, S0

LEMMA NormalAfterUnfolds ==
  ASSUME NEW trace, Len(trace) \in Nat
  PROVE  \E h : NormalUnfolds(h, trace)
<1> DEFINE N == Len(trace)
           X == SUBSET ({start.dst} \cup {e.dst : e \in edges})
           S0 == {start.dst}
           G == [n \in 1 .. N |-> [S \in X |-> NormalStep(S, trace[n])]]
           Is(a) == a = [n \in 0 .. N |-> IF n = 0 THEN S0 ELSE NormalStep(a[n - 1], trace[n])]
<1>1. S0 \in X /\ \A S, ev : NormalStep(S, ev) \in X
  BY DEF NormalStep
<1>2. G \in [1 .. N -> [X -> X]]
  BY <1>1
<1>3. \A n \in 1 .. N, S \in X : G[n][S] = NormalStep(S, trace[n])
  OBVIOUS
<1>4. NormalAfter(trace) = (CHOOSE a : Is(a))[N]
  BY DEF NormalAfter, NormalStep
<1>5. N \in Nat
  OBVIOUS
<1> HIDE DEF G, X, S0, N
<1>6. PICK f : Iterates(f, N, X, S0, G)
  BY <1>1, <1>2, <1>5, Iteration
<1>7. Is(f)
  <2>1. \A k \in 0 .. N : k # 0 => k \in 1 .. N /\ k - 1 \in 0 .. N
    BY <1>5
  <2> QED BY <1>3, <1>6, <2>1 DEF Iterates
<1> DEFINE h == CHOOSE x : Is(x)
<1>8. Is(h)
  BY <1>7
<1> HIDE DEF h
<1>9. h[0] = S0 /\ \A n \in 1 .. N : h[n] = NormalStep(h[n - 1], trace[n])
  <2>1. 0 \in 0 .. N /\ \A k \in 1 .. N : k \in 0 .. N /\ k # 0
    BY <1>5
  <2> QED BY <1>8, <2>1
<1>10. NormalAfter(trace) = h[N]
  BY <1>4 DEF h
<1> QED BY <1>9, <1>10 DEF NormalUnfolds, N, S0

(* A state of the normal form stands for a set of states of the diagram.   *)
StandsFor(T, S) == IF S = {} THEN T = {} ELSE \E id \in marked : T = {id} /\ states[id] = S

LEMMA ReachFacts ==
  /\ TauReach({}) = {}
  /\ \A S \in SUBSET Nodes(d) : S \subseteq TauReach(S)
<1>1. TauClosed({})
  BY DEF TauClosed
<1> QED BY <1>1 DEF TauReach

(* An event takes the normal form where it takes the diagram.              *)
LEMMA StepsTogether ==
  ASSUME ConstructionInv, pc = "done", NEW S, NEW T, StandsFor(T, S), NEW ev \in Nat \ {Tau}
  PROVE  StandsFor(NormalStep(T, ev), Step(S, ev))
<1>1. CASE S = {}
  <2>1. NormalStep(T, ev) = {} /\ Targets(S, ev) = {}
    BY <1>1 DEF StandsFor, NormalStep, Targets, EdgesOn, Visible
  <2> QED BY <2>1, ReachFacts DEF StandsFor, Step
<1>2. CASE S # {}
  <2>1. PICK id \in marked : T = {id} /\ states[id] = S
    BY <1>2 DEF StandsFor
  <2>2. Handled(id, ev)
    BY DEF Handled, Exploring, QueueIDs, ConstructionInv, NamesInv
  <2>3. Recorded(id, ev)
    BY <2>2 DEF ConstructionInv, EdgesInv
  <2>4. NormalStep(T, ev) = {e.dst : e \in EdgesFrom(id, ev)}
    BY <2>1 DEF NormalStep, EdgesFrom
  <2>5. CASE EdgesOn(S, ev) = {}
    <3>1. NormalStep(T, ev) = {} /\ Targets(S, ev) = {}
      BY <2>1, <2>3, <2>4, <2>5 DEF Recorded, Targets
    <3> QED BY <3>1, ReachFacts DEF StandsFor, Step
  <2>6. CASE EdgesOn(S, ev) # {}
    <3>1. PICK dst \in marked : /\ states[dst] = Step(S, ev)
                                /\ EdgesFrom(id, ev) = {NormalEdge(id, ev, dst)}
      BY <2>1, <2>3, <2>6 DEF Recorded, Step
    <3>2. NormalStep(T, ev) = {dst}
      BY <2>4, <3>1 DEF NormalEdge
    <3>3. states[dst] # {}
      BY <3>1 DEF ConstructionInv, NamesInv, Sets
    <3> QED BY <3>1, <3>2, <3>3 DEF StandsFor
  <2> QED BY <2>5, <2>6
<1> QED BY <1>1, <1>2

LEMMA TraceStands ==
  ASSUME ConstructionInv, pc = "done", NEW trace \in Traces(MaxTrace)
  PROVE  StandsFor(NormalAfter(trace), After(trace))
<1> DEFINE N == Len(trace)
<1>1. N \in Nat /\ \A n \in 1 .. N : trace[n] \in Nat \ {Tau}
  <2>1. PICK m \in 0 .. MaxTrace : trace \in [1 .. m -> {e.event : e \in d.edges} \ {Tau}]
    BY DEF Traces, BoundedSeq, SeqOf
  <2>2. m \in Nat /\ N = m
    BY <2>1, InputsAssumption
  <2>3. {e.event : e \in d.edges} \subseteq Nat
    BY InputFacts DEF ConstructionInv, TypeInv
  <2> QED BY <2>1, <2>2, <2>3
<1>2. PICK h : Unfolds(h, trace)
  BY <1>1, AfterUnfolds
<1>3. PICK g : NormalUnfolds(g, trace)
  BY <1>1, NormalAfterUnfolds
<1> HIDE DEF N
<1> DEFINE W == {n \in Nat : n <= N => StandsFor(g[n], h[n])}
<1>4. 0 \in W
  <2>1. start.dst \in marked /\ states[start.dst] = TauReach({d.start.dst}) /\ states[start.dst] # {}
    BY DEF ConstructionInv, StartInv, NamesInv, Sets, Starting
  <2> QED BY <1>2, <1>3, <2>1 DEF StandsFor, Unfolds, NormalUnfolds
<1>5. ASSUME NEW n \in Nat, n \in W PROVE n + 1 \in W
  <2> SUFFICES ASSUME n + 1 <= N PROVE StandsFor(g[n + 1], h[n + 1])
    OBVIOUS
  <2>1. n <= N /\ n + 1 \in 1 .. N /\ (n + 1) - 1 = n
    BY <1>1
  <2>2. h[n + 1] = Step(h[n], trace[n + 1]) /\ g[n + 1] = NormalStep(g[n], trace[n + 1])
    BY <1>2, <1>3, <2>1 DEF Unfolds, NormalUnfolds, N
  <2> QED BY <1>1, <1>5, <2>1, <2>2, StepsTogether
<1> HIDE DEF W
<1>6. N \in W
  BY <1>1, <1>4, <1>5, Induction
<1> QED BY <1>1, <1>2, <1>3, <1>6 DEF W, N, Unfolds, NormalUnfolds

LEMMA ConstructionInvariance == UnambiguousInputs => (Spec => []ConstructionInv)
<1> SUFFICES ASSUME UnambiguousInputs PROVE Spec => []ConstructionInv
  OBVIOUS
<1>1. Init => ConstructionInv
  BY InitConstruction
<1>2. ConstructionInv /\ [Next]_vars => ConstructionInv'
  BY StepConstruction
<1> QED BY <1>1, <1>2, PTL DEF Spec

(* After every trace, of any length, the normal form is in the one state   *)
(* that lists where the diagram may be, or both refuse the trace           *)
(* (Normalize, TauClosure), unless ids of sets of states can be confused.  *)
THEOREM NormalFormFollows == UnambiguousInputs => (Spec => []FollowsEveryTrace)
<1> SUFFICES ASSUME UnambiguousInputs PROVE Spec => []FollowsEveryTrace
  OBVIOUS
<1>1. ASSUME ConstructionInv, pc = "done" PROVE FollowsEveryTrace
  <2>1. \A e \in edges : e.event # Tau
    BY <1>1 DEF ConstructionInv, EdgesInv
  <2>2. ASSUME NEW trace \in Traces(MaxTrace)
        PROVE  IF After(trace) = {} THEN NormalAfter(trace) = {}
               ELSE /\ Cardinality(NormalAfter(trace)) = 1
                    /\ {states[id] : id \in NormalAfter(trace)} = {After(trace)}
    <3>1. StandsFor(NormalAfter(trace), After(trace))
      BY <1>1, TraceStands
    <3>2. ASSUME NEW id, NormalAfter(trace) = {id}
          PROVE  Cardinality(NormalAfter(trace)) = 1
      BY <3>2, FS_Singleton
    <3> QED BY <3>1, <3>2 DEF StandsFor
  <2> QED BY <2>1, <2>2 DEF FollowsEveryTrace
<1>2. ConstructionInv => FollowsEveryTrace
  BY <1>1 DEF FollowsEveryTrace
<1> QED BY <1>2, ConstructionInvariance, PTL

(* And an edge taken after any trace offers what each of the edges it was  *)
(* merged from offers, true when one of those is (DisjunctionAll).         *)
THEOREM NormalFormKeeps == UnambiguousInputs => (Spec => []KeepsPredicates)
<1> SUFFICES ASSUME UnambiguousInputs PROVE Spec => []KeepsPredicates
  OBVIOUS
<1>1. ASSUME ConstructionInv, pc = "done", NEW trace \in Traces(MaxTrace), NEW n \in edges,
             n.src \in NormalAfter(trace)
      PROVE  LET may == EdgesOn(After(trace), n.event)
             IN  /\ may # {}
                 /\ \A e \in may : e.guard \in n.guard \/ n.guard = {PredicateTrue}
                 /\ n.guard = {PredicateTrue} <=> \E e \in may : e.guard = PredicateTrue
                 /\ n.post = {PredicateTrue} <=> \E e \in may : e.post = PredicateTrue
  <2> DEFINE ev == n.event
             S == After(trace)
             may == EdgesOn(S, ev)
  <2>1. StandsFor(NormalAfter(trace), S)
    BY <1>1, TraceStands
  <2>2. n.src \in marked /\ states[n.src] = S
    BY <1>1, <2>1 DEF StandsFor
  <2>3. ev \in Nat \ {Tau}
    BY <1>1 DEF ConstructionInv, EdgesInv
  <2>4. Recorded(n.src, ev)
    <3>1. Handled(n.src, ev)
      BY <1>1 DEF Handled, Exploring, QueueIDs, ConstructionInv, NamesInv
    <3> QED BY <1>1, <2>2, <2>3, <3>1 DEF ConstructionInv, EdgesInv
  <2>5. n \in EdgesFrom(n.src, ev)
    BY DEF EdgesFrom
  <2>6. may # {}
    BY <2>2, <2>4, <2>5 DEF Recorded
  <2>7. PICK dst : n = NormalEdge(n.src, ev, dst)
    BY <2>2, <2>4, <2>5, <2>6 DEF Recorded
  <2>8. /\ n.guard = DisjunctionAll({e.guard : e \in may})
        /\ n.post = DisjunctionAll({e.post : e \in may})
    <3>1. /\ n.guard = Merged(states[n.src], ev).guard /\ n.post = Merged(states[n.src], ev).post
      BY <2>7 DEF NormalEdge
    <3> QED BY <2>2, <3>1 DEF Merged
  <2> HIDE DEF may, ev
  <2>9. ASSUME NEW preds, preds # {}
        PROVE  /\ \A p \in preds : p \in DisjunctionAll(preds) \/ DisjunctionAll(preds) = {PredicateTrue}
               /\ DisjunctionAll(preds) = {PredicateTrue} <=> PredicateTrue \in preds
    BY <2>9 DEF DisjunctionAll
  <2>10. /\ \A p \in {e.guard : e \in may} : p \in n.guard \/ n.guard = {PredicateTrue}
         /\ n.guard = {PredicateTrue} <=> PredicateTrue \in {e.guard : e \in may}
    <3> DEFINE guards == {e.guard : e \in may}
    <3>1. guards # {}
      BY <2>6
    <3> HIDE DEF guards
    <3>2. /\ \A p \in guards : p \in DisjunctionAll(guards) \/ DisjunctionAll(guards) = {PredicateTrue}
          /\ DisjunctionAll(guards) = {PredicateTrue} <=> PredicateTrue \in guards
      BY <2>9, <3>1
    <3> QED BY <2>8, <3>2 DEF guards
  <2>11. n.post = {PredicateTrue} <=> PredicateTrue \in {e.post : e \in may}
    <3> DEFINE posts == {e.post : e \in may}
    <3>1. posts # {}
      BY <2>6
    <3> HIDE DEF posts
    <3>2. DisjunctionAll(posts) = {PredicateTrue} <=> PredicateTrue \in posts
      BY <2>9, <3>1
    <3> QED BY <2>8, <3>2 DEF posts
  <2> QED BY <2>6, <2>10, <2>11 DEF may, ev
<1>2. ConstructionInv => KeepsPredicates
  BY <1>1 DEF KeepsPredicates
<1> QED BY <1>2, ConstructionInvariance, PTL

=============================================================================
