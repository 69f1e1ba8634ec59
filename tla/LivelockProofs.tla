--------------------------- MODULE LivelockProofs ---------------------------
(***************************************************************************)
(* Proofs about csdf/livelock.go, for diagrams of any size: a witness is a *)
(* reachable cycle of tau edges with a stem that leads to it, and the      *)
(* verdict "livelock free" excludes divergence.                            *)
(***************************************************************************)
EXTENDS Livelock, Recursion, SequenceTheorems, TLAPS

(* reachableStates: what is recorded is reachable, and the targets of the  *)
(* states that left the queue are recorded.                                *)
ReachInv ==
  /\ d.start \in reachable /\ reachable \subseteq Reachable
  /\ \A e \in d.edges : e.src \in reachable \ frontier => e.dst \in reachable
  /\ phase # "reach" => frontier = {}
  /\ phase = "reach" => stack = << >> /\ \A s \in Nodes : color[s] = "white"

(* The grey states are the states of the stack, each once, and the stack   *)
(* is a path of tau edges.                                                 *)
StackInv ==
  phase = "search" =>
    /\ \A s \in Nodes : color[s] = "grey" <=> \E i \in DOMAIN stack : stack[i].node = s
    /\ \A i, j \in DOMAIN stack : stack[i].node = stack[j].node => i = j
    /\ \A i \in 2 .. Len(stack) :
         /\ stack[i].node \in DOMAIN entryEdge
         /\ entryEdge[stack[i].node] \in TauOut(stack[i - 1].node)
         /\ entryEdge[stack[i].node].dst = stack[i].node

(* An edge of a frame already followed leads to a black state or to the    *)
(* frame above.                                                            *)
TodoInv ==
  phase = "search" =>
    \A i \in DOMAIN stack :
      /\ stack[i].todo \subseteq TauOut(stack[i].node)
      /\ \A e \in TauOut(stack[i].node) \ stack[i].todo :
           \/ color[e.dst] = "black"
           \/ i + 1 \in DOMAIN stack /\ e.dst = stack[i + 1].node

Black == {s \in Nodes : color[s] = "black"}

(* A set of states none of which is left by tau for ever.                  *)
Escapes(S) == \E s \in S : \A e \in TauOut(s) : e.dst \notin S

(* Black states lead by tau to black states only, and cannot diverge.      *)
BlackInv ==
  phase = "search" =>
    /\ \A s \in Black : \A e \in TauOut(s) : e.dst \in Black
    /\ \A S \in SUBSET Black : S # {} => Escapes(S)

(* No source of a tau edge is forgotten.                                   *)
RootsInv ==
  phase = "search" =>
    \A s \in Nodes : TauOut(s) # {} /\ color[s] = "white" => s \in roots

CycleInv ==
  phase \in {"stem", "path", "livelock"} =>
    /\ cycle # << >>
    /\ PathFromTo(cycle, Target, Target)
    /\ \A i \in DOMAIN cycle : cycle[i].event = Tau

(* prev leads from every visited state to a visited state.                 *)
VisitInv ==
  /\ phase \in {"reach", "search"} => scan = {} /\ DOMAIN prev = {}
  /\ phase \in {"stem", "path"} =>
       /\ \A i \in DOMAIN queue : queue[i] \in visited
       /\ \A e \in scan : e.src \in visited
       /\ \A s \in visited \ {d.start} :
            s \in DOMAIN prev /\ prev[s].dst = s /\ prev[s].src \in visited

PathInv ==
  /\ phase = "path" => cur \in visited /\ PathFromTo(stem, cur, Target)
  /\ phase \notin {"path", "livelock"} => stem = << >>
  /\ phase = "livelock" => PathFromTo(stem, d.start, Target)

SearchInv == StackInv /\ TodoInv /\ BlackInv /\ RootsInv

IInv ==
  /\ TypeOK /\ ReachInv /\ SearchInv
  /\ CycleInv /\ VisitInv /\ PathInv /\ FreeCannotDiverge

-----------------------------------------------------------------------------
(* What is defined from the diagram alone does not change.                 *)
LEMMA SameDiagram ==
  ASSUME d' = d
  PROVE  /\ Nodes' = Nodes /\ Reachable' = Reachable
         /\ \A s : Outgoing(s)' = Outgoing(s)
         /\ \A p, s, t : PathFromTo(p, s, t)' = PathFromTo(p, s, t)
         /\ reachable' = reachable => \A s : TauOut(s)' = TauOut(s)
<1>1. Nodes' = Nodes /\ \A s : Outgoing(s)' = Outgoing(s)
  BY DEF Nodes, Outgoing
<1>2. \A S : ClosedUnderEdges(S)' = ClosedUnderEdges(S)
  BY DEF ClosedUnderEdges
<1>3. Reachable' = Reachable
  BY <1>1, <1>2 DEF Reachable
<1>4. \A p, s, t : PathFromTo(p, s, t)' = PathFromTo(p, s, t)
  BY DEF PathFromTo
<1>5. reachable' = reachable => \A s : TauOut(s)' = TauOut(s)
  BY <1>1 DEF TauOut
<1> QED BY <1>1, <1>3, <1>4, <1>5

(* Reachable is the least set closed under the edges.                      *)
LEMMA ReachableIsLeast ==
  /\ d.start \in Reachable /\ Reachable \subseteq Nodes
  /\ ClosedUnderEdges(Reachable)
  /\ \A S \in SUBSET Nodes : d.start \in S /\ ClosedUnderEdges(S) => Reachable \subseteq S
<1>1. ASSUME NEW e \in d.edges, e.src \in Reachable
      PROVE  e.dst \in Reachable
  <2>1. e.dst \in Nodes
    BY DEF Nodes
  <2>2. \A S \in SUBSET Nodes : d.start \in S /\ ClosedUnderEdges(S) => e.dst \in S
    BY <1>1 DEF Reachable, ClosedUnderEdges
  <2> QED BY <2>1, <2>2 DEF Reachable
<1> QED BY <1>1 DEF Reachable, ClosedUnderEdges, Nodes

LEMMA EdgesJoinNodes ==
  \A e \in d.edges : e.src \in Nodes /\ e.dst \in Nodes
BY DEF Nodes

LEMMA PrependElement ==
  ASSUME NEW S, NEW e \in S, NEW p \in Seq(S), NEW q, q = <<e>> \o p
  PROVE  /\ q \in Seq(S) /\ Len(p) \in Nat /\ Len(q) = Len(p) + 1
         /\ q[1] = e
         /\ \A i \in 1 .. Len(p) : q[i + 1] = p[i]
<1>1. <<e>> \in Seq(S) /\ Len(<<e>>) = 1 /\ <<e>>[1] = e
  OBVIOUS
<1>2. Len(p) \in Nat
  BY LenProperties
<1>3. /\ <<e>> \o p \in Seq(S) /\ Len(<<e>> \o p) = Len(<<e>>) + Len(p)
      /\ \A i \in 1 .. Len(<<e>>) + Len(p) :
           (<<e>> \o p)[i] = IF i <= Len(<<e>>) THEN <<e>>[i] ELSE p[i - Len(<<e>>)]
  BY <1>1, ConcatProperties
<1>4. \A i \in 1 .. Len(p) : i + 1 \in 1 .. 1 + Len(p) /\ ~ (i + 1 <= 1) /\ (i + 1) - 1 = i
  BY <1>2
<1>5. (<<e>> \o p)[1] = e
  BY <1>1, <1>2, <1>3
<1>6. ASSUME NEW i \in 1 .. Len(p) PROVE (<<e>> \o p)[i + 1] = p[i]
  BY <1>1, <1>3, <1>4
<1> QED BY <1>1, <1>2, <1>3, <1>5, <1>6

(* Putting an edge before a path.                                          *)
LEMMA PrependEdge ==
  ASSUME NEW p \in Seq(d.edges), NEW s, NEW t, PathFromTo(p, s, t),
         NEW e \in d.edges, e.dst = s
  PROVE  <<e>> \o p \in Seq(d.edges) /\ PathFromTo(<<e>> \o p, e.src, t)
<1>0. PICK q : q = <<e>> \o p
  OBVIOUS
<1>1. /\ q \in Seq(d.edges) /\ Len(p) \in Nat /\ Len(q) = Len(p) + 1
      /\ q[1] = e /\ \A i \in 1 .. Len(p) : q[i + 1] = p[i]
  <2>1. PICK E : E = d.edges
    OBVIOUS
  <2>2. e \in E /\ p \in Seq(E)
    BY <2>1
  <2>3. /\ q \in Seq(E) /\ Len(p) \in Nat /\ Len(q) = Len(p) + 1
        /\ q[1] = e /\ \A i \in 1 .. Len(p) : q[i + 1] = p[i]
    BY <1>0, <2>2, PrependElement
  <2> QED BY <2>1, <2>3
<1>2. DOMAIN q = 1 .. Len(q) /\ DOMAIN p = 1 .. Len(p)
  BY <1>1, LenProperties
<1>3. \A i \in DOMAIN q : q[i] \in d.edges
  BY <1>1, <1>2, ElementOfSeq
<1>4. ASSUME NEW i \in 1 .. Len(q) - 1
      PROVE  q[i].dst = q[i + 1].src
  <2>0. q[i + 1] = p[i]
    BY <1>1
  <2>1. CASE i = 1
    BY <1>1, <2>0, <2>1 DEF PathFromTo
  <2>2. CASE i # 1
    <3>1. PICK j : j = i - 1
      OBVIOUS
    <3>2. j \in 1 .. Len(p) - 1 /\ j + 1 = i /\ j \in 1 .. Len(p)
      BY <1>1, <2>2, <3>1
    <3>3. q[j + 1] = p[j] /\ p[j].dst = p[j + 1].src
      BY <1>1, <3>2 DEF PathFromTo
    <3> QED BY <2>0, <3>2, <3>3
  <2> QED BY <2>1, <2>2
<1>5. q # << >> /\ q[1].src = e.src /\ q[Len(q)].dst = t
  <2>1. CASE p = << >>
    BY <1>1, <2>1 DEF PathFromTo
  <2>2. CASE p # << >>
    BY <1>1, <2>2 DEF PathFromTo
  <2> QED BY <2>1, <2>2
<1> QED BY <1>0, <1>1, <1>3, <1>4, <1>5 DEF PathFromTo

-----------------------------------------------------------------------------
LEMMA InitIInv == ASSUME Init PROVE IInv
<1>1. d \in Diagrams /\ d.start \in Nat /\ d.edges \subseteq Edge
  BY DiagramsAssumption DEF Init
<1>2. TypeOK
  BY <1>1 DEF Init, TypeOK, Nodes
<1>3. ReachInv
  BY ReachableIsLeast DEF Init, ReachInv
<1> QED
  BY <1>2, <1>3 DEF Init, IInv, SearchInv, StackInv, TodoInv, BlackInv, RootsInv,
     CycleInv, VisitInv, PathInv, FreeCannotDiverge

(* reachableStates.                                                        *)
LEMMA ReachStepIInv == ASSUME IInv, ReachStep PROVE IInv'
<1>1. PICK s, fresh :
        /\ s \in frontier
        /\ fresh = {e.dst : e \in Outgoing(s)} \ reachable
        /\ reachable' = reachable \cup fresh
        /\ frontier' = (frontier \ {s}) \cup fresh
  BY DEF ReachStep
<1>2. /\ phase = "reach" /\ phase' = phase /\ d' = d
      /\ roots' = roots /\ color' = color /\ stack' = stack /\ entryEdge' = entryEdge
      /\ cycle' = cycle /\ visited' = visited /\ prev' = prev /\ queue' = queue
      /\ scan' = scan /\ cur' = cur /\ stem' = stem
  BY DEF ReachStep, searchVars, stemVars, pathVars
<1>3. Nodes' = Nodes /\ Reachable' = Reachable
  BY <1>2, SameDiagram
<1>4. s \in reachable /\ s \in Reachable
  BY <1>1 DEF IInv, TypeOK, ReachInv
<1>5. fresh \subseteq Nodes /\ fresh \subseteq Reachable
  BY <1>1, <1>4, EdgesJoinNodes, ReachableIsLeast DEF Outgoing, ClosedUnderEdges
<1>6. TypeOK'
  BY <1>1, <1>2, <1>3, <1>5 DEF IInv, TypeOK
<1>7. ReachInv'
  BY <1>1, <1>2, <1>3, <1>5 DEF IInv, ReachInv, Outgoing
<1> QED
  BY <1>2, <1>6, <1>7 DEF IInv, SearchInv, StackInv, TodoInv, BlackInv, RootsInv,
     CycleInv, VisitInv, PathInv, FreeCannotDiverge

(* The search starts with all states white and every source a root.        *)
LEMMA StartSearchIInv == ASSUME IInv, StartSearch PROVE IInv'
<1>1. /\ phase = "reach" /\ frontier = {} /\ phase' = "search" /\ d' = d
      /\ roots' = {e.src : e \in {x \in d.edges : x.event = Tau /\ x.src \in reachable}}
      /\ reachable' = reachable /\ frontier' = frontier
      /\ color' = color /\ stack' = stack /\ entryEdge' = entryEdge
      /\ cycle' = cycle /\ visited' = visited /\ prev' = prev /\ queue' = queue
      /\ scan' = scan /\ cur' = cur /\ stem' = stem
  BY DEF StartSearch, reachVars, stemVars, pathVars
<1>2. /\ Nodes' = Nodes /\ Reachable' = Reachable /\ \A s : TauOut(s)' = TauOut(s)
  BY <1>1, SameDiagram
<1>3. stack = << >> /\ \A s \in Nodes : color[s] = "white"
  BY <1>1 DEF IInv, ReachInv
<1>4. TypeOK'
  BY <1>1, <1>2, EdgesJoinNodes DEF IInv, TypeOK
<1>5. ReachInv'
  BY <1>1, <1>2 DEF IInv, ReachInv
<1>6. StackInv'
  BY <1>1, <1>3, <1>2 DEF StackInv
<1>7. TodoInv'
  BY <1>1, <1>3 DEF TodoInv
<1>8. BlackInv'
  <2>1. Black' = {}
    BY <1>1, <1>2, <1>3 DEF Black
  <2> QED BY <2>1 DEF BlackInv
<1>9. RootsInv'
  BY <1>1, <1>2 DEF RootsInv, TauOut, Outgoing
<1> QED
  BY <1>1, <1>4, <1>5, <1>6, <1>7, <1>8, <1>9
     DEF IInv, SearchInv, CycleInv, VisitInv, PathInv, FreeCannotDiverge

-----------------------------------------------------------------------------
(* The stack as a sequence: taking its top off, replacing it, pushing.     *)
Frames == [node : Nodes, todo : SUBSET d.edges]

LEMMA PopTop ==
  ASSUME stack \in Seq(Frames), stack # << >>
  PROVE  /\ Len(stack) \in Nat \ {0} /\ DOMAIN stack = 1 .. Len(stack)
         /\ \A i \in DOMAIN stack : stack[i] \in Frames
         /\ Below \in Seq(Frames) /\ Len(Below) = Len(stack) - 1
         /\ DOMAIN Below = 1 .. Len(stack) - 1
         /\ \A i \in 1 .. Len(stack) - 1 : Below[i] = stack[i]
<1>1. Len(stack) \in Nat \ {0} /\ DOMAIN stack = 1 .. Len(stack)
  BY LenProperties, EmptySeq
<1>2. \A i \in DOMAIN stack : stack[i] \in Frames
  BY <1>1, ElementOfSeq
<1>3. \A i \in 1 .. Len(stack) - 1 : stack[i] \in Frames
  BY <1>1, <1>2
<1>4. /\ Below \in Seq(Frames) /\ Len(Below) = Len(stack) - 1
      /\ \A i \in 1 .. Len(stack) - 1 : Below[i] = stack[i]
  <2>1. /\ Len(stack) - 1 \in Int /\ 1 \in Int
        /\ (Len(stack) - 1) - 1 + 1 = Len(stack) - 1
        /\ \A i \in 1 .. Len(stack) - 1 : 1 + i - 1 = i
    BY <1>1
  <2>2. PICK n : n = Len(stack) - 1
    OBVIOUS
  <2>3. /\ SubSeq(stack, 1, n) \in Seq(Frames)
        /\ Len(SubSeq(stack, 1, n)) = IF 1 <= n THEN n - 1 + 1 ELSE 0
        /\ \A i \in 1 .. n - 1 + 1 : SubSeq(stack, 1, n)[i] = stack[1 + i - 1]
    BY <1>3, <2>1, <2>2, SubSeqProperties
  <2> QED BY <1>1, <2>1, <2>2, <2>3 DEF Below
<1>5. DOMAIN Below = 1 .. Len(stack) - 1
  BY <1>4, LenProperties
<1> QED BY <1>1, <1>2, <1>4, <1>5

LEMMA PushElement ==
  ASSUME NEW S, NEW s \in Seq(S), NEW f \in S, NEW q, q = s \o <<f>>
  PROVE  /\ q \in Seq(S) /\ Len(s) \in Nat /\ Len(q) = Len(s) + 1
         /\ DOMAIN q = 1 .. Len(s) + 1
         /\ \A i \in 1 .. Len(s) : q[i] = s[i]
         /\ q[Len(s) + 1] = f
<1>1. q = Append(s, f)
  BY AppendIsConcat
<1>2. /\ q \in Seq(S) /\ Len(s) \in Nat /\ Len(q) = Len(s) + 1
  BY <1>1, AppendProperties, LenProperties
<1>3. DOMAIN q = 1 .. Len(s) + 1
  BY <1>2, LenProperties
<1>4. \A i \in 1 .. Len(s) : q[i] = s[i]
  BY <1>1, AppendProperties
<1>5. q[Len(s) + 1] = f
  BY <1>1, AppendProperties
<1> QED BY <1>2, <1>3, <1>4, <1>5

(* Advancing the index of the top frame changes nothing else.              *)
LEMMA AdvanceTop ==
  ASSUME stack \in Seq(Frames), stack # << >>, NEW e
  PROVE  /\ Advanced(e) \in Seq(Frames) /\ Len(Advanced(e)) = Len(stack)
         /\ DOMAIN Advanced(e) = DOMAIN stack
         /\ \A i \in DOMAIN stack : Advanced(e)[i].node = stack[i].node
         /\ \A i \in 1 .. Len(stack) - 1 : Advanced(e)[i] = stack[i]
         /\ Advanced(e)[Len(stack)].todo = Top.todo \ {e}
<1>1. /\ Len(stack) \in Nat \ {0} /\ DOMAIN stack = 1 .. Len(stack)
      /\ Below \in Seq(Frames) /\ Len(Below) = Len(stack) - 1
      /\ \A i \in 1 .. Len(stack) - 1 : Below[i] = stack[i]
      /\ \A i \in DOMAIN stack : stack[i] \in Frames
  BY PopTop
<1>9. Top \in Frames
  BY <1>1 DEF Top
<1>2. PICK f : f = [Top EXCEPT !.todo = @ \ {e}]
  OBVIOUS
<1>3. f \in Frames /\ f.node = Top.node /\ f.todo = Top.todo \ {e}
  BY <1>9, <1>2 DEF Frames
<1>4. PICK q : q = Below \o <<f>>
  OBVIOUS
<1>5. /\ q \in Seq(Frames) /\ Len(q) = Len(Below) + 1
      /\ DOMAIN q = 1 .. Len(Below) + 1
      /\ \A i \in 1 .. Len(Below) : q[i] = Below[i]
      /\ q[Len(Below) + 1] = f
  <2>1. PICK S, b : S = Frames /\ b = Below
    OBVIOUS
  <2>2. b \in Seq(S) /\ f \in S /\ q = b \o <<f>>
    BY <1>1, <1>3, <1>4, <2>1
  <2>3. /\ q \in Seq(S) /\ Len(q) = Len(b) + 1 /\ DOMAIN q = 1 .. Len(b) + 1
        /\ \A i \in 1 .. Len(b) : q[i] = b[i]
        /\ q[Len(b) + 1] = f
    BY <2>2, PushElement
  <2> QED BY <2>1, <2>3
<1>6. Len(Below) + 1 = Len(stack)
  BY <1>1
<1>7. q = Advanced(e)
  BY <1>2, <1>4 DEF Advanced
<1>8. \A i \in DOMAIN stack : q[i].node = stack[i].node
  BY <1>1, <1>3, <1>5, <1>6 DEF Top
<1> QED BY <1>1, <1>3, <1>5, <1>6, <1>7, <1>8

-----------------------------------------------------------------------------
(* What a step of the search may use of the invariant.                     *)
LEMMA InSearch ==
  ASSUME IInv, phase = "search"
  PROVE  /\ stack \in Seq(Frames) /\ color \in [Nodes -> {"white", "grey", "black"}]
         /\ roots \subseteq Nodes /\ frontier = {} /\ stem = << >> /\ scan = {}
         /\ \A s \in DOMAIN entryEdge : entryEdge[s] \in d.edges
         /\ DOMAIN entryEdge \subseteq Nodes
         /\ \A s : TauOut(s) \subseteq d.edges /\ \A e \in TauOut(s) : e.dst \in Nodes
BY EdgesJoinNodes
   DEF IInv, TypeOK, Frames, ReachInv, VisitInv, PathInv, TauOut, Outgoing

(* A step that stays in the search and keeps what the search keeps.        *)
LEMMA SearchStep ==
  ASSUME IInv, phase = "search", phase' = "search", d' = d,
         UNCHANGED <<reachVars, cycle, stemVars, pathVars>>,
         roots' \subseteq Nodes, color' \in [Nodes -> {"white", "grey", "black"}],
         stack' \in Seq(Frames), DOMAIN entryEdge' \subseteq Nodes,
         \A s \in DOMAIN entryEdge' : entryEdge'[s] \in d.edges,
         StackInv', TodoInv', BlackInv', RootsInv'
  PROVE  IInv'
<1>1. Nodes' = Nodes /\ Reachable' = Reachable
  BY SameDiagram
<1>2. TypeOK'
  BY <1>1 DEF IInv, TypeOK, Frames, reachVars, stemVars, pathVars
<1>3. ReachInv' /\ VisitInv'
  BY <1>1 DEF IInv, ReachInv, VisitInv, reachVars, stemVars
<1>4. CycleInv' /\ PathInv' /\ FreeCannotDiverge'
  BY DEF IInv, CycleInv, PathInv, FreeCannotDiverge, pathVars
<1> QED BY <1>2, <1>3, <1>4 DEF IInv, SearchInv

(* All the edges of the top frame lead to black states, so it may become   *)
(* black, and a set that can be left without it can be left with it.       *)
LEMMA BlackenIInv == ASSUME IInv, Blacken PROVE IInv'
<1>1. PICK n : n = Top.node
  OBVIOUS
<1>2. /\ phase = "search" /\ phase' = "search" /\ stack # << >> /\ Top.todo = {}
      /\ color' = [color EXCEPT ![n] = "black"] /\ stack' = Below
      /\ d' = d /\ reachable' = reachable /\ roots' = roots /\ entryEdge' = entryEdge
      /\ UNCHANGED <<reachVars, cycle, stemVars, pathVars>>
  BY <1>1 DEF Blacken, reachVars
<1>3. /\ stack \in Seq(Frames) /\ color \in [Nodes -> {"white", "grey", "black"}]
      /\ roots \subseteq Nodes /\ DOMAIN entryEdge \subseteq Nodes
      /\ \A s \in DOMAIN entryEdge : entryEdge[s] \in d.edges
      /\ \A s : \A e \in TauOut(s) : e.dst \in Nodes
  BY <1>2, InSearch
<1>4. /\ Len(stack) \in Nat \ {0} /\ DOMAIN stack = 1 .. Len(stack)
      /\ \A i \in DOMAIN stack : stack[i] \in Frames
      /\ Below \in Seq(Frames) /\ DOMAIN Below = 1 .. Len(stack) - 1
      /\ Len(Below) = Len(stack) - 1
      /\ \A i \in 1 .. Len(stack) - 1 : Below[i] = stack[i]
  BY <1>2, <1>3, PopTop
<1>5. Len(stack) \in DOMAIN stack /\ stack[Len(stack)].node = n /\ n \in Nodes
  BY <1>1, <1>4 DEF Top, Frames
<1>6. Nodes' = Nodes /\ \A s : TauOut(s)' = TauOut(s)
  BY <1>2, SameDiagram
<1>7. /\ \A s \in Nodes : color[s] = "grey" <=> \E i \in DOMAIN stack : stack[i].node = s
      /\ \A i, j \in DOMAIN stack : stack[i].node = stack[j].node => i = j
      /\ \A i \in 2 .. Len(stack) :
           /\ stack[i].node \in DOMAIN entryEdge
           /\ entryEdge[stack[i].node] \in TauOut(stack[i - 1].node)
           /\ entryEdge[stack[i].node].dst = stack[i].node
  BY <1>2 DEF IInv, SearchInv, StackInv
<1>8. \A i \in DOMAIN stack :
        /\ stack[i].todo \subseteq TauOut(stack[i].node)
        /\ \A e \in TauOut(stack[i].node) \ stack[i].todo :
             \/ color[e.dst] = "black"
             \/ i + 1 \in DOMAIN stack /\ e.dst = stack[i + 1].node
  BY <1>2 DEF IInv, SearchInv, TodoInv
<1>9. /\ \A s \in Black : \A e \in TauOut(s) : e.dst \in Black
      /\ \A S \in SUBSET Black : S # {} => Escapes(S)
  BY <1>2 DEF IInv, SearchInv, BlackInv
<1>10. color[n] = "grey" /\ n \notin Black
  BY <1>5, <1>7 DEF Black
<1>11. \A e \in TauOut(n) : e.dst \in Black
  <2>1. Len(stack) + 1 \notin DOMAIN stack /\ stack[Len(stack)].todo = {}
    BY <1>2, <1>4 DEF Top
  <2> QED BY <1>3, <1>5, <1>8, <2>1 DEF Black
<1>12. /\ \A s \in Nodes : color'[s] = IF s = n THEN "black" ELSE color[s]
       /\ color' \in [Nodes -> {"white", "grey", "black"}]
       /\ Black' = Black \cup {n}
  <2>1. /\ \A s \in Nodes : color'[s] = IF s = n THEN "black" ELSE color[s]
        /\ color' \in [Nodes -> {"white", "grey", "black"}]
    BY <1>2, <1>3, <1>5
  <2> QED BY <2>1, <1>5, <1>6 DEF Black
<1>13. StackInv'
  <2>1. \A i \in DOMAIN stack' : i \in DOMAIN stack /\ i # Len(stack) /\ stack'[i] = stack[i]
    BY <1>2, <1>4
  <2>2. ASSUME NEW s \in Nodes
        PROVE  color'[s] = "grey" <=> \E i \in DOMAIN stack' : stack'[i].node = s
    <3>1. ASSUME color'[s] = "grey" PROVE \E i \in DOMAIN stack' : stack'[i].node = s
      <4>1. s # n /\ color[s] = "grey"
        BY <1>12, <3>1
      <4>2. PICK i \in DOMAIN stack : stack[i].node = s
        BY <1>7, <4>1
      <4>3. i \in 1 .. Len(stack) - 1
        BY <1>4, <1>5, <4>1, <4>2
      <4> QED BY <1>2, <1>4, <4>2, <4>3
    <3>2. ASSUME NEW i \in DOMAIN stack', stack'[i].node = s PROVE color'[s] = "grey"
      <4>1. s # n
        BY <1>5, <1>7, <2>1, <3>2
      <4> QED BY <1>7, <1>12, <2>1, <3>2, <4>1
    <3> QED BY <3>1, <3>2
  <2>3. \A i \in 2 .. Len(stack') : i \in 2 .. Len(stack) /\ stack'[i] = stack[i]
                                  /\ stack'[i - 1] = stack[i - 1]
    BY <1>2, <1>4
  <2> QED BY <1>2, <1>6, <1>7, <2>1, <2>2, <2>3 DEF StackInv
<1>14. TodoInv'
  <2> SUFFICES ASSUME NEW i \in DOMAIN stack'
               PROVE  /\ stack'[i].todo \subseteq TauOut(stack'[i].node)
                      /\ \A e \in TauOut(stack'[i].node) \ stack'[i].todo :
                           \/ color'[e.dst] = "black"
                           \/ i + 1 \in DOMAIN stack' /\ e.dst = stack'[i + 1].node
    BY <1>6 DEF TodoInv
  <2>1. i \in DOMAIN stack /\ stack'[i] = stack[i]
    BY <1>2, <1>4
  <2>2. ASSUME NEW e \in TauOut(stack[i].node) \ stack[i].todo, color'[e.dst] # "black"
        PROVE  i + 1 \in DOMAIN stack' /\ e.dst = stack'[i + 1].node
    <3>1. e.dst \in Nodes /\ e.dst # n /\ color[e.dst] # "black"
      BY <1>3, <1>12, <2>2
    <3>2. i + 1 \in DOMAIN stack /\ e.dst = stack[i + 1].node
      BY <1>8, <2>1, <2>2, <3>1
    <3>3. i + 1 # Len(stack)
      BY <1>5, <3>1, <3>2
    <3> QED BY <1>2, <1>4, <2>1, <3>2, <3>3
  <2> QED BY <1>8, <2>1, <2>2
<1>15. BlackInv'
  <2>1. ASSUME NEW S \in SUBSET (Black \cup {n}), S # {}
        PROVE  \E s \in S : \A e \in TauOut(s) : e.dst \notin S
    <3>1. CASE S \subseteq {n}
      <4>1. n \in S
        BY <2>1, <3>1
      <4> QED BY <1>10, <1>11, <3>1, <4>1
    <3>2. CASE ~ (S \subseteq {n})
      <4>1. S \ {n} \in SUBSET Black /\ S \ {n} # {}
        BY <2>1, <3>2
      <4>2. PICK s \in S \ {n} : \A e \in TauOut(s) : e.dst \notin S \ {n}
        BY <1>9, <4>1 DEF Escapes
      <4>3. s \in Black
        BY <4>1, <4>2
      <4>4. \A e \in TauOut(s) : e.dst # n
        BY <1>9, <1>10, <4>3
      <4> QED BY <4>2, <4>4
    <3> QED BY <3>1, <3>2
  <2>2. \A s \in Black \cup {n} : \A e \in TauOut(s) : e.dst \in Black \cup {n}
    BY <1>9, <1>11
  <2> QED BY <1>6, <1>12, <2>1, <2>2 DEF BlackInv, Escapes
<1>16. RootsInv'
  BY <1>2, <1>6, <1>12 DEF IInv, SearchInv, RootsInv
<1> QED
  BY <1>2, <1>3, <1>4, <1>12, <1>13, <1>14, <1>15, <1>16, SearchStep

(* The edge a step of the search follows.                                  *)
LEMMA FollowedEdge ==
  ASSUME IInv, phase = "search", stack # << >>, NEW e \in Firsts(Top.todo)
  PROVE  e \in Top.todo /\ e \in TauOut(Top.node) /\ e \in d.edges /\ e.dst \in Nodes
<1>1. Top.todo \subseteq TauOut(Top.node)
  <2>1. Len(stack) \in DOMAIN stack
    BY InSearch, PopTop
  <2> QED BY <2>1 DEF IInv, SearchInv, TodoInv, Top
<1>2. e \in Top.todo
  BY DEF Firsts
<1> QED BY <1>1, <1>2, InSearch

LEMMA SkipBlackIInv == ASSUME IInv, SkipBlack PROVE IInv'
<1>1. PICK e \in Firsts(Top.todo) : color[e.dst] = "black" /\ stack' = Advanced(e)
  BY DEF SkipBlack
<1>2. /\ phase = "search" /\ phase' = "search" /\ stack # << >>
      /\ d' = d /\ reachable' = reachable /\ roots' = roots
      /\ color' = color /\ entryEdge' = entryEdge
      /\ UNCHANGED <<reachVars, cycle, stemVars, pathVars>>
  BY DEF SkipBlack, reachVars
<1>3. /\ stack \in Seq(Frames) /\ color \in [Nodes -> {"white", "grey", "black"}]
      /\ roots \subseteq Nodes /\ DOMAIN entryEdge \subseteq Nodes
      /\ \A s \in DOMAIN entryEdge : entryEdge[s] \in d.edges
  BY <1>2, InSearch
<1>4. Len(stack) \in Nat \ {0} /\ DOMAIN stack = 1 .. Len(stack)
  BY <1>2, <1>3, PopTop
<1>5. /\ stack' \in Seq(Frames) /\ Len(stack') = Len(stack) /\ DOMAIN stack' = DOMAIN stack
      /\ \A i \in DOMAIN stack : stack'[i].node = stack[i].node
      /\ \A i \in 1 .. Len(stack) - 1 : stack'[i] = stack[i]
      /\ stack'[Len(stack)].todo = Top.todo \ {e}
  BY <1>1, <1>2, <1>3, AdvanceTop
<1>6. Nodes' = Nodes /\ \A s : TauOut(s)' = TauOut(s)
  BY <1>2, SameDiagram
<1>7. StackInv'
  <2>1. /\ \A s \in Nodes : color[s] = "grey" <=> \E i \in DOMAIN stack : stack[i].node = s
        /\ \A i, j \in DOMAIN stack : stack[i].node = stack[j].node => i = j
        /\ \A i \in 2 .. Len(stack) :
             /\ stack[i].node \in DOMAIN entryEdge
             /\ entryEdge[stack[i].node] \in TauOut(stack[i - 1].node)
             /\ entryEdge[stack[i].node].dst = stack[i].node
    BY <1>2 DEF IInv, SearchInv, StackInv
  <2>2. \A i \in 2 .. Len(stack') :
          i \in 2 .. Len(stack) /\ i \in DOMAIN stack /\ i - 1 \in DOMAIN stack
    BY <1>4, <1>5
  <2>3. \A i \in 2 .. Len(stack') :
          /\ stack'[i].node \in DOMAIN entryEdge'
          /\ entryEdge'[stack'[i].node] \in TauOut(stack'[i - 1].node)
          /\ entryEdge'[stack'[i].node].dst = stack'[i].node
    BY <1>2, <1>5, <2>1, <2>2
  <2>4. /\ \A s \in Nodes : color'[s] = "grey" <=> \E i \in DOMAIN stack' : stack'[i].node = s
        /\ \A i, j \in DOMAIN stack' : stack'[i].node = stack'[j].node => i = j
    BY <1>2, <1>5, <2>1
  <2> QED BY <1>6, <2>3, <2>4 DEF StackInv
<1>8. TodoInv'
  <2> SUFFICES ASSUME NEW i \in DOMAIN stack
               PROVE  /\ stack'[i].todo \subseteq TauOut(stack[i].node)
                      /\ \A f \in TauOut(stack[i].node) \ stack'[i].todo :
                           \/ color[f.dst] = "black"
                           \/ i + 1 \in DOMAIN stack /\ f.dst = stack[i + 1].node
    BY <1>2, <1>5, <1>6 DEF TodoInv
  <2>1. /\ stack[i].todo \subseteq TauOut(stack[i].node)
        /\ \A f \in TauOut(stack[i].node) \ stack[i].todo :
             \/ color[f.dst] = "black"
             \/ i + 1 \in DOMAIN stack /\ f.dst = stack[i + 1].node
    BY <1>2 DEF IInv, SearchInv, TodoInv
  <2>2. CASE i = Len(stack)
    BY <1>1, <1>5, <2>1, <2>2 DEF Top
  <2>3. CASE i # Len(stack)
    BY <1>4, <1>5, <2>1, <2>3
  <2> QED BY <2>2, <2>3
<1>9. BlackInv'
  <2>1. Black' = Black
    BY <1>2, <1>6 DEF Black
  <2> QED BY <1>2, <1>6, <2>1 DEF IInv, SearchInv, BlackInv, Escapes
<1>10. RootsInv'
  BY <1>2, <1>6 DEF IInv, SearchInv, RootsInv
<1> QED
  BY <1>2, <1>3, <1>5, <1>7, <1>8, <1>9, <1>10, SearchStep

(* A white state is pushed: it is on no frame and in no entry yet.         *)
LEMMA FollowWhiteIInv == ASSUME IInv, FollowWhite PROVE IInv'
<1>1. PICK e, t :
        /\ e \in Firsts(Top.todo)
        /\ t = e.dst /\ color[t] = "white"
        /\ color' = [color EXCEPT ![t] = "grey"]
        /\ entryEdge' = [s \in DOMAIN entryEdge \cup {t} |->
                           IF s = t THEN e ELSE entryEdge[s]]
        /\ stack' = Advanced(e) \o <<Frame(t)>>
  BY DEF FollowWhite
<1>2. /\ phase = "search" /\ phase' = "search" /\ stack # << >>
      /\ d' = d /\ reachable' = reachable /\ roots' = roots
      /\ UNCHANGED <<reachVars, cycle, stemVars, pathVars>>
  BY DEF FollowWhite, reachVars
<1>3. /\ stack \in Seq(Frames) /\ color \in [Nodes -> {"white", "grey", "black"}]
      /\ roots \subseteq Nodes /\ DOMAIN entryEdge \subseteq Nodes
      /\ \A s \in DOMAIN entryEdge : entryEdge[s] \in d.edges
      /\ \A s : TauOut(s) \subseteq d.edges /\ \A f \in TauOut(s) : f.dst \in Nodes
  BY <1>2, InSearch
<1>4. Len(stack) \in Nat \ {0} /\ DOMAIN stack = 1 .. Len(stack)
  BY <1>2, <1>3, PopTop
<1>5. PICK a, m : a = Advanced(e) /\ m = Len(stack)
  OBVIOUS
<1>6. /\ a \in Seq(Frames) /\ Len(a) = m /\ DOMAIN a = 1 .. m
      /\ \A i \in DOMAIN stack : a[i].node = stack[i].node
      /\ \A i \in 1 .. m - 1 : a[i] = stack[i]
      /\ a[m].todo = Top.todo \ {e}
  BY <1>2, <1>3, <1>4, <1>5, AdvanceTop
<1>7. e \in Top.todo /\ e \in TauOut(stack[m].node) /\ e \in d.edges /\ t \in Nodes
  BY <1>1, <1>2, <1>5, FollowedEdge DEF Top
<1>8. Frame(t) \in Frames /\ Frame(t).node = t /\ Frame(t).todo = TauOut(t)
  BY <1>3, <1>7 DEF Frame, Frames
<1>9. /\ stack' \in Seq(Frames) /\ Len(stack') = m + 1 /\ DOMAIN stack' = 1 .. m + 1
      /\ \A i \in 1 .. m : stack'[i] = a[i]
      /\ stack'[m + 1] = Frame(t)
  <2>1. PICK S, f, q : S = Frames /\ f = Frame(t) /\ q = stack'
    OBVIOUS
  <2>2. a \in Seq(S) /\ f \in S /\ q = a \o <<f>>
    BY <1>1, <1>5, <1>6, <1>8, <2>1
  <2>3. /\ q \in Seq(S) /\ Len(q) = Len(a) + 1 /\ DOMAIN q = 1 .. Len(a) + 1
        /\ \A i \in 1 .. Len(a) : q[i] = a[i]
        /\ q[Len(a) + 1] = f
    BY <2>2, PushElement
  <2> QED BY <1>6, <2>1, <2>3
<1>10. /\ m \in Nat \ {0} /\ DOMAIN stack = 1 .. m
       /\ \A i \in 1 .. m : stack'[i].node = stack[i].node
       /\ stack'[m + 1].node = t
  BY <1>4, <1>5, <1>6, <1>8, <1>9
<1>11. Nodes' = Nodes /\ \A s : TauOut(s)' = TauOut(s)
  BY <1>2, SameDiagram
<1>12. /\ \A s \in Nodes : color'[s] = IF s = t THEN "grey" ELSE color[s]
       /\ color' \in [Nodes -> {"white", "grey", "black"}]
  BY <1>1, <1>3, <1>7
<1>13. Black' = Black
  BY <1>1, <1>11, <1>12 DEF Black
<1>14. /\ \A s \in Nodes : color[s] = "grey" <=> \E i \in 1 .. m : stack[i].node = s
       /\ \A i, j \in 1 .. m : stack[i].node = stack[j].node => i = j
       /\ \A i \in 2 .. m :
            /\ stack[i].node \in DOMAIN entryEdge
            /\ entryEdge[stack[i].node] \in TauOut(stack[i - 1].node)
            /\ entryEdge[stack[i].node].dst = stack[i].node
  BY <1>2, <1>5, <1>10 DEF IInv, SearchInv, StackInv
<1>15. \A i \in 1 .. m : stack[i].node # t
  BY <1>1, <1>7, <1>14
<1>16. StackInv'
  <2>1. ASSUME NEW s \in Nodes
        PROVE  color'[s] = "grey" <=> \E i \in DOMAIN stack' : stack'[i].node = s
    <3>1. CASE s = t
      <4>1. m + 1 \in DOMAIN stack' /\ stack'[m + 1].node = s
        BY <1>9, <1>10, <3>1
      <4> QED BY <1>12, <3>1, <4>1
    <3>2. CASE s # t
      <4>1. \A i \in DOMAIN stack' : stack'[i].node = s => i \in 1 .. m /\ stack[i].node = s
        BY <1>9, <1>10, <3>2
      <4>2. \A i \in 1 .. m : i \in DOMAIN stack'
        BY <1>9, <1>10
      <4> QED BY <1>10, <1>12, <1>14, <3>2, <4>1, <4>2
    <3> QED BY <3>1, <3>2
  <2>2. ASSUME NEW i \in DOMAIN stack', NEW j \in DOMAIN stack',
               stack'[i].node = stack'[j].node
        PROVE  i = j
    BY <1>9, <1>10, <1>14, <1>15, <2>2
  <2>3. ASSUME NEW i \in 2 .. m + 1
        PROVE  /\ stack'[i].node \in DOMAIN entryEdge'
               /\ entryEdge'[stack'[i].node] \in TauOut(stack'[i - 1].node)
               /\ entryEdge'[stack'[i].node].dst = stack'[i].node
    <3>1. CASE i = m + 1
      <4>1. i - 1 = m /\ m \in 1 .. m
        BY <1>10, <3>1
      <4>2. stack'[i].node = t /\ stack'[i - 1].node = stack[m].node
        BY <1>10, <3>1, <4>1
      <4> QED BY <1>1, <1>7, <4>2
    <3>2. CASE i # m + 1
      <4>1. i \in 2 .. m /\ i \in 1 .. m /\ i - 1 \in 1 .. m
        BY <1>10, <3>2
      <4>2. stack'[i].node = stack[i].node /\ stack'[i - 1].node = stack[i - 1].node
        BY <1>10, <4>1
      <4> QED BY <1>1, <1>14, <1>15, <4>1, <4>2
    <3> QED BY <3>1, <3>2
  <2> QED BY <1>9, <1>11, <2>1, <2>2, <2>3 DEF StackInv
<1>17. TodoInv'
  <2> SUFFICES ASSUME NEW i \in 1 .. m + 1
               PROVE  /\ stack'[i].todo \subseteq TauOut(stack'[i].node)
                      /\ \A f \in TauOut(stack'[i].node) \ stack'[i].todo :
                           \/ color'[f.dst] = "black"
                           \/ i + 1 \in DOMAIN stack' /\ f.dst = stack'[i + 1].node
    BY <1>9, <1>11 DEF TodoInv
  <2>1. CASE i = m + 1
    BY <1>8, <1>9, <2>1
  <2>2. CASE i \in 1 .. m
    <3>1. /\ stack[i].todo \subseteq TauOut(stack[i].node)
          /\ \A f \in TauOut(stack[i].node) \ stack[i].todo :
               \/ color[f.dst] = "black"
               \/ i + 1 \in 1 .. m /\ f.dst = stack[i + 1].node
      BY <1>2, <1>10, <2>2 DEF IInv, SearchInv, TodoInv
    <3>2. /\ stack'[i].node = stack[i].node /\ stack'[i] = a[i]
          /\ i + 1 \in DOMAIN stack'
      BY <1>9, <1>10, <2>2
    <3>3. \A f \in TauOut(stack[i].node) : color[f.dst] = "black" => color'[f.dst] = "black"
      BY <1>1, <1>3, <1>12
    <3>4. CASE i = m
      <4>1. stack'[i].todo = stack[i].todo \ {e} /\ stack'[i + 1].node = e.dst
        BY <1>1, <1>5, <1>6, <1>10, <3>2, <3>4 DEF Top
      <4>2. i + 1 \notin 1 .. m
        BY <1>10, <3>4
      <4> QED BY <3>1, <3>2, <3>3, <4>1, <4>2
    <3>5. CASE i # m
      <4>1. i \in 1 .. m - 1 /\ i + 1 \in 1 .. m
        BY <1>10, <2>2, <3>5
      <4>2. stack'[i] = stack[i] /\ stack'[i + 1].node = stack[i + 1].node
        BY <1>6, <1>10, <3>2, <4>1
      <4> QED BY <3>1, <3>2, <3>3, <4>2
    <3> QED BY <3>4, <3>5
  <2> QED BY <1>10, <2>1, <2>2
<1>18. BlackInv'
  BY <1>2, <1>11, <1>13 DEF IInv, SearchInv, BlackInv, Escapes
<1>19. RootsInv'
  BY <1>2, <1>11, <1>12 DEF IInv, SearchInv, RootsInv
<1>20. DOMAIN entryEdge' \subseteq Nodes /\ \A s \in DOMAIN entryEdge' : entryEdge'[s] \in d.edges
  BY <1>1, <1>3, <1>7
<1> QED
  BY <1>2, <1>3, <1>9, <1>12, <1>16, <1>17, <1>18, <1>19, <1>20, SearchStep

(* findTauCycle passes to its next root only when the stack is empty, so   *)
(* no state is grey then.                                                  *)
LEMMA NextRootIInv == ASSUME IInv, NextRoot PROVE IInv'
<1>1. PICK root \in roots :
        /\ roots' = roots \ {root}
        /\ \/ /\ color[root] # "white"
              /\ UNCHANGED <<color, stack, entryEdge>>
           \/ /\ color[root] = "white"
              /\ color' = [color EXCEPT ![root] = "grey"]
              /\ stack' = <<Frame(root)>>
              /\ entryEdge' = [s \in {} |-> s]
  BY DEF NextRoot
<1>2. /\ phase = "search" /\ phase' = "search" /\ stack = << >>
      /\ d' = d /\ reachable' = reachable
      /\ UNCHANGED <<reachVars, cycle, stemVars, pathVars>>
  BY DEF NextRoot, reachVars
<1>3. /\ stack \in Seq(Frames) /\ color \in [Nodes -> {"white", "grey", "black"}]
      /\ roots \subseteq Nodes /\ DOMAIN entryEdge \subseteq Nodes
      /\ \A s \in DOMAIN entryEdge : entryEdge[s] \in d.edges
      /\ \A s : TauOut(s) \subseteq d.edges
  BY <1>2, InSearch
<1>4. Nodes' = Nodes /\ \A s : TauOut(s)' = TauOut(s)
  BY <1>2, SameDiagram
<1>5. root \in Nodes /\ roots' \subseteq Nodes
  BY <1>1, <1>3
<1>6. CASE color[root] # "white" /\ UNCHANGED <<color, stack, entryEdge>>
  <2>1. /\ StackInv' /\ TodoInv'
    BY <1>2, <1>4, <1>6 DEF IInv, SearchInv, StackInv, TodoInv
  <2>2. BlackInv'
    <3>1. Black' = Black
      BY <1>4, <1>6 DEF Black
    <3> QED BY <1>2, <1>4, <3>1 DEF IInv, SearchInv, BlackInv, Escapes
  <2>3. RootsInv'
    BY <1>1, <1>2, <1>4, <1>6 DEF IInv, SearchInv, RootsInv
  <2> QED BY <1>2, <1>3, <1>5, <1>6, <2>1, <2>2, <2>3, SearchStep
<1>7. CASE /\ color[root] = "white"
           /\ color' = [color EXCEPT ![root] = "grey"]
           /\ stack' = <<Frame(root)>>
           /\ entryEdge' = [s \in {} |-> s]
  <2>1. Frame(root) \in Frames /\ Frame(root).node = root /\ Frame(root).todo = TauOut(root)
    BY <1>3, <1>5 DEF Frame, Frames
  <2>2. /\ stack' \in Seq(Frames) /\ Len(stack') = 1 /\ DOMAIN stack' = {1}
        /\ stack'[1] = Frame(root)
    BY <1>7, <2>1
  <2>3. /\ \A s \in Nodes : color'[s] = IF s = root THEN "grey" ELSE color[s]
        /\ color' \in [Nodes -> {"white", "grey", "black"}]
    BY <1>3, <1>5, <1>7
  <2>4. \A s \in Nodes : color[s] # "grey"
    BY <1>2 DEF IInv, SearchInv, StackInv
  <2>5. StackInv'
    BY <1>4, <2>1, <2>2, <2>3, <2>4 DEF StackInv
  <2>6. TodoInv'
    BY <1>4, <2>1, <2>2 DEF TodoInv
  <2>7. BlackInv'
    <3>1. Black' = Black
      BY <1>4, <1>7, <2>3 DEF Black
    <3> QED BY <1>2, <1>4, <3>1 DEF IInv, SearchInv, BlackInv, Escapes
  <2>8. RootsInv'
    BY <1>1, <1>2, <1>4, <2>3 DEF IInv, SearchInv, RootsInv
  <2>9. DOMAIN entryEdge' = {}
    BY <1>7
  <2> QED BY <1>2, <1>5, <2>2, <2>3, <2>5, <2>6, <2>7, <2>8, <2>9, SearchStep
<1> QED BY <1>1, <1>6, <1>7

(* No root is left and no state is grey: every source of a tau edge that   *)
(* is reachable is black, and a set that diverges holds only such sources. *)
LEMMA NoCycleIInv == ASSUME IInv, NoCycle PROVE IInv'
<1>1. /\ phase = "search" /\ phase' = "free" /\ stack = << >> /\ roots = {} /\ d' = d
      /\ reachable' = reachable /\ frontier' = frontier /\ roots' = roots
      /\ color' = color /\ stack' = stack /\ entryEdge' = entryEdge
      /\ cycle' = cycle /\ visited' = visited /\ prev' = prev /\ queue' = queue
      /\ scan' = scan /\ cur' = cur /\ stem' = stem
  BY DEF NoCycle, reachVars, searchVars, stemVars, pathVars
<1>2. Nodes' = Nodes /\ Reachable' = Reachable
  BY <1>1, SameDiagram
<1>3. reachable = Reachable
  <2>1. d.start \in reachable /\ ClosedUnderEdges(reachable) /\ reachable \subseteq Reachable
    BY <1>1 DEF IInv, ReachInv, ClosedUnderEdges
  <2>2. reachable \in SUBSET Nodes
    BY DEF IInv, TypeOK
  <2> QED BY <2>1, <2>2, ReachableIsLeast
<1>4. \A s \in Nodes : TauOut(s) # {} => s \in Black
  <2>1. color \in [Nodes -> {"white", "grey", "black"}]
    BY <1>1, InSearch
  <2>2. \A s \in Nodes : color[s] # "grey"
    BY <1>1 DEF IInv, SearchInv, StackInv
  <2>3. \A s \in Nodes : TauOut(s) # {} => color[s] # "white"
    BY <1>1 DEF IInv, SearchInv, RootsInv
  <2> QED BY <2>1, <2>2, <2>3 DEF Black
<1>5. ASSUME NEW S \in SUBSET Nodes, Divergent(S)
      PROVE  FALSE
  <2>1. \A s \in S : \E e \in TauOut(s) : e.dst \in S
    BY <1>3, <1>5 DEF Divergent, TauOut, Outgoing
  <2>2. S \in SUBSET Black /\ S # {}
    BY <1>4, <1>5, <2>1 DEF Divergent
  <2>3. Escapes(S)
    BY <1>1, <2>2 DEF IInv, SearchInv, BlackInv
  <2> QED BY <2>1, <2>3 DEF Escapes
<1>6. \A S \in SUBSET Nodes : ~ Divergent(S)
  BY <1>5
<1>7. \A S : Divergent(S)' = Divergent(S)
  BY <1>1, <1>2 DEF Divergent
<1>8. FreeCannotDiverge'
  BY <1>2, <1>6, <1>7 DEF FreeCannotDiverge
<1>9. TypeOK' /\ ReachInv'
  BY <1>1, <1>2 DEF IInv, TypeOK, ReachInv
<1>10. CycleInv' /\ VisitInv' /\ PathInv'
  BY <1>1 DEF IInv, CycleInv, VisitInv, PathInv
<1>11. SearchInv'
  BY <1>1 DEF SearchInv, StackInv, TodoInv, BlackInv, RootsInv
<1> QED BY <1>8, <1>9, <1>10, <1>11 DEF IInv

(* The edges by which the frames above the one of a grey state were        *)
(* entered, and the back edge to that state, are a closed path of tau      *)
(* edges (reconstructCycle).                                               *)
LEMMA BackEdgeClosesCycle ==
  ASSUME IInv, phase = "search", stack # << >>,
         NEW e \in Firsts(Top.todo), NEW p \in DOMAIN stack, stack[p].node = e.dst,
         NEW c, c = reconstructCycle(p, e)
  PROVE  /\ c \in Seq(d.edges) /\ c # << >> /\ c[1].src = e.dst
         /\ PathFromTo(c, e.dst, e.dst)
         /\ \A i \in DOMAIN c : c[i].event = Tau
<1>1. PICK m, E : m = Len(stack) /\ E = d.edges
  OBVIOUS
<1>2. /\ m \in Nat \ {0} /\ DOMAIN stack = 1 .. m /\ p \in 1 .. m
      /\ \A s \in DOMAIN entryEdge : entryEdge[s] \in E
  BY <1>1, InSearch, PopTop
<1>3. e \in E /\ e \in TauOut(stack[m].node)
  BY <1>1, FollowedEdge DEF Top
<1>4. \A i \in 2 .. m :
        /\ stack[i].node \in DOMAIN entryEdge
        /\ entryEdge[stack[i].node] \in TauOut(stack[i - 1].node)
        /\ entryEdge[stack[i].node].dst = stack[i].node
  BY <1>1 DEF IInv, SearchInv, StackInv
<1>5. PICK b : b = [i \in 1 .. m - p |-> entryEdge[stack[p + i].node]]
  OBVIOUS
<1>6. c = b \o <<e>>
  BY <1>1, <1>5 DEF reconstructCycle
<1>7. \A i \in 1 .. m - p : p + i \in 2 .. m /\ (p + i) - 1 = p + (i - 1)
  BY <1>2
<1>8. \A i \in 1 .. m - p : entryEdge[stack[p + i].node] \in E
  BY <1>2, <1>4, <1>7
<1>9. b \in Seq(E) /\ Len(b) = m - p /\ m - p \in Nat
  BY <1>2, <1>5, <1>8
<1>10. /\ c \in Seq(E) /\ Len(c) = (m - p) + 1 /\ DOMAIN c = 1 .. (m - p) + 1
       /\ \A i \in 1 .. m - p : c[i] = b[i]
       /\ c[(m - p) + 1] = e
  BY <1>3, <1>6, <1>9, PushElement
<1>11. \A i \in 1 .. m - p :
         /\ c[i].src = stack[p + (i - 1)].node
         /\ c[i].dst = stack[p + i].node
         /\ c[i].event = Tau
  <2> SUFFICES ASSUME NEW i \in 1 .. m - p
               PROVE  /\ c[i].src = stack[p + (i - 1)].node
                      /\ c[i].dst = stack[p + i].node
                      /\ c[i].event = Tau
    OBVIOUS
  <2>1. c[i] = entryEdge[stack[p + i].node]
    BY <1>5, <1>10
  <2>2. /\ c[i] \in TauOut(stack[p + (i - 1)].node)
        /\ c[i].dst = stack[p + i].node
    BY <1>4, <1>7, <2>1
  <2> QED BY <2>2 DEF TauOut, Outgoing
<1>12. /\ c[(m - p) + 1].src = stack[p + (m - p)].node
       /\ c[(m - p) + 1].dst = stack[p].node
       /\ c[(m - p) + 1].event = Tau
  <2>1. p + (m - p) = m
    BY <1>2
  <2> QED BY <1>3, <1>10, <2>1 DEF TauOut, Outgoing
<1>13. \A i \in 1 .. (m - p) + 1 : c[i].src = stack[p + (i - 1)].node /\ c[i].event = Tau
  <2> SUFFICES ASSUME NEW i \in 1 .. (m - p) + 1
               PROVE  c[i].src = stack[p + (i - 1)].node /\ c[i].event = Tau
    OBVIOUS
  <2>1. CASE i \in 1 .. m - p
    BY <1>11, <2>1
  <2>2. CASE i = (m - p) + 1
    <3>1. i - 1 = m - p
      BY <1>9, <2>2
    <3> QED BY <1>12, <2>2, <3>1
  <2> QED BY <1>9, <2>1, <2>2
<1>14. \A i \in 1 .. Len(c) - 1 : c[i].dst = c[i + 1].src
  <2> SUFFICES ASSUME NEW i \in 1 .. Len(c) - 1 PROVE c[i].dst = c[i + 1].src
    OBVIOUS
  <2>1. i \in 1 .. m - p /\ i + 1 \in 1 .. (m - p) + 1 /\ (i + 1) - 1 = i
    BY <1>9, <1>10
  <2> QED BY <1>11, <1>13, <2>1
<1>15. c[1].src = stack[p].node
  <2>1. 1 \in 1 .. (m - p) + 1 /\ p + (1 - 1) = p
    BY <1>2, <1>9
  <2> QED BY <1>13, <2>1
<1>16. c # << >> /\ c[Len(c)].dst = stack[p].node
  BY <1>9, <1>10, <1>12
<1>17. \A i \in DOMAIN c : c[i] \in E
  BY <1>10, ElementOfSeq
<1>18. PathFromTo(c, e.dst, e.dst)
  BY <1>1, <1>14, <1>15, <1>16, <1>17 DEF PathFromTo
<1>19. \A i \in DOMAIN c : c[i].event = Tau
  BY <1>10, <1>13
<1> QED BY <1>1, <1>10, <1>15, <1>16, <1>18, <1>19

LEMMA CloseCycleIInv == ASSUME IInv, CloseCycle PROVE IInv'
<1>1. PICK e \in Firsts(Top.todo), p \in DOMAIN stack :
        /\ stack[p].node = e.dst
        /\ cycle' = reconstructCycle(p, e)
        /\ stack' = Advanced(e)
  BY DEF CloseCycle
<1>2. /\ phase = "search" /\ phase' = "stem" /\ stack # << >> /\ d' = d
      /\ visited' = {d.start} /\ queue' = <<d.start>>
      /\ reachable' = reachable /\ frontier' = frontier /\ roots' = roots
      /\ color' = color /\ entryEdge' = entryEdge
      /\ prev' = prev /\ scan' = scan /\ cur' = cur /\ stem' = stem
  BY DEF CloseCycle, reachVars, pathVars
<1>3. /\ stack \in Seq(Frames) /\ stem = << >> /\ scan = {} /\ frontier = {}
  BY <1>2, InSearch
<1>4. Nodes' = Nodes /\ Reachable' = Reachable
      /\ \A q, s, t : PathFromTo(q, s, t)' = PathFromTo(q, s, t)
  BY <1>2, SameDiagram
<1>5. PICK c : c = reconstructCycle(p, e)
  OBVIOUS
<1>6. /\ c \in Seq(d.edges) /\ c # << >> /\ c[1].src = e.dst
      /\ PathFromTo(c, e.dst, e.dst)
      /\ \A i \in DOMAIN c : c[i].event = Tau
  BY <1>1, <1>2, <1>5, BackEdgeClosesCycle
<1>7. cycle' = c
  BY <1>1, <1>5
<1>8. Target' = c[1].src
  BY <1>7 DEF Target
<1>9. CycleInv'
  <2>1. PathFromTo(c, c[1].src, c[1].src)'
    BY <1>4, <1>6
  <2> QED BY <1>6, <1>7, <1>8, <2>1 DEF CycleInv
<1>10. TypeOK'
  <2>1. stack' \in Seq(Frames)
    BY <1>1, <1>2, <1>3, AdvanceTop
  <2>2. d.start \in Nodes
    BY DEF Nodes
  <2>3. DOMAIN prev \subseteq visited'
    BY <1>2 DEF IInv, VisitInv
  <2> QED BY <1>2, <1>4, <1>6, <1>7, <2>1, <2>2, <2>3 DEF IInv, TypeOK, Frames
<1>11. ReachInv' /\ VisitInv' /\ PathInv' /\ FreeCannotDiverge'
  BY <1>2, <1>3, <1>4 DEF IInv, ReachInv, VisitInv, PathInv, FreeCannotDiverge
<1>12. SearchInv'
  BY <1>2 DEF SearchInv, StackInv, TodoInv, BlackInv, RootsInv
<1> QED BY <1>9, <1>10, <1>11, <1>12 DEF IInv

-----------------------------------------------------------------------------
(* A step of stemTo or buildPath: the search is over.                      *)
LEMMA StemStep ==
  ASSUME IInv, phase \in {"stem", "path"}, phase' \in {"stem", "path", "livelock"}, d' = d,
         UNCHANGED <<reachVars, searchVars>>,
         visited' \subseteq Nodes, queue' \in Seq(Nodes), scan' \subseteq d.edges,
         DOMAIN prev' \subseteq visited', \A s \in DOMAIN prev' : prev'[s] \in d.edges,
         cur' \in Nodes, stem' \in Seq(d.edges),
         VisitInv', PathInv'
  PROVE  IInv'
<1>1. /\ reachable' = reachable /\ frontier' = frontier /\ roots' = roots
      /\ color' = color /\ stack' = stack /\ entryEdge' = entryEdge /\ cycle' = cycle
  BY DEF reachVars, searchVars
<1>2. /\ Nodes' = Nodes /\ Reachable' = Reachable /\ Target' = Target
      /\ \A q, s, t : PathFromTo(q, s, t)' = PathFromTo(q, s, t)
  BY <1>1, SameDiagram DEF Target
<1>3. TypeOK' /\ ReachInv'
  BY <1>1, <1>2 DEF IInv, TypeOK, ReachInv
<1>4. CycleInv'
  <2>1. /\ cycle # << >> /\ PathFromTo(cycle, Target, Target)
        /\ \A i \in DOMAIN cycle : cycle[i].event = Tau
    BY DEF IInv, CycleInv
  <2>2. PathFromTo(cycle, cycle[1].src, cycle[1].src)'
    BY <1>1, <2>1 DEF PathFromTo, Target
  <2> QED BY <1>1, <2>1, <2>2 DEF CycleInv, Target
<1>5. SearchInv' /\ FreeCannotDiverge'
  BY DEF SearchInv, StackInv, TodoInv, BlackInv, RootsInv, FreeCannotDiverge
<1> QED BY <1>3, <1>4, <1>5 DEF IInv

(* What a step of stemTo may use.                                          *)
LEMMA InStem ==
  ASSUME IInv, phase \in {"stem", "path"}
  PROVE  /\ visited \subseteq Nodes /\ queue \in Seq(Nodes) /\ scan \subseteq d.edges
         /\ DOMAIN prev \subseteq visited /\ \A s \in DOMAIN prev : prev[s] \in d.edges
         /\ cur \in Nodes /\ stem \in Seq(d.edges)
         /\ \A i \in DOMAIN queue : queue[i] \in visited
         /\ \A e \in scan : e.src \in visited
         /\ \A s \in visited \ {d.start} :
              s \in DOMAIN prev /\ prev[s].dst = s /\ prev[s].src \in visited
         /\ Target \in Nodes
<1>1. cycle # << >> /\ cycle \in Seq(d.edges)
  BY DEF IInv, CycleInv, TypeOK
<1>2. PICK E : E = d.edges
  OBVIOUS
<1>3. cycle[1] \in d.edges
  <2>1. cycle \in Seq(E)
    BY <1>1, <1>2
  <2>2. 1 \in 1 .. Len(cycle)
    BY <1>1, <2>1, EmptySeq
  <2>3. cycle[1] \in E
    BY <2>1, <2>2, ElementOfSeq
  <2> QED BY <1>2, <2>3
<1>4. Target \in Nodes
  BY <1>3, EdgesJoinNodes DEF Target
<1> QED BY <1>4 DEF IInv, TypeOK, VisitInv

LEMMA EmptyStemIInv == ASSUME IInv, EmptyStem PROVE IInv'
<1>1. /\ phase = "stem" /\ phase' = "livelock" /\ d.start = Target /\ d' = d
      /\ cycle' = cycle /\ UNCHANGED <<reachVars, searchVars>>
      /\ visited' = visited /\ prev' = prev /\ queue' = queue /\ scan' = scan
      /\ cur' = cur /\ stem' = stem
  BY DEF EmptyStem, stemVars, pathVars, searchVars
<1>2. stem = << >>
  BY <1>1 DEF IInv, PathInv
<1>3. PathInv'
  <2>1. Target' = Target
    BY <1>1 DEF Target
  <2>2. PathFromTo(stem, d.start, Target)
    BY <1>1, <1>2 DEF PathFromTo
  <2> QED BY <1>1, <1>2, <2>1, <2>2 DEF PathInv, PathFromTo
<1>4. VisitInv'
  BY <1>1 DEF VisitInv
<1> QED BY <1>1, <1>3, <1>4, InStem, StemStep

LEMMA DequeueStateIInv == ASSUME IInv, DequeueState PROVE IInv'
<1>1. /\ phase = "stem" /\ phase' = phase /\ queue # << >> /\ d' = d
      /\ UNCHANGED <<reachVars, searchVars>>
      /\ scan' = Outgoing(Head(queue)) /\ queue' = Tail(queue)
      /\ visited' = visited /\ prev' = prev /\ cur' = cur /\ stem' = stem
  BY DEF DequeueState, pathVars
<1>2. /\ Head(queue) \in visited /\ queue' \in Seq(Nodes)
      /\ \A i \in DOMAIN queue' : queue'[i] \in visited
  <2>1. queue \in Seq(visited)
    <3>1. queue \in Seq(Nodes) /\ \A i \in DOMAIN queue : queue[i] \in visited
      BY <1>1, InStem
    <3> QED BY <3>1, LenProperties
  <2>2. Head(queue) \in visited /\ Tail(queue) \in Seq(visited)
    BY <1>1, <2>1, HeadTailProperties
  <2>3. \A i \in DOMAIN Tail(queue) : Tail(queue)[i] \in visited
    BY <2>2, LenProperties, ElementOfSeq
  <2>4. Tail(queue) \in Seq(Nodes)
    BY <1>1, InStem, HeadTailProperties
  <2> QED BY <1>1, <2>2, <2>3, <2>4
<1>3. scan' \subseteq d.edges /\ \A e \in scan' : e.src \in visited
  BY <1>1, <1>2 DEF Outgoing
<1>4. VisitInv'
  BY <1>1, <1>2, <1>3, InStem DEF VisitInv
<1>5. PathInv'
  BY <1>1 DEF IInv, PathInv
<1> QED BY <1>1, <1>2, <1>3, <1>4, <1>5, InStem, StemStep

LEMMA SkipVisitedIInv == ASSUME IInv, SkipVisited PROVE IInv'
<1>1. /\ phase = "stem" /\ phase' = phase /\ d' = d
      /\ UNCHANGED <<reachVars, searchVars>>
      /\ scan' \subseteq scan /\ queue' = queue
      /\ visited' = visited /\ prev' = prev /\ cur' = cur /\ stem' = stem
  BY DEF SkipVisited, pathVars
<1>2. VisitInv'
  BY <1>1, InStem DEF VisitInv
<1>3. PathInv'
  BY <1>1 DEF IInv, PathInv
<1>4. scan' \subseteq d.edges
  BY <1>1, InStem
<1> QED BY <1>1, <1>2, <1>3, <1>4, InStem, StemStep

LEMMA VisitIInv == ASSUME IInv, Visit PROVE IInv'
<1>1. PICK e, t :
        /\ e \in scan
        /\ t = e.dst /\ t \notin visited
        /\ visited' = visited \cup {t}
        /\ prev' = [s \in DOMAIN prev \cup {t} |-> IF s = t THEN e ELSE prev[s]]
        /\ scan' = scan \ {e}
        /\ \/ phase' = "path" /\ cur' = Target /\ queue' = queue /\ t = Target
           \/ queue' = Append(queue, t) /\ phase' = phase /\ cur' = cur
  BY DEF Visit, Firsts, Enqueue
<1>2. /\ phase = "stem" /\ d' = d /\ UNCHANGED <<reachVars, searchVars>>
      /\ cycle' = cycle /\ stem' = stem
  BY DEF Visit, searchVars
<1>3. /\ visited \subseteq Nodes /\ queue \in Seq(Nodes) /\ scan \subseteq d.edges
      /\ DOMAIN prev \subseteq visited /\ \A s \in DOMAIN prev : prev[s] \in d.edges
      /\ cur \in Nodes /\ stem \in Seq(d.edges) /\ Target \in Nodes
      /\ \A i \in DOMAIN queue : queue[i] \in visited
      /\ \A f \in scan : f.src \in visited
      /\ \A s \in visited \ {d.start} :
           s \in DOMAIN prev /\ prev[s].dst = s /\ prev[s].src \in visited
  BY <1>2, InStem
<1>4. t \in Nodes /\ visited' \subseteq Nodes
  BY <1>1, <1>3, EdgesJoinNodes
<1>5. queue' \in Seq(Nodes) /\ \A i \in DOMAIN queue' : queue'[i] \in visited'
  <2>1. CASE queue' = queue
    BY <1>1, <1>3, <2>1
  <2>2. CASE queue' = Append(queue, t)
    <3>1. queue \in Seq(visited')
      BY <1>1, <1>3, LenProperties
    <3>2. t \in visited'
      BY <1>1
    <3>3. queue' \in Seq(visited')
      BY <2>2, <3>1, <3>2, AppendProperties
    <3>4. queue' \in Seq(Nodes)
      BY <1>3, <1>4, <2>2, AppendProperties
    <3> QED BY <3>3, <3>4, LenProperties, ElementOfSeq
  <2> QED BY <1>1, <2>1, <2>2
<1>6. /\ DOMAIN prev' \subseteq visited' /\ \A s \in DOMAIN prev' : prev'[s] \in d.edges
      /\ \A s \in visited' \ {d.start} :
           s \in DOMAIN prev' /\ prev'[s].dst = s /\ prev'[s].src \in visited'
  BY <1>1, <1>3
<1>7. VisitInv'
  BY <1>1, <1>2, <1>3, <1>5, <1>6 DEF VisitInv
<1>8. PathInv'
  <2>1. Target' = Target /\ stem = << >>
    BY <1>2 DEF Target, IInv, PathInv
  <2>2. CASE phase' = "path" /\ cur' = Target /\ t = Target
    <3>1. cur' \in visited'
      BY <1>1, <2>2
    <3>2. PathFromTo(stem, cur, Target)'
      BY <1>2, <2>1, <2>2 DEF PathFromTo
    <3> QED BY <2>2, <3>1, <3>2 DEF PathInv
  <2>3. CASE phase' = phase
    BY <1>2, <2>1, <2>3 DEF PathInv
  <2> QED BY <1>1, <2>2, <2>3
<1> QED BY <1>1, <1>2, <1>3, <1>4, <1>5, <1>6, <1>7, <1>8, StemStep

LEMMA WalkBackIInv == ASSUME IInv, WalkBack PROVE IInv'
<1>1. PICK e : e = prev[cur]
  OBVIOUS
<1>2. /\ phase = "path" /\ phase' = phase /\ d' = d /\ cur # d.start
      /\ UNCHANGED <<reachVars, searchVars>> /\ cycle' = cycle
      /\ stem' = <<e>> \o stem /\ cur' = e.src
      /\ visited' = visited /\ prev' = prev /\ queue' = queue /\ scan' = scan
  BY <1>1 DEF WalkBack, stemVars, searchVars
<1>3. cur \in visited /\ PathFromTo(stem, cur, Target)
  BY <1>2 DEF IInv, PathInv
<1>4. e \in d.edges /\ e.dst = cur /\ e.src \in visited /\ e.src \in Nodes
  BY <1>1, <1>2, <1>3, InStem
<1>5. stem' \in Seq(d.edges) /\ PathFromTo(stem', e.src, Target)
  <2>1. stem \in Seq(d.edges)
    BY <1>2, InStem
  <2> QED BY <1>2, <1>3, <1>4, <2>1, PrependEdge
<1>6. PathInv'
  <2>1. PathFromTo(stem', cur', Target')
    BY <1>2, <1>5 DEF Target
  <2>2. PathFromTo(stem, cur, Target)'
    BY <1>2, <2>1 DEF PathFromTo
  <2> QED BY <1>2, <1>4, <2>2 DEF PathInv
<1>7. VisitInv'
  BY <1>2, InStem DEF VisitInv
<1> QED BY <1>2, <1>4, <1>5, <1>6, <1>7, InStem, StemStep

LEMMA PathBuiltIInv == ASSUME IInv, PathBuilt PROVE IInv'
<1>1. /\ phase = "path" /\ phase' = "livelock" /\ d' = d /\ cur = d.start
      /\ UNCHANGED <<reachVars, searchVars>> /\ cycle' = cycle
      /\ visited' = visited /\ prev' = prev /\ queue' = queue /\ scan' = scan
      /\ cur' = cur /\ stem' = stem
  BY DEF PathBuilt, stemVars, pathVars, searchVars
<1>2. PathFromTo(stem, d.start, Target)
  BY <1>1 DEF IInv, PathInv
<1>3. PathInv'
  <2>1. PathFromTo(stem, d.start, Target)'
    BY <1>1, <1>2 DEF PathFromTo, Target
  <2> QED BY <1>1, <2>1 DEF PathInv
<1>4. VisitInv'
  BY <1>1 DEF VisitInv
<1> QED BY <1>1, <1>3, <1>4, InStem, StemStep

-----------------------------------------------------------------------------
LEMMA StepIInv == ASSUME IInv, [Next]_vars PROVE IInv'
<1>1. CASE Next
  BY <1>1, ReachStepIInv, StartSearchIInv, NextRootIInv, BlackenIInv, FollowWhiteIInv,
     SkipBlackIInv, CloseCycleIInv, NoCycleIInv, EmptyStemIInv, DequeueStateIInv,
     SkipVisitedIInv, VisitIInv, WalkBackIInv, PathBuiltIInv DEF Next
<1>2. CASE UNCHANGED vars
  <2>1. /\ d' = d /\ phase' = phase /\ reachable' = reachable /\ frontier' = frontier
        /\ roots' = roots /\ color' = color /\ stack' = stack /\ entryEdge' = entryEdge
        /\ cycle' = cycle /\ visited' = visited /\ prev' = prev /\ queue' = queue
        /\ scan' = scan /\ cur' = cur /\ stem' = stem
    BY <1>2 DEF vars, reachVars, searchVars, stemVars, pathVars
  <2>2. /\ Nodes' = Nodes /\ Reachable' = Reachable /\ Target' = Target
        /\ \A s : TauOut(s)' = TauOut(s)
        /\ \A q, s, t : PathFromTo(q, s, t)' = PathFromTo(q, s, t)
    BY <2>1, SameDiagram DEF Target
  <2>3. Black' = Black
    BY <2>1, <2>2 DEF Black
  <2>4. TypeOK' /\ ReachInv' /\ VisitInv'
    BY <2>1, <2>2 DEF IInv, TypeOK, ReachInv, VisitInv
  <2>5. SearchInv'
    <3>1. StackInv' /\ TodoInv' /\ RootsInv'
      BY <2>1, <2>2 DEF IInv, SearchInv, StackInv, TodoInv, RootsInv
    <3>2. BlackInv'
      BY <2>1, <2>2, <2>3 DEF IInv, SearchInv, BlackInv, Escapes
    <3> QED BY <3>1, <3>2 DEF SearchInv
  <2>6. CycleInv' /\ PathInv'
    BY <2>1 DEF IInv, CycleInv, PathInv, PathFromTo, Target
  <2>7. FreeCannotDiverge'
    BY <2>1, <2>2 DEF IInv, FreeCannotDiverge, Divergent
  <2> QED BY <2>4, <2>5, <2>6, <2>7 DEF IInv
<1> QED BY <1>1, <1>2

THEOREM Inductive == Spec => []IInv
<1>1. Init => IInv
  BY InitIInv
<1>2. IInv /\ [Next]_vars => IInv'
  BY StepIInv
<1> QED BY <1>1, <1>2, PTL DEF Spec

(* The variables of CheckLivelockFree stay in their domains.               *)
THEOREM TypeCorrect == Spec => []TypeOK
<1>1. IInv => TypeOK
  BY DEF IInv
<1> QED BY <1>1, Inductive, PTL

(* Soundness: in every diagram, whatever is returned as a witness is a     *)
(* cycle of tau edges with a path from the start state to it               *)
(* (csdf/livelock.go:7-14).                                                *)
THEOREM WitnessIsSound == Spec => []WitnessIsLivelock
<1>1. IInv => WitnessIsLivelock
  BY DEF IInv, CycleInv, PathInv, WitnessIsLivelock
<1> QED BY <1>1, Inductive, PTL

(* Completeness: no diagram that can diverge is reported livelock free     *)
(* (csdf/livelock.go:16-22).                                               *)
THEOREM FreeIsComplete == Spec => []FreeCannotDiverge
<1>1. IInv => FreeCannotDiverge
  BY DEF IInv
<1> QED BY <1>1, Inductive, PTL

-----------------------------------------------------------------------------
(***************************************************************************)
(* The stem is a shortest path.  W[n] is the set of states within distance *)
(* n.  While stemTo runs, there is an n such that what is visited lies     *)
(* between W[n] and W[n + 1]; the queue holds first the states of W[n]     *)
(* whose edges have not been followed, m of them, then all the visited     *)
(* states beyond W[n].                                                     *)
(***************************************************************************)
Successors(S) == {e.dst : e \in {x \in d.edges : x.src \in S}}

Levels(W) == W[0] = {d.start} /\ \A n \in Nat : W[n + 1] = W[n] \cup Successors(W[n])

AtDistance(W, s, n) == s \in W[n] /\ (n # 0 => s \notin W[n - 1])

Breadth(W, n, m) ==
  /\ W[n] \subseteq visited /\ visited \subseteq W[n + 1]
  /\ \A i \in 1 .. m : queue[i] \in W[n]
  /\ \A s \in visited \ W[n] : \E i \in m + 1 .. Len(queue) : queue[i] = s
  /\ \A e \in scan : e.src \in W[n]
  /\ \A e \in d.edges : e.src \in W[n] =>
       e \in scan \/ e.dst \in visited \/ \E i \in 1 .. m : queue[i] = e.src

DistanceInv(W) ==
  /\ phase = "stem" => \E n \in Nat : \E m \in 0 .. Len(queue) : Breadth(W, n, m)
  /\ \A s \in DOMAIN prev : \E n \in Nat : AtDistance(W, s, n + 1) /\ prev[s].src \in W[n]
  /\ phase = "path" =>
       \E n \in Nat : AtDistance(W, cur, n) /\ AtDistance(W, Target, n + Len(stem))
  /\ phase = "livelock" /\ stem # << >> => AtDistance(W, Target, Len(stem))

LEMMA NextLevel ==
  ASSUME NEW W, Levels(W), NEW k \in Nat \ {0}
  PROVE  W[k] = W[k - 1] \cup Successors(W[k - 1])
<1>1. k - 1 \in Nat /\ (k - 1) + 1 = k
  OBVIOUS
<1> QED BY <1>1 DEF Levels

LEMMA LevelsGrow ==
  ASSUME NEW W, Levels(W), NEW j \in Nat, NEW k \in Nat, j <= k
  PROVE  W[j] \subseteq W[k]
<1> DEFINE T == {i \in Nat : W[j] \subseteq W[j + i]}
<1>1. 0 \in T
  OBVIOUS
<1>2. ASSUME NEW i \in Nat, i \in T PROVE i + 1 \in T
  <2>1. j + i \in Nat /\ j + (i + 1) = (j + i) + 1
    OBVIOUS
  <2> QED BY <1>2, <2>1 DEF Levels
<1> HIDE DEF T
<1>3. k - j \in T
  BY <1>1, <1>2, Induction
<1>4. j + (k - j) = k
  OBVIOUS
<1> QED BY <1>3, <1>4 DEF T

(* A state has one distance.                                               *)
LEMMA OneDistance ==
  ASSUME NEW W, Levels(W), NEW s, NEW j \in Nat, NEW k \in Nat,
         AtDistance(W, s, j), AtDistance(W, s, k)
  PROVE  j = k
<1>1. ASSUME NEW i \in Nat, NEW l \in Nat, i < l, AtDistance(W, s, i), AtDistance(W, s, l)
      PROVE  FALSE
  <2>1. l - 1 \in Nat /\ i <= l - 1
    BY <1>1
  <2> QED BY <1>1, <2>1, LevelsGrow DEF AtDistance
<1> QED BY <1>1

(* The levels are those of StatesWithin.                                   *)
LEMMA LevelsAreStatesWithin ==
  \E W : Levels(W) /\ \A n \in Nat : StatesWithin[n] = W[n]
<1> DEFINE X == SUBSET Nodes
           G == [n \in Nat \ {0} |-> [S \in X |-> S \cup Successors(S)]]
           Is(f) == f = [n \in Nat |->
                      IF n = 0 THEN {d.start}
                      ELSE LET nearer == f[n - 1]
                           IN  nearer \cup {e.dst : e \in {x \in d.edges : x.src \in nearer}}]
<1>1. {d.start} \in X /\ \A S \in X : S \cup Successors(S) \in X
  BY DEF Nodes, Successors
<1>2. G \in [Nat \ {0} -> [X -> X]]
  BY <1>1
<1>3. \A n \in Nat \ {0}, S \in X : G[n][S] = S \cup Successors(S)
  OBVIOUS
<1> HIDE DEF G, X
<1>4. PICK f : IteratesOnNat(f, X, {d.start}, G)
  BY <1>1, <1>2, IterationOnNat
<1>5. \A n \in Nat \ {0} : f[n] = f[n - 1] \cup Successors(f[n - 1])
  BY <1>3, <1>4 DEF IteratesOnNat
<1>6. Is(f)
  BY <1>4, <1>5 DEF Successors, IteratesOnNat
<1>7. Is(StatesWithin)
  BY <1>6 DEF StatesWithin
<1>8. /\ StatesWithin[0] = {d.start}
      /\ \A n \in Nat : StatesWithin[n + 1] = StatesWithin[n] \cup Successors(StatesWithin[n])
  <2>1. \A n \in Nat : n + 1 \in Nat /\ n + 1 # 0 /\ (n + 1) - 1 = n
    OBVIOUS
  <2> QED BY <1>7, <2>1 DEF Successors
<1>9. Levels(StatesWithin)
  BY <1>8 DEF Levels
<1> QED BY <1>9

LEMMA SameLevels ==
  ASSUME NEW W, Levels(W), d' = d
  PROVE  Levels(W)' /\ \A S : Successors(S)' = Successors(S)
BY DEF Levels, Successors

(* The loops before stemTo, and a step in which nothing happens.           *)
LEMMA BeforeStemDistance ==
  ASSUME NEW W, DistanceInv(W), UNCHANGED prev, phase' \in {"reach", "search", "free"}
  PROVE  DistanceInv(W)'
BY DEF DistanceInv, AtDistance

LEMMA CloseCycleDistance ==
  ASSUME NEW W, Levels(W), IInv, CloseCycle
  PROVE  DistanceInv(W)'
<1>1. /\ phase' = "stem" /\ visited' = {d.start} /\ queue' = <<d.start>> /\ d' = d
      /\ scan' = {} /\ DOMAIN prev' = {}
  BY DEF CloseCycle, IInv, VisitInv
<1>2. Len(queue') = 1 /\ queue'[1] = d.start
  BY <1>1
<1>3. W[0] = {d.start} /\ W[0] \subseteq W[0 + 1]
  BY DEF Levels
<1>4. Breadth(W, 0, 1)'
  BY <1>1, <1>2, <1>3 DEF Breadth
<1> QED BY <1>1, <1>2, <1>4 DEF DistanceInv

LEMMA EmptyStemDistance ==
  ASSUME NEW W, IInv, DistanceInv(W), EmptyStem
  PROVE  DistanceInv(W)'
<1>1. stem' = << >> /\ prev' = prev /\ phase' = "livelock"
  BY DEF EmptyStem, stemVars, pathVars, IInv, PathInv
<1> QED BY <1>1 DEF DistanceInv, AtDistance

(* With m = 0 a level is done, and the visited states are the next one.    *)
LEMMA DequeueStateDistance ==
  ASSUME NEW W, Levels(W), IInv, DistanceInv(W), DequeueState
  PROVE  DistanceInv(W)'
<1>1. /\ phase = "stem" /\ phase' = phase /\ queue # << >> /\ d' = d /\ scan = {}
      /\ scan' = {e \in d.edges : e.src = Head(queue)} /\ queue' = Tail(queue)
      /\ visited' = visited /\ prev' = prev /\ cur' = cur /\ stem' = stem
  BY DEF DequeueState, pathVars, Outgoing
<1>2. PICK n \in Nat : \E m \in 0 .. Len(queue) : Breadth(W, n, m)
  BY <1>1 DEF DistanceInv
<1>3. PICK m \in 0 .. Len(queue) : Breadth(W, n, m)
  BY <1>2
<1>4. /\ Len(queue) \in Nat \ {0} /\ Len(queue') = Len(queue) - 1
      /\ \A i \in 1 .. Len(queue) - 1 : queue'[i] = queue[i + 1]
      /\ Head(queue) = queue[1]
      /\ \A i \in DOMAIN queue : queue[i] \in visited
  BY <1>1, InStem
<1>5. CASE m # 0
  <2>1. m - 1 \in 0 .. Len(queue')
    BY <1>4, <1>5
  <2>2. \A i \in 1 .. m - 1 : queue'[i] \in W[n]
    BY <1>3, <1>4 DEF Breadth
  <2>3. ASSUME NEW s \in visited \ W[n] PROVE \E i \in (m - 1) + 1 .. Len(queue') : queue'[i] = s
    <3>1. PICK i \in m + 1 .. Len(queue) : queue[i] = s
      BY <1>3 DEF Breadth
    <3>2. i - 1 \in (m - 1) + 1 .. Len(queue') /\ queue'[i - 1] = s
      BY <1>4, <1>5, <3>1
    <3> QED BY <3>2
  <2>4. queue[1] \in W[n]
    BY <1>3, <1>5 DEF Breadth
  <2>5. ASSUME NEW e \in d.edges, e.src \in W[n]
        PROVE  e \in scan' \/ e.dst \in visited \/ \E i \in 1 .. m - 1 : queue'[i] = e.src
    <3>1. CASE e.src = queue[1]
      BY <1>1, <1>4, <3>1
    <3>2. ASSUME NEW i \in 1 .. m, queue[i] = e.src, e.src # queue[1]
          PROVE  \E j \in 1 .. m - 1 : queue'[j] = e.src
      <4>1. i - 1 \in 1 .. m - 1 /\ queue'[i - 1] = e.src
        BY <1>4, <3>2
      <4> QED BY <4>1
    <3> QED BY <1>1, <1>3, <2>5, <3>1, <3>2 DEF Breadth
  <2>6. Breadth(W, n, m - 1)'
    BY <1>1, <1>3, <1>4, <2>2, <2>3, <2>4, <2>5 DEF Breadth
  <2> QED BY <1>1, <2>1, <2>6 DEF DistanceInv
<1>6. CASE m = 0
  <2>1. W[n + 1] = visited
    <3>1. Successors(W[n]) \subseteq visited
      BY <1>1, <1>3, <1>6 DEF Breadth, Successors
    <3> QED BY <1>3, <3>1 DEF Breadth, Levels
  <2>2. visited \subseteq W[(n + 1) + 1] /\ W[n] \subseteq W[n + 1]
    <3>1. n + 1 \in Nat
      OBVIOUS
    <3>2. \A k \in Nat : W[k] \subseteq W[k + 1]
      BY DEF Levels
    <3> QED BY <2>1, <3>1, <3>2
  <2>3. ASSUME NEW e \in d.edges, e.src \in W[n + 1]
        PROVE  e \in scan' \/ e.dst \in visited \/ \E i \in 1 .. Len(queue') : queue'[i] = e.src
    <3>1. CASE e.src \in W[n]
      <4>1. e.dst \in Successors(W[n])
        BY <3>1 DEF Successors
      <4> QED BY <2>1, <4>1 DEF Levels
    <3>2. CASE e.src \notin W[n]
      <4>1. PICK i \in 1 .. Len(queue) : queue[i] = e.src
        BY <1>3, <1>6, <2>1, <2>3, <3>2 DEF Breadth
      <4>2. CASE i = 1
        BY <1>1, <1>4, <4>1, <4>2
      <4>3. CASE i # 1
        <5>1. i - 1 \in 1 .. Len(queue') /\ queue'[i - 1] = e.src
          BY <1>4, <4>1, <4>3
        <5> QED BY <5>1
      <4> QED BY <4>2, <4>3
    <3> QED BY <3>1, <3>2
  <2>4. \A i \in 1 .. Len(queue') : queue'[i] \in W[n + 1]
    BY <1>4, <2>1
  <2>5. queue[1] \in W[n + 1]
    BY <1>4, <2>1
  <2>6. n + 1 \in Nat /\ Len(queue') \in 0 .. Len(queue')
    BY <1>4
  <2>7. (\E k \in Nat : \E l \in 0 .. Len(queue) : Breadth(W, k, l))'
    <3>1. \A l : l = Len(queue') => Breadth(W, n + 1, l)'
      BY <1>1, <1>4, <2>1, <2>2, <2>3, <2>4, <2>5 DEF Breadth
    <3> QED BY <2>6, <3>1
  <2> QED BY <1>1, <2>7 DEF DistanceInv, AtDistance
<1> QED BY <1>5, <1>6

LEMMA SkipVisitedDistance ==
  ASSUME NEW W, IInv, DistanceInv(W), SkipVisited
  PROVE  DistanceInv(W)'
<1>1. PICK e \in scan : e.dst \in visited /\ scan' = scan \ {e}
  BY DEF SkipVisited, Firsts
<1>2. /\ phase = "stem" /\ phase' = phase /\ d' = d /\ queue' = queue
      /\ visited' = visited /\ prev' = prev
  BY DEF SkipVisited
<1>3. PICK n \in Nat : \E m \in 0 .. Len(queue) : Breadth(W, n, m)
  BY <1>2 DEF DistanceInv
<1>4. PICK m \in 0 .. Len(queue) : Breadth(W, n, m)
  BY <1>3
<1>5. Breadth(W, n, m)'
  BY <1>1, <1>2, <1>4 DEF Breadth
<1> QED BY <1>2, <1>5 DEF DistanceInv, AtDistance

LEMMA VisitDistance ==
  ASSUME NEW W, Levels(W), IInv, DistanceInv(W), Visit
  PROVE  DistanceInv(W)'
<1>1. PICK e, t :
        /\ e \in scan
        /\ t = e.dst /\ t \notin visited
        /\ visited' = visited \cup {t}
        /\ prev' = [s \in DOMAIN prev \cup {t} |-> IF s = t THEN e ELSE prev[s]]
        /\ scan' = scan \ {e}
        /\ \/ phase' = "path" /\ cur' = Target /\ queue' = queue /\ t = Target
           \/ queue' = Append(queue, t) /\ phase' = phase /\ cur' = cur
  BY DEF Visit, Firsts, Enqueue
<1>2. /\ phase = "stem" /\ d' = d /\ cycle' = cycle /\ stem' = stem /\ stem = << >>
  BY DEF Visit, searchVars, IInv, PathInv
<1>3. PICK n \in Nat : \E m \in 0 .. Len(queue) : Breadth(W, n, m)
  BY <1>2 DEF DistanceInv
<1>4. PICK m \in 0 .. Len(queue) : Breadth(W, n, m)
  BY <1>3
<1>5. e \in d.edges /\ e.src \in W[n] /\ t \in W[n + 1] /\ t \notin W[n]
  <2>1. e \in d.edges
    BY <1>1, <1>2, InStem
  <2>2. e.src \in W[n] /\ t \notin W[n]
    BY <1>1, <1>4 DEF Breadth
  <2>3. t \in Successors(W[n])
    BY <1>1, <2>1, <2>2 DEF Successors
  <2> QED BY <2>1, <2>2, <2>3 DEF Levels
<1>6. AtDistance(W, t, n + 1)
  BY <1>5 DEF AtDistance
<1>7. \A s \in DOMAIN prev' : \E k \in Nat : AtDistance(W, s, k + 1) /\ prev'[s].src \in W[k]
  <2> SUFFICES ASSUME NEW s \in DOMAIN prev'
               PROVE  \E k \in Nat : AtDistance(W, s, k + 1) /\ prev'[s].src \in W[k]
    OBVIOUS
  <2>1. CASE s = t
    BY <1>1, <1>5, <1>6, <2>1
  <2>2. CASE s # t
    BY <1>1, <2>2 DEF DistanceInv
  <2> QED BY <2>1, <2>2
<1>8. CASE phase' = "path" /\ cur' = Target /\ t = Target
  <2>1. Target' = t /\ cur' = t /\ (n + 1) + Len(stem') = n + 1 /\ n + 1 \in Nat
    BY <1>2, <1>8 DEF Target
  <2>2. \E k \in Nat : AtDistance(W, cur', k) /\ AtDistance(W, Target', k + Len(stem'))
    BY <1>6, <2>1
  <2>3. (\E k \in Nat : AtDistance(W, cur, k) /\ AtDistance(W, Target, k + Len(stem)))'
    BY <2>2 DEF AtDistance
  <2> QED BY <1>7, <1>8, <2>3 DEF DistanceInv, AtDistance
<1>9. CASE queue' = Append(queue, t) /\ phase' = phase
  <2>1. /\ Len(queue) \in Nat /\ Len(queue') = Len(queue) + 1 /\ queue'[Len(queue) + 1] = t
        /\ \A i \in 1 .. Len(queue) : queue'[i] = queue[i]
    BY <1>2, <1>9, InStem
  <2>2. m \in 0 .. Len(queue')
    BY <2>1
  <2>3. \A i \in 1 .. m : queue'[i] = queue[i]
    BY <2>1
  <2>4. ASSUME NEW s \in visited' \ W[n] PROVE \E i \in m + 1 .. Len(queue') : queue'[i] = s
    <3>1. CASE s = t
      <4>1. Len(queue) + 1 \in m + 1 .. Len(queue')
        BY <2>1
      <4> QED BY <2>1, <3>1, <4>1
    <3>2. CASE s # t
      <4>1. PICK i \in m + 1 .. Len(queue) : queue[i] = s
        BY <1>1, <1>4, <3>2 DEF Breadth
      <4>2. i \in m + 1 .. Len(queue') /\ queue'[i] = s
        BY <2>1, <4>1
      <4> QED BY <4>2
    <3> QED BY <3>1, <3>2
  <2>5. Breadth(W, n, m)'
    BY <1>1, <1>2, <1>4, <1>5, <2>3, <2>4 DEF Breadth
  <2> QED BY <1>2, <1>7, <1>9, <2>2, <2>5 DEF DistanceInv, AtDistance
<1> QED BY <1>1, <1>8, <1>9

(* Walking back takes one from the distance and adds one to the stem.      *)
LEMMA WalkBackDistance ==
  ASSUME NEW W, Levels(W), IInv, DistanceInv(W), WalkBack
  PROVE  DistanceInv(W)'
<1>1. /\ phase = "path" /\ phase' = phase /\ d' = d /\ cur # d.start /\ cycle' = cycle
      /\ stem' = <<prev[cur]>> \o stem /\ cur' = prev[cur].src /\ prev' = prev
  BY DEF WalkBack, stemVars, searchVars
<1>2. PICK k \in Nat : AtDistance(W, cur, k) /\ AtDistance(W, Target, k + Len(stem))
  BY <1>1 DEF DistanceInv
<1>3. cur \in DOMAIN prev /\ prev[cur] \in d.edges /\ prev[cur].dst = cur /\ stem \in Seq(d.edges)
  BY <1>1, InStem DEF IInv, PathInv
<1>4. PICK n \in Nat : AtDistance(W, cur, n + 1) /\ prev[cur].src \in W[n]
  BY <1>3 DEF DistanceInv
<1>5. k = n + 1
  BY <1>2, <1>4, OneDistance
<1>6. AtDistance(W, prev[cur].src, n)
  <2>1. ASSUME n # 0, prev[cur].src \in W[n - 1] PROVE FALSE
    <3>1. n - 1 \in Nat /\ (n - 1) + 1 = n
      BY <2>1
    <3>2. cur \in Successors(W[n - 1])
      BY <1>3, <2>1 DEF Successors
    <3>3. cur \in W[n]
      BY <3>1, <3>2 DEF Levels
    <3> QED BY <1>4, <3>3 DEF AtDistance
  <2> QED BY <1>4, <2>1 DEF AtDistance
<1>7. Len(stem') = Len(stem) + 1 /\ Len(stem) \in Nat
  BY <1>1, <1>3
<1>8. n + Len(stem') = k + Len(stem)
  BY <1>5, <1>7
<1>9. Target' = Target
  BY <1>1 DEF Target
<1>10. (\E j \in Nat : AtDistance(W, cur, j) /\ AtDistance(W, Target, j + Len(stem)))'
  <2>1. \E j \in Nat : AtDistance(W, cur', j) /\ AtDistance(W, Target', j + Len(stem'))
    BY <1>1, <1>2, <1>6, <1>8, <1>9
  <2> QED BY <2>1 DEF AtDistance
<1> QED BY <1>1, <1>10 DEF DistanceInv, AtDistance

LEMMA PathBuiltDistance ==
  ASSUME NEW W, Levels(W), IInv, DistanceInv(W), PathBuilt
  PROVE  DistanceInv(W)'
<1>1. /\ phase = "path" /\ phase' = "livelock" /\ cur = d.start /\ cycle' = cycle
      /\ stem' = stem /\ prev' = prev
  BY DEF PathBuilt, stemVars, pathVars, searchVars
<1>2. PICK k \in Nat : AtDistance(W, cur, k) /\ AtDistance(W, Target, k + Len(stem))
  BY <1>1 DEF DistanceInv
<1>3. AtDistance(W, cur, 0)
  BY <1>1 DEF AtDistance, Levels
<1>4. k = 0
  BY <1>2, <1>3, OneDistance
<1>5. Len(stem) \in Nat
  BY <1>1, InStem
<1>6. AtDistance(W, Target, Len(stem))'
  BY <1>1, <1>2, <1>4, <1>5 DEF AtDistance, Target
<1> QED BY <1>1, <1>6 DEF DistanceInv, AtDistance

LEMMA StepDistance ==
  ASSUME NEW W, Levels(W), IInv, DistanceInv(W), [Next]_vars
  PROVE  Levels(W)' /\ DistanceInv(W)'
<1>1. d' = d
  BY DEF Next, ReachStep, StartSearch, NextRoot, Blacken, FollowWhite, SkipBlack, CloseCycle,
         NoCycle, EmptyStem, DequeueState, SkipVisited, Visit, WalkBack, PathBuilt, vars
<1>2. Levels(W)'
  BY <1>1, SameLevels
<1>3. CASE ReachStep \/ StartSearch \/ NextRoot \/ Blacken \/ FollowWhite \/ SkipBlack \/ NoCycle
  <2>1. UNCHANGED prev
    BY <1>3 DEF ReachStep, StartSearch, NextRoot, Blacken, FollowWhite, SkipBlack, NoCycle, stemVars
  <2>2. phase' \in {"reach", "search", "free"}
    BY <1>3 DEF ReachStep, StartSearch, NextRoot, Blacken, FollowWhite, SkipBlack, NoCycle
  <2> QED BY <1>2, <2>1, <2>2, BeforeStemDistance
<1>4. CASE UNCHANGED vars
  <2>1. /\ d' = d /\ phase' = phase /\ cycle' = cycle /\ visited' = visited /\ prev' = prev
        /\ queue' = queue /\ scan' = scan /\ cur' = cur /\ stem' = stem
    BY <1>4 DEF vars, searchVars, stemVars, pathVars
  <2>2. \A n, m : Breadth(W, n, m)' = Breadth(W, n, m)
    BY <2>1 DEF Breadth
  <2>3. /\ \A s, n : AtDistance(W, s, n)' = AtDistance(W, s, n)
        /\ \A n : AtDistance(W, cur, n)' = AtDistance(W, cur, n)
        /\ \A n : AtDistance(W, Target, n + Len(stem))' = AtDistance(W, Target, n + Len(stem))
        /\ AtDistance(W, Target, Len(stem))' = AtDistance(W, Target, Len(stem))
    BY <2>1 DEF AtDistance, Target
  <2>4. DistanceInv(W)'
    BY <2>1, <2>2, <2>3 DEF DistanceInv
  <2> QED BY <1>2, <2>4
<1> QED
  BY <1>2, <1>3, <1>4, CloseCycleDistance, EmptyStemDistance, DequeueStateDistance,
     SkipVisitedDistance, VisitDistance, WalkBackDistance, PathBuiltDistance DEF Next

(* The stem of a witness is a shortest path to its cycle's entry: no path  *)
(* from the start state is shorter, although the search stops at the first *)
(* edge that enters the target (stemTo, buildPath).                        *)
THEOREM StemIsMinimal == Spec => []StemIsShortest
<1> DEFINE Minimal == \E W : Levels(W) /\ DistanceInv(W)
<1>1. Init => Minimal
  <2> SUFFICES ASSUME Init PROVE Minimal
    OBVIOUS
  <2>1. PICK W : Levels(W)
    BY LevelsAreStatesWithin
  <2>2. DistanceInv(W)
    BY DEF Init, DistanceInv
  <2> QED BY <2>1, <2>2
<1>2. Minimal /\ IInv /\ [Next]_vars => Minimal'
  BY StepDistance
<1>3. Minimal /\ IInv => StemIsShortest
  <2> SUFFICES ASSUME Minimal, IInv, phase = "livelock", stem # << >>
               PROVE  Target \notin StatesWithin[Len(stem) - 1]
    BY DEF StemIsShortest
  <2>1. PICK W : Levels(W) /\ DistanceInv(W)
    OBVIOUS
  <2>2. PICK V : Levels(V) /\ \A n \in Nat : StatesWithin[n] = V[n]
    BY LevelsAreStatesWithin
  <2>3. Len(stem) \in Nat /\ Len(stem) # 0 /\ Len(stem) - 1 \in Nat
    BY DEF IInv, TypeOK
  <2>4. ASSUME NEW k \in 1 .. Len(stem) - 1, V[k - 1] = W[k - 1] PROVE V[k] = W[k]
    <3>1. k \in Nat \ {0}
      BY <2>3
    <3>2. V[k] = V[k - 1] \cup Successors(V[k - 1])
      BY <2>2, <3>1, NextLevel
    <3>3. W[k] = W[k - 1] \cup Successors(W[k - 1])
      BY <2>1, <3>1, NextLevel
    <3> QED BY ONLY <2>4, <3>2, <3>3
  <2>5. V[Len(stem) - 1] = W[Len(stem) - 1]
    <3>1. V[0] = W[0]
      BY <2>1, <2>2 DEF Levels
    <3>2. StayEqual(V, W, Len(stem) - 1)
      BY <2>4, <3>1 DEF StayEqual
    <3>3. AreEqual(V, W, Len(stem) - 1)
      BY <2>3, <3>2, SameIteration
    <3>4. Len(stem) - 1 \in 0 .. Len(stem) - 1
      BY <2>3
    <3> QED BY <3>3, <3>4 DEF AreEqual
  <2>6. Target \notin W[Len(stem) - 1]
    BY <2>1, <2>3 DEF DistanceInv, AtDistance
  <2> QED BY <2>2, <2>3, <2>5, <2>6
<1> HIDE DEF Minimal
<1> QED BY <1>1, <1>2, <1>3, Inductive, PTL DEF Spec

=============================================================================
