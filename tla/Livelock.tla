------------------------------ MODULE Livelock ------------------------------
(***************************************************************************)
(* csdf/livelock.go: CheckLivelockFree looks for a cycle of tau edges that *)
(* can be reached from the start state and returns a witness of one: a     *)
(* stem and a cycle.  Four loops run one after the other, each a phase     *)
(* here: reachableStates, the depth-first search of findTauCycle and       *)
(* dfsTauCycle, the breadth-first search of stemTo, and buildPath.         *)
(*                                                                         *)
(* State ids, events and predicates matter here by their order only, so    *)
(* they are naturals in the order of the strings they stand for.           *)
(***************************************************************************)
EXTENDS Naturals, Sequences, FiniteSets

CONSTANTS
  Tau,      \* the silent event
  Diagrams  \* records [start : a state id, edges : a set of edges]

(* The label of an edge stands for its guard and its post.                 *)
Edge == [src : Nat, event : Nat, dst : Nat, label : Nat]

ASSUME DiagramsAssumption ==
  /\ Tau \in Nat
  /\ \A d \in Diagrams : d.start \in Nat /\ d.edges \in SUBSET Edge

VARIABLES
  d,          \* the diagram being checked
  phase,      \* "reach", "search", "stem", "path", "free" or "livelock"
  reachable,  \* states met by reachableStates
  frontier,   \* its queue
  roots,      \* states findTauCycle has still to try as roots
  color,      \* colour of every state
  stack,      \* depth-first search: frames [node, todo], todo the edges from idx on
  entryEdge,  \* edge by which a state on the stack was entered
  cycle,      \* the cycle found
  visited, prev, queue, scan,  \* stemTo; scan: edges of the dequeued state left
  cur, stem                    \* buildPath

reachVars  == <<reachable, frontier>>
searchVars == <<roots, color, stack, entryEdge, cycle>>
stemVars   == <<visited, prev, queue, scan>>
pathVars   == <<cur, stem>>

vars == <<d, phase, reachVars, searchVars, stemVars, pathVars>>

-----------------------------------------------------------------------------
(* CompareEdge (csdf/ast.go), the canonical order of edges.                *)
Before(a, b) ==
  \/ a.src < b.src
  \/ a.src = b.src /\ a.event < b.event
  \/ a.src = b.src /\ a.event = b.event /\ a.dst < b.dst
  \/ a.src = b.src /\ a.event = b.event /\ a.dst = b.dst /\ a.label < b.label

(* The edges that come first in a set of them.                             *)
Firsts(E) == {e \in E : \A f \in E \ {e} : Before(e, f)}

Outgoing(s) == {e \in d.edges : e.src = s}

(* tauOut[s]: an index restricted to the reachable sources.                *)
TauOut(s) == {e \in Outgoing(s) : e.event = Tau /\ s \in reachable}

Nodes == {d.start} \cup {e.src : e \in d.edges} \cup {e.dst : e \in d.edges}

Init ==
  /\ d \in Diagrams
  /\ phase = "reach"
  /\ reachable = {d.start} /\ frontier = {d.start}
  /\ roots = {} /\ color = [s \in Nodes |-> "white"]
  /\ stack = << >> /\ entryEdge = [s \in {} |-> s] /\ cycle = << >>
  /\ visited = {} /\ prev = [s \in {} |-> s] /\ queue = << >> /\ scan = {}
  /\ cur = d.start /\ stem = << >>

(***************************************************************************)
(* reachableStates.  The set it returns does not depend on the order of    *)
(* its queue, so an iteration takes any state of it.                       *)
(***************************************************************************)
(* Faulty variants: a target is queued but not recorded; only tau edges    *)
(* are followed.                                                           *)
ReachStep_Unrecorded ==
  /\ phase = "reach"
  /\ \E s \in frontier :
       frontier' = (frontier \ {s}) \cup ({e.dst : e \in Outgoing(s)} \ reachable)
  /\ UNCHANGED <<d, phase, reachable, searchVars, stemVars, pathVars>>

ReachStep_TauOnly ==
  /\ phase = "reach"
  /\ \E s \in frontier :
       LET new == {e.dst : e \in {x \in Outgoing(s) : x.event = Tau}} \ reachable
       IN  /\ reachable' = reachable \cup new
           /\ frontier' = (frontier \ {s}) \cup new
  /\ UNCHANGED <<d, phase, searchVars, stemVars, pathVars>>

ReachStep ==
  /\ phase = "reach"
  /\ \E s \in frontier :
       LET new == {e.dst : e \in Outgoing(s)} \ reachable
       IN  /\ reachable' = reachable \cup new
           /\ frontier' = (frontier \ {s}) \cup new
  /\ UNCHANGED <<d, phase, searchVars, stemVars, pathVars>>

(* The tau index is built and findTauCycle starts.                         *)
StartSearch ==
  /\ phase = "reach" /\ frontier = {}
  /\ roots' = {e.src : e \in {x \in d.edges : x.event = Tau /\ x.src \in reachable}}
  /\ phase' = "search"
  /\ UNCHANGED <<d, reachVars, color, stack, entryEdge, cycle, stemVars, pathVars>>

-----------------------------------------------------------------------------
Frame(s) == [node |-> s, todo |-> TauOut(s)]

Top == stack[Len(stack)]

Below == SubSeq(stack, 1, Len(stack) - 1)

(* The next root of findTauCycle in order of ids, unless it is coloured.   *)
NextRoot ==
  /\ phase = "search" /\ stack = << >>
  /\ \E root \in roots :
       /\ \A s \in roots : root <= s
       /\ roots' = roots \ {root}
       /\ \/ /\ color[root] # "white"
             /\ UNCHANGED <<color, stack, entryEdge>>
          \/ /\ color[root] = "white"
             /\ color' = [color EXCEPT ![root] = "grey"]
             /\ stack' = <<Frame(root)>>
             /\ entryEdge' = [s \in {} |-> s]
  /\ UNCHANGED <<d, phase, reachVars, cycle, stemVars, pathVars>>

(* All edges of the top node have been followed.                           *)
Blacken ==
  /\ phase = "search" /\ stack # << >>
  /\ Top.todo = {}
  /\ color' = [color EXCEPT ![Top.node] = "black"]
  /\ stack' = Below
  /\ UNCHANGED <<d, phase, reachVars, roots, entryEdge, cycle, stemVars, pathVars>>

(* Faulty variant: the index of the frame is not advanced.                 *)
Advanced_Not(e) == stack

(* stack[i].idx++                                                          *)
Advanced(e) == Below \o <<[Top EXCEPT !.todo = @ \ {e}]>>

FollowWhite ==
  /\ phase = "search" /\ stack # << >>
  /\ \E e \in Firsts(Top.todo) :
       /\ color[e.dst] = "white"
       /\ color' = [color EXCEPT ![e.dst] = "grey"]
       /\ entryEdge' = [s \in DOMAIN entryEdge \cup {e.dst} |->
                          IF s = e.dst THEN e ELSE entryEdge[s]]
       /\ stack' = Advanced(e) \o <<Frame(e.dst)>>
  /\ UNCHANGED <<d, phase, reachVars, roots, cycle, stemVars, pathVars>>

SkipBlack ==
  /\ phase = "search" /\ stack # << >>
  /\ \E e \in Firsts(Top.todo) :
       /\ color[e.dst] = "black"
       /\ stack' = Advanced(e)
  /\ UNCHANGED <<d, phase, reachVars, roots, color, entryEdge, cycle, stemVars, pathVars>>

(* Faulty variant: the suffix of the stack is taken one frame too late.    *)
reconstructCycle_OneLate(p, back) ==
  [i \in 1 .. Len(stack) - p - 1 |-> entryEdge[stack[p + 1 + i].node]] \o <<back>>

(* The stack from the state the back edge leads to, closed by that edge.   *)
reconstructCycle(p, back) ==
  [i \in 1 .. Len(stack) - p |-> entryEdge[stack[p + i].node]] \o <<back>>

(* A back edge ends the search and stemTo is called.                       *)
CloseCycle ==
  /\ phase = "search" /\ stack # << >>
  /\ \E e \in Firsts(Top.todo), p \in DOMAIN stack :
       /\ color[e.dst] = "grey" /\ stack[p].node = e.dst
       /\ \A i \in 1 .. p - 1 : stack[i].node # e.dst
       /\ cycle' = reconstructCycle(p, e)
       /\ stack' = Advanced(e)
  /\ visited' = {d.start} /\ queue' = <<d.start>>
  /\ phase' = "stem"
  /\ UNCHANGED <<d, reachVars, roots, color, entryEdge, prev, scan, pathVars>>

NoCycle ==
  /\ phase = "search" /\ stack = << >> /\ roots = {}
  /\ phase' = "free"
  /\ UNCHANGED <<d, reachVars, searchVars, stemVars, pathVars>>

-----------------------------------------------------------------------------
Target == cycle[1].src

(* stemTo's early return: the cycle is entered in the start state.         *)
EmptyStem ==
  /\ phase = "stem" /\ d.start = Target
  /\ phase' = "livelock"
  /\ UNCHANGED <<d, reachVars, searchVars, stemVars, pathVars>>

(* The loop of stemTo cannot run dry, since the target was reached before: *)
(* what the code does then would end here in no verdict, against Returns.  *)
DequeueState ==
  /\ phase = "stem" /\ d.start # Target
  /\ scan = {} /\ queue # << >>
  /\ scan' = Outgoing(Head(queue))
  /\ queue' = Tail(queue)
  /\ UNCHANGED <<d, phase, reachVars, searchVars, visited, prev, pathVars>>

SkipVisited ==
  /\ phase = "stem"
  /\ \E e \in Firsts(scan) :
       /\ e.dst \in visited
       /\ scan' = scan \ {e}
  /\ UNCHANGED <<d, phase, reachVars, searchVars, visited, prev, queue, pathVars>>

(* Faulty variant: the queue is used as a stack.                           *)
Enqueue_Front(s) == <<s>> \o queue

Enqueue(s) == Append(queue, s)

(* A new state; buildPath is called when it is the target.                 *)
Visit ==
  /\ phase = "stem"
  /\ \E e \in Firsts(scan) :
       /\ e.dst \notin visited
       /\ visited' = visited \cup {e.dst}
       /\ prev' = [s \in DOMAIN prev \cup {e.dst} |-> IF s = e.dst THEN e ELSE prev[s]]
       /\ scan' = scan \ {e}
       /\ \/ /\ e.dst = Target
             /\ phase' = "path" /\ cur' = Target
             /\ UNCHANGED queue
          \/ /\ e.dst # Target
             /\ queue' = Enqueue(e.dst)
             /\ UNCHANGED <<phase, cur>>
  /\ UNCHANGED <<d, reachVars, searchVars, stem>>

(* buildPath appends and reverses at the end.                              *)
WalkBack ==
  /\ phase = "path" /\ cur # d.start
  /\ stem' = <<prev[cur]>> \o stem
  /\ cur' = prev[cur].src
  /\ UNCHANGED <<d, phase, reachVars, searchVars, stemVars>>

PathBuilt ==
  /\ phase = "path" /\ cur = d.start
  /\ phase' = "livelock"
  /\ UNCHANGED <<d, reachVars, searchVars, stemVars, pathVars>>

Next ==
  \/ ReachStep \/ StartSearch
  \/ NextRoot \/ Blacken \/ FollowWhite \/ SkipBlack \/ CloseCycle \/ NoCycle
  \/ EmptyStem \/ DequeueState \/ SkipVisited \/ Visit
  \/ WalkBack \/ PathBuilt

(* A single goroutine runs the call to its end.                            *)
Spec == Init /\ [][Next]_vars /\ WF_vars(Next)

-----------------------------------------------------------------------------
(* States that can be reached from the start state: the least set that     *)
(* holds it and is closed under the edges.                                 *)
ClosedUnderEdges(S) == \A e \in d.edges : e.src \in S => e.dst \in S

Reachable ==
  {s \in Nodes : \A S \in SUBSET Nodes :
     d.start \in S /\ ClosedUnderEdges(S) => s \in S}

(* A set of reachable states a process may stay in for ever by tau alone.  *)
Divergent(S) ==
  /\ S # {} /\ S \subseteq Reachable
  /\ \A s \in S : \E e \in d.edges : e.src = s /\ e.event = Tau /\ e.dst \in S

(* A path of edges of the diagram from one state to another.               *)
PathFromTo(p, s, t) ==
  /\ \A i \in DOMAIN p : p[i] \in d.edges
  /\ \A i \in 1 .. Len(p) - 1 : p[i].dst = p[i + 1].src
  /\ IF p = << >> THEN s = t ELSE p[1].src = s /\ p[Len(p)].dst = t

-----------------------------------------------------------------------------
(* Every variable stays in its domain.                                     *)
TypeOK ==
  /\ d.start \in Nat /\ d.edges \subseteq Edge
  /\ phase \in {"reach", "search", "stem", "path", "free", "livelock"}
  /\ reachable \subseteq Nodes /\ frontier \subseteq reachable
  /\ roots \subseteq Nodes
  /\ color \in [Nodes -> {"white", "grey", "black"}]
  /\ stack \in Seq([node : Nodes, todo : SUBSET d.edges])
  /\ DOMAIN entryEdge \subseteq Nodes /\ \A s \in DOMAIN entryEdge : entryEdge[s] \in d.edges
  /\ cycle \in Seq(d.edges) /\ stem \in Seq(d.edges)
  /\ visited \subseteq Nodes /\ queue \in Seq(Nodes) /\ scan \subseteq d.edges
  /\ DOMAIN prev \subseteq visited /\ \A s \in DOMAIN prev : prev[s] \in d.edges
  /\ cur \in Nodes

(* What the doc comment of Livelock promises of a witness: its stem leads  *)
(* from the start state to the entry of its cycle, and its cycle is a      *)
(* closed path of tau edges.                                               *)
WitnessIsLivelock ==
  phase = "livelock" =>
    /\ cycle # << >>
    /\ PathFromTo(cycle, Target, Target)
    /\ \A i \in DOMAIN cycle : cycle[i].event = Tau
    /\ PathFromTo(stem, d.start, Target)

(* A diagram is reported free only if it cannot diverge: colours left over *)
(* from earlier roots never hide a cycle.                                  *)
FreeCannotDiverge ==
  phase = "free" => \A S \in SUBSET Nodes : ~ Divergent(S)

(* The states up to a distance from the start state.                       *)
StatesWithin[n \in Nat] ==
  IF n = 0 THEN {d.start}
  ELSE LET nearer == StatesWithin[n - 1]
       IN  nearer \cup {e.dst : e \in {x \in d.edges : x.src \in nearer}}

(* stemTo returns a shortest path, although it stops at the first edge     *)
(* that enters the target: the target is not within a smaller distance.    *)
StemIsShortest ==
  phase = "livelock" /\ stem # << >> => Target \notin StatesWithin[Len(stem) - 1]

(* The check returns a verdict.                                            *)
Returns == <>(phase \in {"free", "livelock"})

=============================================================================
