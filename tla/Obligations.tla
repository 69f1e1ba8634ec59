----------------------------- MODULE Obligations -----------------------------
(***************************************************************************)
(* csdflivelockfree and csdfrefinement: read the diagrams, build the       *)
(* representation of the obligation, write it for a prover.                *)
(***************************************************************************)
EXTENDS ObligationIR

CONSTANT Hex  \* see Theory

(* To base 16 no code point has a "u", and no two are written alike.       *)
ASSUME HexAssumption ==
  /\ "_" \in DOMAIN Hex
  /\ \A c \in DOMAIN Hex : IsList(Hex[c]) /\ \A i \in DOMAIN Hex[c] : Hex[c][i] # "u"
  /\ \A c, d \in DOMAIN Hex : Hex[c] = Hex[d] => c = d

VARIABLE written  \* [target, declarations, exit] once a backend has written

vars == <<buildVars, written>>

Isabelle == INSTANCE IsabelleObligation
Lean     == INSTANCE LeanObligation
T        == INSTANCE Theory

-----------------------------------------------------------------------------
Init == BuildInitial /\ written = << >>

Build == Add /\ UNCHANGED written

(* target.CompileRefinement passes errors on; target.Compile drops them.   *)
Output(target) ==
  CASE job.mode = "livelock" /\ target = "isabelle" -> Isabelle!WriteLivelockFree(IRLivelockFree)
    [] job.mode = "livelock" /\ target = "lean"     -> Lean!WriteLivelockFree(IRLivelockFree)
    [] job.mode # "livelock" /\ target = "isabelle" -> Isabelle!WriteRefinement(IRRefinement)
    [] job.mode # "livelock" /\ target = "lean"     -> Lean!WriteRefinement(IRRefinement)

Exit(outcome) == IF job.mode = "livelock" /\ outcome = "error" THEN "ok" ELSE outcome

Compile(target) ==
  /\ Built /\ written = << >>
  /\ LET output == Output(target)
     IN  written' = << [target |-> target, declarations |-> output.declarations,
                        exit |-> Exit(output.outcome)] >>
  /\ UNCHANGED buildVars

Next == Build \/ \E target \in {"isabelle", "lean"} : Compile(target)

Spec == Init /\ [][Next]_vars /\ WF_vars(Build)

-----------------------------------------------------------------------------
(* What a prover makes of a theory.                                        *)
Document == written[1].declarations

Declares(d) == {d.declares[i].name : i \in DOMAIN d.declares}

(* Names made of a diagram's, not of the generator's words.                *)
Spelled(n) == n[1] \notin {"word", "guard", "post", "pred"}

(* Every symbol is declared once, before it is used and with the arguments *)
(* it is used with (a datatype and an inductive definition may use what    *)
(* they declare); variables are bound; names may not end in "_".           *)
WellFormed(theory) ==
  /\ \A i \in DOMAIN theory :
       LET d == theory[i]
           known == UNION {T!ToSet(theory[j].declares) : j \in 1 .. i}
       IN  /\ d.uses \subseteq known
           /\ d.free = {}
           /\ \A a, b \in DOMAIN d.declares : d.declares[a].name = d.declares[b].name => a = b
           /\ \A j \in 1 .. i - 1 : Declares(theory[j]) \cap Declares(d) = {}
           /\ \A n \in Declares(d) : Spelled(n) => n[Len(n)] # "_"

The(theory, kind, n) ==
  CHOOSE d \in T!ToSet(theory) : d.kind = kind /\ n \in Declares(d)

Has(theory, kind, n) ==
  \E d \in T!ToSet(theory) : d.kind = kind /\ n \in Declares(d)

(* What an alias stands for, looked up through its placeholder.            *)
Stands(theory, alias) ==
  LET placeholder == The(theory, "alias", alias).says
  IN  (CHOOSE d \in T!ToSet(theory) :
         d.kind = "predicate" /\ d.says.id = placeholder).says

(* The state a constructor stands for: constructors of the type are listed *)
(* in the order of the states in the source.                               *)
InOrder(d) == T!SetToSortSeq(DOMAIN d.states, LAMBDA s, t : d.states[s].line < d.states[t].line)

StateAt(d, ctors, first, c) ==
  InOrder(d)[(CHOOSE i \in DOMAIN InOrder(d) : ctors[first + i].name = c)]

(* One side of a theory: where its types and aliases are.                  *)
Sides ==
  IF job.mode = "livelock"
  THEN << [side |-> T!SideSingle, in |-> T!SideSingle, diagram |-> job.diagrams[1]] >>
  ELSE << [side |-> T!SideSpec, in |-> T!SideSpecStates, diagram |-> job.diagrams[1]],
          [side |-> T!SideImpl, in |-> T!SideImplStates, diagram |-> job.diagrams[2]] >>

Word(target, word) ==
  IF target = "isabelle" THEN word
  ELSE CASE word = "st" -> "St" [] word = "reachable" -> "Reachable"
         [] word = "tau_step" -> "tauStep" [] OTHER -> word

Named(s, word) == T!Qualify(s.in, Word(written[1].target, word))

(* A relation says, disjunct by disjunct, what the edges of the diagram    *)
(* say: between which states, under which guard and with which post, each  *)
(* about the variables of its own states.                                  *)
RelationMeans(s, word, edges) ==
  LET ctors     == The(Document, "datatype", Named(s, "st")).says
      disjuncts == The(Document, "relation", Named(s, word)).says
  IN  /\ Len(disjuncts) = Len(edges)
      /\ \A i \in DOMAIN edges :
           LET x == disjuncts[i]  e == edges[i]
           IN  /\ StateAt(s.diagram, ctors, 0, x.src.name) = e.src
               /\ StateAt(s.diagram, ctors, 0, x.dst.name) = e.dst
               /\ Stands(Document, x.guard.name).text = e.guard
               /\ Stands(Document, x.post.name).text = e.post
               /\ T!IsInjective(x.src.vars \o x.dst.vars)
               /\ x.guard.vars = x.src.vars
               /\ x.post.vars = x.src.vars \o x.dst.vars

Silent(edges) == SelectSeq(edges, LAMBDA e : e.event = Tau)

LayerMeans(s) ==
  LET reachable == The(Document, "reachable", Named(s, "reachable")).says
      ctors     == The(Document, "datatype", Named(s, "st")).says
  IN  /\ RelationMeans(s, "step", s.diagram.edges)
      /\ RelationMeans(s, "tau_step", Silent(s.diagram.edges))
      /\ StateAt(s.diagram, ctors, 0, reachable.to.name) = s.diagram.start.dst
      /\ Stands(Document, reachable.base.name).text = s.diagram.start.post
      /\ reachable.base.vars = reachable.to.vars
      /\ reachable.step = Named(s, "step")

(* The equations of the process names say what every state offers: each of *)
(* its edges, behind its guard and a post that can be satisfied, and the   *)
(* termination its end edge allows.  An event constructor stands for one   *)
(* event wherever it is used, and what is hidden is the silent one.        *)
ProcessNames == The(Document, "datatype", <<"word", "PN", "">>).says

ProcessEquations == The(Document, "processes", <<"word", "procfun", "">>).says

First(k) == IF k = 1 THEN 0 ELSE Cardinality(DOMAIN job.diagrams[1].states)

EquationOf(k, state) ==
  ProcessEquations[First(k) + (CHOOSE i \in DOMAIN InOrder(job.diagrams[k]) :
                                 InOrder(job.diagrams[k])[i] = state)]

OutOf(d, state) == SelectSeq(d.edges, LAMBDA e : e.src = state)

BranchMeans(k, lhs, b, e) ==
  LET d == job.diagrams[k]
  IN  /\ b.kind = "edge"
      /\ Stands(Document, b.guard.name).text = e.guard
      /\ Stands(Document, b.post.name).text = e.post
      /\ StateAt(d, ProcessNames, First(k), b.then.name) = e.dst
      /\ b.then.vars = b.chosen
      /\ T!IsInjective(lhs.vars \o b.chosen)
      /\ b.guard.vars = lhs.vars
      /\ b.post.vars = lhs.vars \o b.chosen

EquationMeans(k, state) ==
  LET d   == job.diagrams[k]
      eq  == EquationOf(k, state)
      out == OutOf(d, state)
      end == SelectSeq(d.end, LAMBDA e : e.src = state)
  IN  /\ StateAt(d, ProcessNames, First(k), eq.lhs.name) = state
      /\ Len(eq.lhs.vars) = Len(d.states[state].fields)
      /\ \A i \in DOMAIN out : BranchMeans(k, eq.lhs, eq.branches[i], out[i])
      /\ \A i \in DOMAIN end :
           LET b == eq.branches[Len(out) + i]
           IN  /\ b.kind = "skip" /\ b.guard.vars = eq.lhs.vars
               /\ Stands(Document, b.guard.name).text = end[i].guard
      /\ \A i \in DOMAIN eq.branches :
           i > Len(out) + Len(end) => out \o end = << >> /\ eq.branches[i].kind = "stop"

EventUsesOf(k) ==
  UNION {{[event |-> OutOf(job.diagrams[k], s)[i].event, as |-> EquationOf(k, s).branches[i].event] :
            i \in DOMAIN OutOf(job.diagrams[k], s)} : s \in DOMAIN job.diagrams[k].states}

ProcessMeans(k) ==
  LET proc == The(Document, "process", <<"word", IF k = 1 THEN "SpecProc" ELSE "ImplProc", "">>).says
      d    == job.diagrams[k]
  IN  /\ \A state \in DOMAIN d.states : EquationMeans(k, state)
      /\ StateAt(d, ProcessNames, First(k), proc.to.name) = d.start.dst
      /\ Stands(Document, proc.init.name).text = d.start.post
      /\ proc.init.vars = proc.to.vars
      /\ \A u \in EventUsesOf(k) : u.as \subseteq proc.hides <=> u.event = Tau

EventsMean == \A u, v \in EventUsesOf(1) \cup EventUsesOf(2) : u.as = v.as <=> u.event = v.event

-----------------------------------------------------------------------------
(* Every state the diagrams mention is one they declare (the parser does   *)
(* not ask for it).                                                        *)
Declared ==
  \A k \in DOMAIN job.diagrams :
    LET d == job.diagrams[k]
    IN  Nodes(d) \cup {d.end[i].src : i \in DOMAIN d.end} \subseteq DOMAIN d.states

HasLayer(s) == Has(Document, "relation", Named(s, "tau_step"))

(* It is written to the end: no part of it fails or panics, as one does on *)
(* a start state or a type that is not there; and no predicate is given a  *)
(* meaning but one whose text is "true" (WritePredicates).                 *)
TheoryIsComplete ==
  written # << >> /\ Declared =>
    /\ written[1].exit = "ok"
    /\ \A d \in T!ToSet(Document) :
         d.kind = "predicate" => (d.says.known <=> d.says.text = "true")

(* A theory written for diagrams that declare their states is one a prover *)
(* accepts, and decoding its names gives back the diagrams, whatever names *)
(* states, variables and events have and however often a text occurs       *)
(* (mangle.go, side.go, PredicateSet.Add and the two backends together).   *)
TheoryDenotesDiagrams ==
  /\ TheoryIsComplete
  /\ written # << >> /\ Declared =>
       /\ WellFormed(Document)
       /\ \A k \in DOMAIN Sides : HasLayer(Sides[k]) => LayerMeans(Sides[k])
       /\ job.mode # "livelock" => EventsMean /\ \A k \in {1, 2} : ProcessMeans(k)

(* Texts are true or not of all values alike.  A diagram diverges if it    *)
(* can get into a cycle of silent edges whose guards and posts hold; a     *)
(* process also if it cannot start.                                        *)
Texts ==
  UNION {{d.start.post} \cup {e.guard : e \in Edges(d)} \cup {e.post : e \in Edges(d)} :
           d \in {job.diagrams[k] : k \in DOMAIN job.diagrams}} \ {"true"}

Holds(text, valid) == text = "true" \/ text \in valid

Diverges(d, valid) ==
  LET starts  == Holds(d.start.post, valid)
      firing  == {e \in Edges(d) : Holds(e.guard, valid) /\ Holds(e.post, valid)}
  IN  \/ job.mode # "livelock" /\ ~ starts
      \/ starts /\ Cyclic(Nodes(d), d.start.dst, firing)

(* A theorem of the theory under the same valuation.                       *)
RelationUnder(n, valid) ==
  {x \in T!ToSet(The(Document, "relation", n).says) :
     Holds(Stands(Document, x.guard.name).text, valid) /\ Holds(Stands(Document, x.post.name).text, valid)}

IsTrue(theorem, valid) ==
  CASE theorem.claims = "satisfiable" -> Holds(Stands(Document, theorem.of.name).text, valid)
    [] theorem.claims = "wellFounded" ->
         LET r     == The(Document, "reachable", theorem.on).says
             steps == RelationUnder(r.step, valid)
             loops == RelationUnder(theorem.of, valid)
             nodes == {r.to.name} \cup {x.src.name : x \in steps \cup loops}
                                  \cup {x.dst.name : x \in steps \cup loops}
             Closed(S) == /\ Holds(Stands(Document, r.base.name).text, valid) => r.to.name \in S
                          /\ \A x \in steps : x.src.name \in S => x.dst.name \in S
             reachable == {n \in nodes : \A S \in SUBSET nodes : Closed(S) => n \in S}
         IN  ~ \E S \in (SUBSET reachable) \ {{}} :
                 \A n \in S : \E x \in loops : x.src.name = n /\ x.dst.name \in S

TheoremsOf(s) ==
  {d.says : d \in {d \in T!ToSet(Document) :
     /\ d.kind = "theorem"
     /\ Declares(d) \cap {T!Qualify(s.side, "livelock_free"), T!Qualify(s.side, "initialisable")}
          # {}}}

(* Whatever the texts turn out to mean, a diagram diverges exactly if one  *)
(* of the theorems that the theory leaves to be proved of it is false: the *)
(* structural check discharges no obligation it may not (WriteLivelockFree,*)
(* WriteLivelockLayer, WriteInitialisableTheorem).                         *)
DivergenceIsObliged ==
  written # << >> /\ Declared /\ job.mode \in {"livelock", "failures-divergence"} =>
    \A valid \in SUBSET Texts : \A k \in DOMAIN Sides :
      Diverges(job.diagrams[k], valid)
        <=> \E theorem \in TheoremsOf(Sides[k]) : ~ IsTrue(theorem, valid)

(* Names in the spelling of the other backend.                             *)
Respelled(n) ==
  LET words == [Val |-> "val", St |-> "st", Reachable |-> "reachable", tauStep |-> "tau_step",
                refTfix |-> "<=T", refFfix |-> "<=F"]
  IN  IF n[1] = "word" /\ n[2] \in DOMAIN words THEN [n EXCEPT ![2] = words[@]] ELSE n

Resolved(sym) == T!Sym(Respelled(sym.name), sym.arity)

Skeleton(theory) ==
  [i \in DOMAIN theory |->
     [kind     |-> theory[i].kind,
      declares |-> [a \in DOMAIN theory[i].declares |-> Resolved(theory[i].declares[a])],
      uses     |-> {Resolved(sym) : sym \in theory[i].uses}]]

(* The backends write the same declarations with the same uses in the same *)
(* order, up to spelling: "mirrors the isabelle backend declaration for    *)
(* declaration, under the same names" (lean/refinement.go).                *)
BackendsMirror ==
  Built =>
    LET i == Output("isabelle")  l == Output("lean")
    IN  /\ Skeleton(i.declarations) = Skeleton(l.declarations)
        /\ i.outcome = "ok" <=> l.outcome = "ok"

(* Every occurrence gets its id: the probing ends, also when hashes meet   *)
(* and ids wrap around (PredicateSet.Add has no bound on its loop).        *)
ProbingEnds == <>Built

=============================================================================
