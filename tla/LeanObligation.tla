--------------------------- MODULE LeanObligation ---------------------------
(***************************************************************************)
(* csdf/obligationir/lean: the Lean files written for a livelock-freedom   *)
(* and for a refinement obligation, as the declarations they consist of.   *)
(* "It mirrors the isabelle backend declaration for declaration": it is a  *)
(* second piece of code that has to say the same.                          *)
(***************************************************************************)
EXTENDS Theory

ValPrelude == << Datatype(<<"word", "Val", "">>, << >>, {}) >>

ValUse(arity) == IF arity > 0 THEN {Sym(<<"word", "Val", "">>, 0)} ELSE {}

-----------------------------------------------------------------------------
WritePredicates(m) ==
  LET ids == Predicates(m)
  IN  [i \in DOMAIN ids |-> PredicateDeclaration(ids[i], m[ids[i]], m[ids[i]].text = "true")]

WriteInit(side, init) == Alias(Qualify(side, "init"), init.postArgs, init.post)

WriteEdge(side, e) ==
  << Alias(GuardName(side, e.line), e.guardArgs, e.guard),
     Alias(PostName(side, e.line), e.postArgs, e.post) >>

WriteDisjunct(side, e, states) ==
  LET src == FieldVars(FieldsIn(states, e.src), FALSE)
      dst == FieldVars(FieldsIn(states, e.dst), TRUE)
  IN  [binds |-> ToSet(src \o dst),
       src   |-> Term(Ctor(side, e.src), src),
       dst   |-> Term(Ctor(side, e.dst), dst),
       guard |-> Term(GuardName(side, e.line), ArgVars(e.guardArgs)),
       post  |-> Term(PostName(side, e.line), ArgVars(e.postArgs))]

WriteRelation(side, name, states, edges) ==
  Relation(Qualify(side, name), Qualify(side, "St"),
           [i \in DOMAIN edges |-> WriteDisjunct(side, edges[i], states)])

WriteReachable(side, init, states) ==
  LET vars == FieldVars(FieldsIn(states, init.dst), FALSE)
      base == Term(Qualify(side, "init"), vars)
      to   == Term(Ctor(side, init.dst), vars)
  IN  IF init.dst \notin DOMAIN states THEN Written(<< >>, "error")
      ELSE Ok(<< Declaration("reachable", << Sym(Qualify(side, "Reachable"), 1) >>,
                   {SymOf(base), SymOf(to), Sym(Qualify(side, "step"), 2),
                    Sym(Qualify(side, "St"), 0)}, {},
                   [base |-> base, to |-> to, step |-> Qualify(side, "step")]) >>)

WriteStateTypeDeclaration(side, states) ==
  LET sorted == SortIRStates(states)
      ctor   == [i \in DOMAIN sorted |->
                   Sym(Ctor(side, sorted[i]), Len(states[sorted[i]].fields))]
  IN  IF sorted = << >> THEN Written(<< >>, "error")
      ELSE Ok(<< Datatype(Qualify(side, "St"), ctor,
                          UNION {ValUse(ctor[i].arity) : i \in DOMAIN ctor}) >>)

WriteRelations(side, init, states, edges) ==
  WriteAll(<< Ok(<< WriteRelation(side, "step", states, edges) >>),
              WriteReachable(side, init, states),
              Ok(<< WriteRelation(side, "tauStep", states, TauEdges(edges)) >>) >>)

WriteTransitionSystem(side, init, states, edges) ==
  WriteAll(<< Ok(<< WriteInit(side, init) >>),
              Ok(FlattenSeq([i \in DOMAIN edges |-> WriteEdge(side, edges[i])])),
              WriteRelations(side, init, states, edges) >>)

WriteLivelockTheorem(side, name) ==
  Theorem(name, {Sym(Qualify(side, "Reachable"), 1), Sym(Qualify(side, "tauStep"), 2)}, {},
          [claims |-> "wellFounded", on |-> Qualify(side, "Reachable"),
           of |-> Qualify(side, "tauStep")])

WriteLivelockFree(ir) ==
  IF ir.structurally THEN Ok(<< >>)
  ELSE WriteAll(<< Ok(IF HasVars(ir.states) THEN ValPrelude ELSE << >>),
                   WriteStateTypeDeclaration(SideSingle, ir.states),
                   Ok(WritePredicates(ir.predicates)),
                   WriteTransitionSystem(SideSingle, ir.init, ir.states, ir.edges),
                   Ok(<< WriteLivelockTheorem(SideSingle, Qualify(SideSingle, "livelock_free")) >>) >>)

-----------------------------------------------------------------------------
(* One diagram of a refinement with the names its declarations get.        *)
Sides(ir) ==
  LET vars == \E k \in {1, 2} : HasVars(ir.sides[k].states)
      tau  == \E k \in {1, 2} : TauEdges(ir.sides[k].edges) # << >>
  IN  << [side |-> SideSpec, in |-> SideSpecStates, ir |-> ir.sides[1],
          proc |-> <<"word", "SpecProc", "">>, vars |-> vars, tau |-> tau],
         [side |-> SideImpl, in |-> SideImplStates, ir |-> ir.sides[2],
          proc |-> <<"word", "ImplProc", "">>, vars |-> vars, tau |-> tau] >>

ForBoth(ir, Op(_)) == FlattenSeq([k \in {1, 2} |-> Op(Sides(ir)[k])])

(* CSP_T brings trace refinement; CSP_F includes it.                       *)
RefinementImport(mode) ==
  Declaration("import",
    IF mode = "trace" THEN << Sym(<<"word", "refTfix", "">>, 2) >>
    ELSE << Sym(<<"word", "refTfix", "">>, 2), Sym(<<"word", "refFfix", "">>, 2) >>, {}, {}, mode)

AlphabetCtor == Sym(<<"word", "Alphabet", "">>, 1)
InternalCtor == Sym(<<"word", "Internal", "">>, 1)

(* With variables the events are layered under a type that can also index  *)
(* the choice of a valuation.                                              *)
EventCtors(alphabet, tau) ==
  LET all == {EventCtor(e) : e \in alphabet} \cup (IF tau THEN {TauCtor} ELSE {})
  IN  IF all # {} THEN all ELSE {<<"E", "v", "_", "n", "o", "n", "e">>}

WriteEventDatatype(alphabet, vars, tau) ==
  LET ctors == SetToSeq({Sym(c, 0) : c \in EventCtors(alphabet, tau)})
      event == <<"word", "event", "">>
      under == <<"word", "alphabet", "">>
  IN  IF vars THEN << Datatype(under, ctors, {}),
                      Datatype(event, << AlphabetCtor, InternalCtor >>,
                               ValUse(1) \cup {Sym(under, 0)}) >>
      ELSE << Datatype(event, ctors, {}) >>

EventTerm(s, e) ==
  {Sym(IF e = Tau THEN TauCtor ELSE EventCtor(e), 0)} \cup (IF s.vars THEN {AlphabetCtor} ELSE {})

WriteSideAliases(s) ==
  << WriteInit(s.side, s.ir.init) >>
    \o FlattenSeq([i \in DOMAIN s.ir.edges |-> WriteEdge(s.side, s.ir.edges[i])])
    \o [i \in DOMAIN s.ir.end |->
          Alias(GuardName(s.side, s.ir.end[i].line), s.ir.end[i].guardArgs, s.ir.end[i].guard)]

NameCtors(s) ==
  LET sorted == SortIRStates(s.ir.states)
  IN  [i \in DOMAIN sorted |->
         Sym(Ctor(s.side, sorted[i]), Len(s.ir.states[sorted[i]].fields))]

WriteProcessNameDatatype(ir) ==
  LET ctors == ForBoth(ir, NameCtors)
  IN  IF ctors = << >> THEN Written(<< >>, "error")
      ELSE Ok(<< Datatype(<<"word", "PN", "">>, ctors,
                          UNION {ValUse(ctors[i].arity) : i \in DOMAIN ctors}) >>)

-----------------------------------------------------------------------------
(* One out-edge: a guarded prefix.  The condition is the guard and that    *)
(* the post can be satisfied, and the successor is any the post allows.    *)
WriteEdgeBranch(s, e) ==
  LET dst == FieldVars(FieldsIn(s.ir.states, e.dst), TRUE)
  IN  EdgeBranch(Term(GuardName(s.side, e.line), ArgVars(e.guardArgs)),
                 Term(PostName(s.side, e.line), ArgVars(e.postArgs)),
                 dst, EventTerm(s, e.event), Term(Ctor(s.side, e.dst), dst))

WriteStateBody(s, id) ==
  LET out   == Among(s.ir.edges, {e \in ToSet(s.ir.edges) : e.src = id})
      end   == Among(s.ir.end, {e \in ToSet(s.ir.end) : e.src = id})
      edges == [i \in DOMAIN out |-> WriteEdgeBranch(s, out[i])]
      skips == [i \in DOMAIN end |->
                  SkipBranch(Term(GuardName(s.side, end[i].line), ArgVars(end[i].guardArgs)))]
  IN  IF edges \o skips = << >> THEN << StopBranch >> ELSE edges \o skips

Equations(s) ==
  LET sorted == SortIRStates(s.ir.states)
  IN  [i \in DOMAIN sorted |->
         Equation(Term(Ctor(s.side, sorted[i]),
                       FieldVars(s.ir.states[sorted[i]].fields, FALSE)),
                  WriteStateBody(s, sorted[i]))]

BranchUses(b) ==
  {SymOf(t) : t \in BranchTerms(b)}
    \cup (IF b.kind # "edge" THEN {}
          ELSE b.event \cup (IF b.chosen # << >> THEN {InternalCtor} ELSE {}))

WriteProcFun(ir) ==
  LET eqs == ForBoth(ir, Equations)
  IN  Declaration("processes", << Sym(<<"word", "procfun", "">>, 1) >>,
        {SymOf(eq.lhs) : eq \in ToSet(eqs)}
          \cup UNION {UNION {BranchUses(b) : b \in ToSet(eq.branches)} : eq \in ToSet(eqs)},
        UNION {UNION {FreeInBranch(b, ToSet(eq.lhs.vars)) : b \in ToSet(eq.branches)} :
                 eq \in ToSet(eqs)},
        eqs)

(* Hidden once, outermost, on both sides when either has a silent edge.    *)

Hides(s) == IF s.tau THEN EventTerm(s, Tau) ELSE {}

WriteProcDefinition(s) ==
  LET vars == FieldVars(FieldsIn(s.ir.states, s.ir.init.dst), FALSE)
      init == Term(Qualify(s.side, "init"), vars)
      to   == Term(Ctor(s.side, s.ir.init.dst), vars)
  IN  << Declaration("process", << Sym(s.proc, 0) >>,
           {SymOf(init), SymOf(to), Sym(<<"word", "procfun", "">>, 1)} \cup Hides(s)
             \cup (IF vars # << >> THEN {InternalCtor} ELSE {}), {},
           [init |-> init, to |-> to, hides |-> Hides(s)]) >>

NeedsLivelockObligation(s) == s.ir.free = << FALSE >>

WriteLivelockLayer(s) ==
  IF ~ NeedsLivelockObligation(s) THEN Ok(<< >>)
  ELSE WriteAll(<< WriteStateTypeDeclaration(s.in, s.ir.states),
                   WriteRelations(s.in, s.ir.init, s.ir.states, s.ir.edges),
                   Ok(<< WriteLivelockTheorem(s.in, Qualify(s.side, "livelock_free")) >>) >>)

WriteInitialisableTheorem(s) ==
  LET vars == FieldVars(FieldsIn(s.ir.states, s.ir.init.dst), FALSE)
      init == Term(Qualify(s.side, "init"), vars)
  IN  IF s.ir.free = << >> THEN << >>
      ELSE << Theorem(Qualify(s.side, "initialisable"), {SymOf(init)}, {},
                      [claims |-> "satisfiable", of |-> init]) >>

WriteRefinementTheorem(mode) ==
  LET relation == <<"word", IF mode = "trace" THEN "refTfix" ELSE "refFfix", "">>
      spec     == <<"word", "SpecProc", "">>
      impl     == <<"word", "ImplProc", "">>
  IN  Theorem(<<"word", IF mode = "trace" THEN "refines_t" ELSE "refines_f", "">>,
              {Sym(relation, 2), Sym(spec, 0), Sym(impl, 0)}, {},
              [claims |-> relation, of |-> << spec, impl >>])

WriteRefinement(ir) ==
  WriteAll(<<
    Ok(<< RefinementImport(ir.mode) >>),
    Ok(IF Sides(ir)[1].vars THEN ValPrelude ELSE << >>),
    Ok(WriteEventDatatype(ir.alphabet, Sides(ir)[1].vars, Sides(ir)[1].tau)),
    Ok(WritePredicates(ir.predicates)),
    Ok(ForBoth(ir, WriteSideAliases)),
    WriteProcessNameDatatype(ir),
    Ok(<< WriteProcFun(ir) >>),
    Ok(ForBoth(ir, WriteProcDefinition)),
    WriteLivelockLayer(Sides(ir)[1]),
    Ok(WriteInitialisableTheorem(Sides(ir)[1])),
    WriteLivelockLayer(Sides(ir)[2]),
    Ok(WriteInitialisableTheorem(Sides(ir)[2])),
    Ok(<< WriteRefinementTheorem(ir.mode) >>) >>)

=============================================================================
