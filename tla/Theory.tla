------------------------------- MODULE Theory -------------------------------
(***************************************************************************)
(* The names of generated declarations (csdf/obligationir/mangle.go and    *)
(* side.go) and what a backend writes, reduced to what a prover resolves:  *)
(* which symbols a declaration introduces, which it uses, with how many    *)
(* arguments, and which variables it leaves free.                          *)
(*                                                                         *)
(* A CSDF name is the sequence of its characters, and so are the           *)
(* constructors and variables made from it.  The generator's own words     *)
(* start with a lower-case letter or another prefix; they are tuples that  *)
(* are no sequence of characters.                                          *)
(***************************************************************************)
EXTENDS Naturals, SequencesExt

CONSTANTS
  Hex,  \* the hexadecimal digits of every character but letters and digits
  Tau   \* the silent event

Underscore == "_"

(* Mangle: letters and digits stand for themselves, "_" doubles unless it  *)
(* is the last character, and the rest is written by code point.           *)
Escaped(c) == <<"_", "u">> \o Hex[c] \o <<"u">>

(* Faulty variant: "_" stands for itself.                                  *)
Mangle_Single(s) ==
  FlattenSeq([i \in DOMAIN s |->
    IF s[i] = Underscore \/ s[i] \notin DOMAIN Hex THEN <<s[i]>> ELSE Escaped(s[i])])

Mangle(s) ==
  FlattenSeq([i \in DOMAIN s |->
    CASE s[i] = Underscore /\ i < Len(s) -> <<"_", "_">>
      [] s[i] \notin DOMAIN Hex          -> <<s[i]>>
      [] OTHER                           -> Escaped(s[i])])

(* Side: one diagram within a theory.                                      *)
SideSingle     == [suffix |-> "",   ctorPrefix |-> <<"S", "t", "_">>]
SideSpec       == [suffix |-> "_S", ctorPrefix |-> <<"S", "_">>]
SideImpl       == [suffix |-> "_I", ctorPrefix |-> <<"I", "_">>]
SideSpecStates == [suffix |-> "_S", ctorPrefix |-> <<"S", "t", "_", "S", "_">>]
SideImplStates == [suffix |-> "_I", ctorPrefix |-> <<"S", "t", "_", "I", "_">>]

TauCtor == <<"H", "T", "a", "u">>

EventCtor(e) == <<"E", "v", "_">> \o Mangle(e)

Ctor(side, id) == side.ctorPrefix \o Mangle(id)

VarName(name, primed) ==
  <<"v", "_">> \o Mangle(name) \o (IF primed THEN <<"'">> ELSE << >>)

Qualify(side, word) == << "word", word, side.suffix >>

GuardName(side, line) == << "guard", side.suffix, line >>

PostName(side, line) == << "post", side.suffix, line >>

PredicateName(id) == << "pred", "", id >>

-----------------------------------------------------------------------------
(* A state the diagram does not declare has no fields.                     *)
FieldsIn(states, s) == IF s \in DOMAIN states THEN states[s].fields ELSE << >>

(* The arguments of a function with naturals as values, in the order of    *)
(* its values, no two of which are equal.                                  *)
InOrderOf(key) ==
  [k \in 1 .. Cardinality(DOMAIN key) |->
     CHOOSE x \in DOMAIN key : Cardinality({y \in DOMAIN key : key[y] < key[x]}) = k - 1]

SortIRStates(states) == InOrderOf([s \in DOMAIN states |-> states[s].line])

(* The members of a sequence that are in a set, in their order.            *)
Among(s, S) ==
  LET upTo[n \in 0 .. Len(s)] ==
        IF n = 0 THEN << >>
        ELSE IF s[n] \in S THEN Append(upTo[n - 1], s[n]) ELSE upTo[n - 1]
  IN  upTo[Len(s)]

TauEdges(edges) == Among(edges, {e \in ToSet(edges) : e.event = Tau})

(* Predicates: the ids in ascending order.                                 *)
Predicates(m) == InOrderOf([i \in DOMAIN m |-> i])

HasVars(states) == \E s \in DOMAIN states : states[s].fields # << >>

(* Symbols with their arities, and terms: a symbol applied to variables.   *)
Sym(name, arity) == [name |-> name, arity |-> arity]

Term(name, vars) == [name |-> name, vars |-> vars]

SymOf(term) == Sym(term.name, Len(term.vars))

FieldVars(fields, primed) == [i \in DOMAIN fields |-> VarName(fields[i].name, primed)]

ArgVars(args) == [i \in DOMAIN args |-> VarName(args[i].name, args[i].primed)]

(* A declaration: its kind, the symbols it declares, those it uses, the    *)
(* variables it does not bind, and what it says.                           *)
Declaration(kind, declares, uses, free, says) ==
  [kind |-> kind, declares |-> declares, uses |-> uses, free |-> free, says |-> says]

Datatype(name, ctors, uses) ==
  Declaration("datatype", << Sym(name, 0) >> \o ctors, uses, {}, ctors)

PredicateDeclaration(id, p, known) ==
  Declaration("predicate", << Sym(PredicateName(id), Len(p.args)) >>, {}, {},
              [id |-> id, text |-> p.text, known |-> known])

Alias(name, args, id) ==
  Declaration("alias", << Sym(name, Len(args)) >>,
              {Sym(PredicateName(id), Len(args))}, {}, id)

(* A disjunct of a relation, and a branch of a process, over an edge.      *)
TermsOf(x) == {x.src, x.dst, x.guard, x.post}

FreeIn(x) == (UNION {ToSet(t.vars) : t \in TermsOf(x)}) \ x.binds

Relation(name, type, disjuncts) ==
  Declaration("relation", << Sym(name, 2) >>,
              {Sym(type, 0)} \cup UNION {{SymOf(t) : t \in TermsOf(x)} : x \in ToSet(disjuncts)},
              UNION {FreeIn(x) : x \in ToSet(disjuncts)},
              disjuncts)

Theorem(name, uses, free, says) ==
  Declaration("theorem", << Sym(name, 0) >>, uses, free, says)

(* What is written is a sequence of parts; an error or a panic in one ends *)
(* the output there.                                                       *)
Written(declarations, outcome) == [declarations |-> declarations, outcome |-> outcome]

Ok(declarations) == Written(declarations, "ok")

WriteAll(parts) ==
  LET failed == {i \in DOMAIN parts : parts[i].outcome # "ok"}
      last   == IF failed = {} THEN Len(parts) ELSE Min(failed)
  IN  Written(FlattenSeq([i \in 1 .. last |-> parts[i].declarations]), parts[last].outcome)

(* A branch of a process: an edge offers its event when its guard holds    *)
(* and its post can be satisfied, and leads on to what the post allows.    *)
EdgeBranch(guard, post, chosen, event, then) ==
  [kind |-> "edge", guard |-> guard, post |-> post, chosen |-> chosen,
   event |-> event, then |-> then]

SkipBranch(guard) == [kind |-> "skip", guard |-> guard]

StopBranch == [kind |-> "stop"]

BranchTerms(b) ==
  CASE b.kind = "edge" -> {b.guard, b.post, b.then}
    [] b.kind = "skip" -> {b.guard}
    [] b.kind = "stop" -> {}

FreeInBranch(b, bound) ==
  CASE b.kind = "edge" -> (ToSet(b.guard.vars) \ bound)
                            \cup ((ToSet(b.post.vars) \cup ToSet(b.then.vars))
                                   \ (bound \cup ToSet(b.chosen)))
    [] b.kind = "skip" -> ToSet(b.guard.vars) \ bound
    [] b.kind = "stop" -> {}

Equation(lhs, branches) == [lhs |-> lhs, branches |-> branches]

=============================================================================
