-------------------------- MODULE ProcessSemantics --------------------------
(***************************************************************************)
(* Reference semantics of the process expressions of a composition tree    *)
(* (docs/COMPOSITION_TREE.md), by structure: a state of an expression is a *)
(* state of its leaf, or the vector of the states of its processes.  No    *)
(* diagram is built for an inner expression, and nothing is explored.      *)
(***************************************************************************)
EXTENDS InterfaceParallel

CONSTANTS
  Library,  \* the diagrams that load, a function from paths to diagrams
  Tau       \* the internal event

(***************************************************************************)
(* csdf.Expr.  An expression is a record with a tag op: a reference, a     *)
(* hiding, an interface parallel, or something ParseExpr does not know.    *)
(***************************************************************************)
Refer(path)         == [op |-> "REFER", path |-> path]
Hiding(events, e)   == [op |-> "HIDE", events |-> events, proc |-> e]
Parallel(sync, es)  == [op |-> "INTERFACE_PARALLEL", sync |-> sync, procs |-> es]
Malformed           == [op |-> "SEQ"]

Procs(e) ==
  CASE e.op = "HIDE" -> <<e.proc>>
    [] e.op = "INTERFACE_PARALLEL" -> e.procs
    [] OTHER -> << >>

-----------------------------------------------------------------------------
(* The order in which a composite lists its processes: the first, the      *)
(* third and the following ones, and the second last.                      *)
Listed(s) ==
  IF Len(s) > 1 THEN <<s[1]>> \o SubSeq(s, 3, Len(s)) \o <<s[2]>> ELSE s

RECURSIVE StartOf(_), StartPost(_), ContentsOf(_, _), IDOf(_, _), StepsOf(_, _)

StartOf(e) ==
  CASE e.op = "REFER" -> Library[e.path].start.dst
    [] e.op = "HIDE"  -> StartOf(e.proc)
    [] OTHER          -> [i \in DOMAIN e.procs |-> StartOf(e.procs[i])]

StartPost(e) ==
  CASE e.op = "REFER" -> Library[e.path].start.post
    [] e.op = "HIDE"  -> StartPost(e.proc)
    [] OTHER          -> FlattenSeq(Listed([i \in DOMAIN e.procs |-> StartPost(e.procs[i])]))

(* Name and variables of a state: those of the leaves, side by side.       *)
ContentsOf(e, v) ==
  CASE e.op = "REFER" -> StateOf(Library[e.path], v)
    [] e.op = "HIDE"  -> ContentsOf(e.proc, v)
    [] OTHER -> FlattenSeq(Listed([i \in DOMAIN e.procs |-> ContentsOf(e.procs[i], v[i])]))

(* The id of a state: the ids of the processes, joined.                    *)
IDOf(e, v) ==
  CASE e.op = "REFER" -> v
    [] e.op = "HIDE"  -> IDOf(e.proc, v)
    [] OTHER ->
         LET ids == Listed([i \in DOMAIN e.procs |-> IDOf(e.procs[i], v[i])])
         IN  FoldLeft(LAMBDA s, id : s \o <<Sep>> \o id, ids[1], Tail(ids))

(* One element of each set of a sequence, in order.                        *)
OneOfEach(sets) ==
  FoldLeft(LAMBDA C, S : {Append(c, x) : c \in C, x \in S}, {<< >>}, sets)

(* P \ A renames what it hides; an interface parallel needs all processes  *)
(* for an event of its interface and one of them for any other.            *)
StepsOf(e, v) ==
  CASE e.op = "REFER" ->
         {[event |-> x.event, dst |-> x.dst, guard |-> x.guard, post |-> x.post] :
            x \in Outgoing(Library[e.path], v)}
    [] e.op = "HIDE" ->
         {[x EXCEPT !.event = IF x.event \in e.events THEN Tau ELSE x.event] :
            x \in StepsOf(e.proc, v)}
    [] OTHER ->
         LET I  == DOMAIN e.procs
             of == [i \in I |-> StepsOf(e.procs[i], v[i])]
         IN  {[event |-> c[1].event, dst |-> [i \in I |-> c[i].dst],
               guard |-> FlattenSeq(Listed([i \in I |-> c[i].guard])),
               post  |-> FlattenSeq(Listed([i \in I |-> c[i].post]))] :
                c \in {x \in OneOfEach(of) : /\ x[1].event \in e.sync
                                          /\ \A i \in I : x[i].event = x[1].event}}
             \cup UNION {{[event |-> x.event, dst |-> [v EXCEPT ![i] = x.dst],
                           guard |-> x.guard, post |-> x.post] :
                            x \in {y \in of[i] : y.event \notin e.sync}} : i \in I}

RECURSIVE Reached(_, _, _)
Reached(e, seen, last) ==
  LET next == (UNION {{x.dst : x \in StepsOf(e, v)} : v \in last}) \ seen
  IN  IF next = {} THEN seen ELSE Reached(e, seen \cup next, next)

ReachableStates(e) == Reached(e, {StartOf(e)}, {StartOf(e)})

-----------------------------------------------------------------------------
(* Whether an expression denotes a process at all: every part is known,    *)
(* every reference loads, and no process that is composed with another one *)
(* has an end edge.                                                        *)
RECURSIVE EndsIn(_), Denotes(_)
EndsIn(e) ==
  CASE e.op = "REFER" -> Library[e.path].end
    [] e.op = "HIDE"  -> EndsIn(e.proc)
    [] OTHER -> Len(e.procs) = 1 /\ EndsIn(e.procs[1])

Denotes(e) ==
  CASE e.op = "REFER" -> e.path \in DOMAIN Library
    [] e.op = "HIDE"  -> Denotes(e.proc)
    [] e.op = "INTERFACE_PARALLEL" ->
         /\ e.procs # << >>
         /\ \A i \in DOMAIN e.procs : Denotes(e.procs[i])
         /\ Len(e.procs) > 1 => \A i \in DOMAIN e.procs : ~ EndsIn(e.procs[i])
    [] OTHER -> FALSE

=============================================================================
