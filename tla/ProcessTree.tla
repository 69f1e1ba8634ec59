----------------------------- MODULE ProcessTree -----------------------------
(***************************************************************************)
(* csdf/comptree.go, csdf/hide.go and csdf/events.go: csdfcomp reads a     *)
(* composition tree and evaluates it bottom-up, running ComposeParallel on *)
(* the diagrams its inner expressions gave; csdfparallel runs the same     *)
(* function on diagrams given as arguments.                                *)
(*                                                                         *)
(* The recursion of composeTree is a stack machine: program holds the      *)
(* expressions still to be finished, innermost first and from left to      *)
(* right, and stack the diagrams of the finished ones that wait for their  *)
(* parent.                                                                 *)
(***************************************************************************)
EXTENDS Composition, ProcessSemantics

CONSTANT Trees  \* the expressions csdfcomp is given

VARIABLES
  tree,     \* the process expression, or Arguments
  phase,    \* "parse", "eval", "compose", "done" or "failed"
  program,  \* expressions to finish, in order
  stack     \* diagrams of finished expressions

tvars == <<tree, phase, program, stack, vars>>

(* The call of csdfparallel: diagrams and a synchronisation set.           *)
Arguments == [op |-> "ARGUMENTS"]

NoJob == [ops |-> << >>, sync |-> {}]

-----------------------------------------------------------------------------
(* parseExpr reads the whole tree and refuses it when any part is broken.  *)
RECURSIVE parseExpr(_)
parseExpr(e) ==
  CASE e.op = "REFER" -> e.path # ""
    [] e.op = "HIDE" -> parseExpr(e.proc)
    [] e.op = "INTERFACE_PARALLEL" ->
         e.procs # << >> /\ \A i \in DOMAIN e.procs : parseExpr(e.procs[i])
    [] OTHER -> FALSE

(* The order in which composeTree finishes the parts of an expression.     *)
RECURSIVE Finishing(_)
Finishing(e) ==
  FlattenSeq([i \in DOMAIN Procs(e) |-> Finishing(Procs(e)[i])]) \o <<e>>

(* Faulty variant: the events are taken out instead of made internal.      *)
Hide_Removes(d, events) ==
  [d EXCEPT !.edges = {e \in d.edges : e.event \notin events}]

Hide(d, events) ==
  [d EXCEPT !.edges =
     {[e EXCEPT !.event = IF e.event \in events THEN Tau ELSE e.event] : e \in d.edges}]

EventsOf(d) == {e.event : e \in d.edges}

(* AllEvents and CommonEvents: csdfevents prints what csdfparallel is to   *)
(* synchronise on.                                                         *)
AllEvents(ds) == UNION {EventsOf(ds[i]) : i \in DOMAIN ds}

CommonEvents(ds) == {x \in AllEvents(ds) : \A i \in DOMAIN ds : x \in EventsOf(ds[i])}

(* The diagrams on the stack that belong to the n processes of the parent, *)
(* and the ones below them.                                                *)
Taken(n) == SubSeq(stack, Len(stack) - n + 1, Len(stack))
Below(n) == SubSeq(stack, 1, Len(stack) - n)

-----------------------------------------------------------------------------
TreeInit ==
  /\ \/ /\ tree \in Trees /\ phase = "parse"
        /\ program = << >> /\ stack = << >>
     \/ \E j \in Jobs :
          /\ tree = Arguments /\ phase = "eval"
          /\ program = <<Parallel(j.sync, [i \in DOMAIN j.ops |-> Arguments])>>
          /\ stack = j.ops
  /\ job = NoJob /\ pc = "idle" /\ dL = NoDiagram /\ dR = NoDiagram /\ rest = << >>
  /\ states = NoDiagram.states /\ start = NoDiagram.start /\ edges = NoDiagram.edges
  /\ marked = {} /\ queue = << >>

(* csdfcomp: ParseExpr before anything is loaded.                          *)
ParseExpr ==
  /\ phase = "parse"
  /\ IF parseExpr(tree)
     THEN phase' = "eval" /\ program' = Finishing(tree)
     ELSE phase' = "failed" /\ program' = program
  /\ UNCHANGED <<tree, stack, vars>>

(* A leaf: the diagram is loaded, or loading fails.                        *)
EvalRefer ==
  /\ phase = "eval" /\ program # << >> /\ Head(program).op = "REFER"
  /\ LET path == Head(program).path
     IN  IF path \in DOMAIN Library
         THEN /\ stack' = Append(stack, Library[path])
              /\ program' = Tail(program) /\ phase' = phase
         ELSE phase' = "failed" /\ UNCHANGED <<stack, program>>
  /\ UNCHANGED <<tree, vars>>

EvalHide ==
  /\ phase = "eval" /\ program # << >> /\ Head(program).op = "HIDE"
  /\ stack' = Append(Below(1), Hide(Last(stack), Head(program).events))
  /\ program' = Tail(program)
  /\ UNCHANGED <<tree, phase, vars>>

(* ComposeParallel is called on the diagrams of the processes.             *)
CallComposeParallel ==
  /\ phase = "eval" /\ program # << >> /\ Head(program).op = "INTERFACE_PARALLEL"
  /\ LET ops == Taken(Len(Head(program).procs))
     IN  /\ job' = [ops |-> ops, sync |-> Head(program).sync]
         /\ dL' = ops[1] /\ rest' = FoldOrder(ops)
  /\ dR' = NoDiagram
  /\ states' = NoDiagram.states /\ start' = NoDiagram.start /\ edges' = NoDiagram.edges
  /\ marked' = {} /\ queue' = << >>
  /\ pc' = "fold" /\ phase' = "compose"
  /\ UNCHANGED <<tree, program, stack>>

RunComposeParallel ==
  /\ phase = "compose"
  /\ Next
  /\ UNCHANGED <<tree, phase, program, stack>>

(* The composite takes the place of its operands; an error ends it all.    *)
EndComposeParallel ==
  /\ phase = "compose" /\ pc \in {"done", "failed"}
  /\ IF pc = "done"
     THEN /\ stack' = Append(Below(Len(job.ops)), dL)
          /\ program' = Tail(program) /\ phase' = "eval"
     ELSE phase' = "failed" /\ UNCHANGED <<stack, program>>
  /\ pc' = "idle"
  /\ UNCHANGED <<tree, job, dL, dR, rest, out, marked, queue>>

ReturnDiagram ==
  /\ phase = "eval" /\ program = << >>
  /\ phase' = "done"
  /\ UNCHANGED <<tree, program, stack, vars>>

TreeNext ==
  \/ ParseExpr
  \/ EvalRefer
  \/ EvalHide
  \/ CallComposeParallel
  \/ RunComposeParallel
  \/ EndComposeParallel
  \/ ReturnDiagram

(* A single goroutine runs the command to its end.                         *)
TreeSpec == TreeInit /\ [][TreeNext]_tvars /\ WF_tvars(TreeNext)

-----------------------------------------------------------------------------
(* csdfcomp gives a diagram exactly when its tree denotes a process, and   *)
(* what can be reached in that diagram is the process, by structure: each  *)
(* reachable vector of leaf states has an id no other one has, although    *)
(* ids of composites hold the joining character and composites are nested  *)
(* in any position; its contents and its steps are those of the leaves,    *)
(* renamed by every hiding above them and synchronised by every parallel   *)
(* above them, after the hidings below it (csdf/comptree.go:155-189).      *)
TreeIsProcess ==
  tree # Arguments =>
    /\ phase = "failed" => ~ Denotes(tree)
    /\ phase = "done" =>
         LET d     == stack[1]
             reach == ReachableStates(tree)
         IN  /\ Denotes(tree) /\ Len(stack) = 1
             /\ d.start = [dst |-> IDOf(tree, StartOf(tree)), post |-> StartPost(tree)]
             /\ Cardinality({IDOf(tree, v) : v \in reach}) = Cardinality(reach)
             /\ \A v \in reach :
                  /\ StateOf(d, IDOf(tree, v)) = ContentsOf(tree, v)
                  /\ Outgoing(d, IDOf(tree, v)) =
                       {[src |-> IDOf(tree, v), event |-> x.event, dst |-> IDOf(tree, x.dst),
                         guard |-> x.guard, post |-> x.post] : x \in StepsOf(tree, v)}

(* The command comes to an end, with a diagram or with an error: neither   *)
(* the recursion nor any worklist under it goes on for ever.               *)
Returns == <>(phase \in {"done", "failed"})

=============================================================================
