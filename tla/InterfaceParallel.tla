-------------------------- MODULE InterfaceParallel --------------------------
(***************************************************************************)
(* Reference semantics of CSP interface parallel for a sequence of         *)
(* processes, given directly on vectors of their states: no worklist, no   *)
(* composed ids, no fold.  An event of the synchronisation set needs every *)
(* process to take it; any other event is taken by one process alone.      *)
(***************************************************************************)
EXTENDS Diagrams, FiniteSets, FiniteSetsExt, SequencesExt

Ports(ops) == 1 .. Len(ops)

InitialVector(ops) == [i \in Ports(ops) |-> ops[i].start.dst]

(* One edge of every process, all on the same event of the interface.      *)
Agreements(ops, sync, v) ==
  {c \in [Ports(ops) -> UNION {ops[i].edges : i \in Ports(ops)}] :
     /\ \A i \in Ports(ops) : c[i] \in Outgoing(ops[i], v[i])
     /\ c[1].event \in sync
     /\ \A i \in Ports(ops) : c[i].event = c[1].event}

Steps(ops, sync, v) ==
  {[event |-> c[1].event, dst |-> [i \in Ports(ops) |-> c[i].dst],
    guard |-> FlattenSeq([i \in Ports(ops) |-> c[i].guard]),
    post  |-> FlattenSeq([i \in Ports(ops) |-> c[i].post])] :
     c \in Agreements(ops, sync, v)}
  \cup
  UNION {{[event |-> e.event, dst |-> [v EXCEPT ![i] = e.dst],
           guard |-> e.guard, post |-> e.post] :
            e \in {x \in Outgoing(ops[i], v[i]) : x.event \notin sync}} :
         i \in Ports(ops)}

Vectors(ops) ==
  {v \in [Ports(ops) -> UNION {Nodes(ops[i]) : i \in Ports(ops)}] :
     \A i \in Ports(ops) : v[i] \in Nodes(ops[i])}

(* The least set of vectors that holds the initial one and is closed under *)
(* the steps of the processes.                                             *)
ReachableVectors(ops, sync) ==
  LET arcs == UNION {{<<v, m.dst>> : m \in Steps(ops, sync, v)} : v \in Vectors(ops)}
      Kept(S) == \A a \in arcs : a[1] \in S => a[2] \in S
  IN  {v \in Vectors(ops) :
         \A S \in SUBSET Vectors(ops) : InitialVector(ops) \in S /\ Kept(S) => v \in S}

=============================================================================
