------------------------------ MODULE Session ------------------------------
(***************************************************************************)
(* csdf/animation/session.go: one exploration of a diagram, as a record    *)
(*   diagram : [states, vars, start, edges], edges in declaration order;   *)
(*   mode    : "values" while a transition awaits the values of its post   *)
(*             state, "command" otherwise;                                 *)
(*   pending : the transition [dst, event, prev] that awaits values;       *)
(*   history : the explored entries [state, trace];                        *)
(*   current : the current state [id, values].                             *)
(* An operation that fails leaves the session alone, so each is a guard    *)
(* and a result.  Indices count from 0, as requests write them.            *)
(***************************************************************************)
EXTENDS Integers, Sequences, SequencesExt

CONSTANTS
  Tau,        \* the silent event
  Malformed,  \* entered values that are no JSON array of values
  None        \* Go's nil, and the zero RuntimeState

(* The edges that leave a state, in the order of their declaration.        *)
Outgoing(d, id) ==
  LET upTo[n \in 0 .. Len(d.edges)] ==
        IF n = 0 THEN << >>
        ELSE LET found == upTo[n - 1]
             IN  IF d.edges[n].src = id THEN Append(found, d.edges[n]) ELSE found
  IN  upTo[Len(d.edges)]

(* NewSession refuses a diagram whose start state is not declared.         *)
CanStart(d) == d.start \in d.states

NewSession(d) ==
  [diagram |-> d, mode |-> "values",
   pending |-> [dst |-> d.start, event |-> Tau, prev |-> None],
   history |-> << >>, current |-> None]

(* SolveJSON accepts an array with one value for each state variable.      *)
SolveJSON(s, encoded) ==
  encoded # Malformed /\ Len(encoded) = s.diagram.vars[s.pending.dst]

currentTrace(s) == IF s.history = << >> THEN << >> ELSE Last(s.history).trace

CanEnterValues(s, encoded) == s.mode = "values" /\ SolveJSON(s, encoded)

(* Faulty variant: a silent event is recorded like the others.             *)
EnterValues_WithTau(s, encoded) ==
  LET state == [id |-> s.pending.dst, values |-> encoded]
      trace == Append(currentTrace(s), s.pending.event)
  IN  [s EXCEPT !.history = Append(@, [state |-> state, trace |-> trace]),
                !.current = state, !.mode = "command"]

EnterValues(s, encoded) ==
  LET state == [id |-> s.pending.dst, values |-> encoded]
      trace == currentTrace(s) \o
                 (IF s.pending.event = Tau THEN << >> ELSE <<s.pending.event>>)
  IN  [s EXCEPT !.history = Append(@, [state |-> state, trace |-> trace]),
                !.current = state, !.mode = "command"]

CanSelect(s, idx) ==
  /\ s.mode = "command"
  /\ LET edges == Outgoing(s.diagram, s.current.id)
     IN  idx \in 0 .. Len(edges) - 1 /\ edges[idx + 1].dst \in s.diagram.states

Select(s, idx) ==
  LET edge == Outgoing(s.diagram, s.current.id)[idx + 1]
  IN  [s EXCEPT !.pending = [dst |-> edge.dst, event |-> edge.event, prev |-> s.current],
                !.mode = "values"]

CanJump(s, idx) == s.mode = "command" /\ idx \in 0 .. Len(s.history) - 1

(* Faulty variants: the entries after the target are dropped; the target   *)
(* becomes the current state without a new entry.                          *)
Jump_Truncating(s, idx) ==
  [s EXCEPT !.history = SubSeq(@, 1, idx + 1), !.current = s.history[idx + 1].state]

Jump_InPlace(s, idx) == [s EXCEPT !.current = s.history[idx + 1].state]

Jump(s, idx) ==
  LET entry == s.history[idx + 1]
  IN  [s EXCEPT !.history = Append(@, entry), !.current = entry.state]

CanGoBack(s) == s.history # << >>

(* Faulty variant: the session goes on awaiting values.                    *)
Back_StillAwaiting(s) == [s EXCEPT !.current = Last(s.history).state]

Back(s) == [s EXCEPT !.current = Last(s.history).state, !.mode = "command"]

-----------------------------------------------------------------------------
(* The states a diagram may be in after a trace of visible events.         *)
TauReach(d, S) ==
  {s \in d.states : \A T \in SUBSET d.states :
     /\ S \cap d.states \subseteq T
     /\ \A e \in ToSet(d.edges) :
          e.event = Tau /\ e.src \in T /\ e.dst \in d.states => e.dst \in T
     => s \in T}

AfterEvent(d, S, ev) ==
  TauReach(d, {e.dst : e \in {x \in ToSet(d.edges) : x.event = ev /\ x.src \in S}})

After(d, trace) ==
  LET after[n \in 0 .. Len(trace)] ==
        IF n = 0 THEN TauReach(d, {d.start}) ELSE AfterEvent(d, after[n - 1], trace[n])
  IN  after[Len(trace)]

(* What lies behind the current position: the last entry of the history is *)
(* where the session is or where its pending transition starts.            *)
Position(s) == IF s.mode = "command" THEN s.current ELSE s.pending.prev

=============================================================================
