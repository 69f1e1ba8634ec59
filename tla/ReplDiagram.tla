---------------------------- MODULE ReplDiagram ----------------------------
(***************************************************************************)
(* What docs/CSDFREPL.puml, the repository's own state diagram of the      *)
(* csdfrepl command, promises of it once a diagram is loaded.  Its         *)
(* willDisplay states only write to the terminal and the events that edit  *)
(* a line only change that line: both stutter here, and so does a line     *)
(* that is answered with an error.                                         *)
(***************************************************************************)
EXTENDS Session

CONSTANT Inputs  \* lines a user may enter: [command, index, values]

VARIABLES
  phase,      \* "waitingStateVars", "waitingCommand", "willDisplayFatal" or "willExit"
  csdf,       \* the diagram that is explored
  history,    \* entries of a state and a trace
  state,      \* the state at a command prompt, or None
  transition  \* the event and state group values are asked for, or None

vars == <<phase, csdf, history, state, transition>>

appendVisible(trace, event) == IF event = Tau THEN trace ELSE Append(trace, event)

traceOfCommon == IF history = << >> THEN << >> ELSE Last(history).trace

Init ==
  /\ phase = "waitingStateVars"
  /\ csdf.start \in csdf.states
  /\ history = << >> /\ state = None
  /\ transition = [event |-> Tau, group |-> csdf.start]

Solves(values) == values # Malformed /\ Len(values) = csdf.vars[transition.group]

(* EventPressEnter with values the solver accepts.                         *)
EnterStateVars(line) ==
  /\ phase = "waitingStateVars" /\ Solves(line.values)
  /\ phase' = "waitingCommand"
  /\ state' = [id |-> transition.group, values |-> line.values]
  /\ history' = Append(history, [state |-> state',
                                 trace |-> appendVisible(traceOfCommon, transition.event)])
  /\ transition' = None /\ UNCHANGED csdf

(* EventCtrlC while values are asked for.                                  *)
GiveUpTransition ==
  /\ phase = "waitingStateVars" /\ history # << >>
  /\ phase' = "waitingCommand"
  /\ state' = Last(history).state
  /\ transition' = None /\ UNCHANGED <<csdf, history>>

Leave(last) ==
  /\ phase' = last
  /\ history' = << >> /\ state' = None /\ transition' = None
  /\ UNCHANGED csdf

NoSolutionsFound ==
  /\ phase = "waitingStateVars" /\ history = << >>
  /\ Leave("willDisplayFatal")

(* EventCtrlD on an empty line, or EventCtrlC at a command.                *)
Exit ==
  /\ phase \in {"waitingStateVars", "waitingCommand"}
  /\ Leave("willExit")

SelectTransition(line) ==
  LET ts == Outgoing(csdf, state.id)
  IN  /\ phase = "waitingCommand" /\ line.command = "select"
      /\ line.index < Len(ts)
      /\ ts[line.index + 1].dst \in csdf.states
      /\ phase' = "waitingStateVars"
      /\ transition' = [event |-> ts[line.index + 1].event, group |-> ts[line.index + 1].dst]
      /\ state' = None /\ UNCHANGED <<csdf, history>>

JumpTo(line) ==
  /\ phase = "waitingCommand" /\ line.command = "jump"
  /\ line.index < Len(history)
  /\ history' = Append(history, history[line.index + 1])
  /\ state' = history[line.index + 1].state
  /\ UNCHANGED <<phase, csdf, transition>>

Next ==
  \/ \E line \in Inputs : EnterStateVars(line) \/ SelectTransition(line) \/ JumpTo(line)
  \/ GiveUpTransition \/ NoSolutionsFound \/ Exit

Spec == Init /\ [][Next]_vars

=============================================================================
