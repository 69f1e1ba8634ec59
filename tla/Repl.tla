-------------------------------- MODULE Repl --------------------------------
(***************************************************************************)
(* tools/csdfrepl/csdfreplcmd/csdfrepl.go: the nested loops of run and     *)
(* askStateValues over a Session, in a terminal or on a pipe.  On a pipe a *)
(* goroutine reads lines and hands them over one at a time; interrupts     *)
(* wait in a channel that holds one.  A step is what happens between two   *)
(* reads: nothing else touches the session meanwhile.                      *)
(*                                                                         *)
(* A line is a record of what either prompt makes of its text: the command *)
(* and index parseCommand finds in it, and the values the solver decodes.  *)
(***************************************************************************)
EXTENDS Session

CONSTANTS
  Diagrams,   \* diagrams explored
  Inputs,     \* lines: [command, index, values]
  MaxEntries  \* bound on the explored entries: lines that add one stop there

VARIABLES
  terminal,   \* stdin and stdout are a terminal
  session,    \* r.session
  at,         \* the prompt, "values" or "command", or how the command ended
  checked,    \* readLine found no interrupt and waits
  interrupts, \* the channel of that name holds one
  line        \* the result newLineReader's goroutine offers, or None

replVars == <<terminal, session, at, checked, interrupts, line>>

Prompts == {"values", "command"}

EOF     == [err |-> "EOF"]
Broken  == [err |-> "broken"]
Line(l) == [err |-> "nil", line |-> l]

(* runWithSolver has loaded a diagram; a signal may be there already.      *)
ReplInit ==
  /\ terminal \in BOOLEAN
  /\ \E d \in Diagrams : CanStart(d) /\ session = NewSession(d)
  /\ at = "values" /\ checked = FALSE
  /\ interrupts = FALSE
  /\ line = None

Signal ==
  /\ at \in Prompts
  /\ interrupts' = TRUE
  /\ UNCHANGED <<terminal, session, at, checked, line>>

LineFits(l) ==
  l.command = "jump" \/ l.values # Malformed => Len(session.history) < MaxEntries

(* The goroutine reads a line, or finds the end or an error and returns    *)
(* once that is taken.  What follows the last line break is dropped.       *)
ReadString ==
  /\ ~ terminal /\ line = None /\ at \in Prompts
  /\ \/ \E l \in Inputs : LineFits(l) /\ line' = Line(l)
     \/ line' \in {EOF, Broken}
  /\ UNCHANGED <<terminal, session, at, checked, interrupts>>

-----------------------------------------------------------------------------
Prompt(p) == at' = p /\ checked' = FALSE

(* inputExit and inputFatal are treated alike at either prompt.            *)
(* Faulty variant: the end of the input is taken for an empty line.        *)
OnEnd_Prompting(err) ==
  /\ Prompt(IF err = "EOF" THEN at ELSE "unreadable")
  /\ UNCHANGED session

OnEnd(err) ==
  /\ Prompt(IF err = "EOF" THEN "exited" ELSE "unreadable")
  /\ UNCHANGED session

(* Faulty variant: giving values up drops the entry one came from.         *)
OnInterrupt_Dropping ==
  \/ /\ at = "command"
     /\ Prompt("exited") /\ UNCHANGED session
  \/ /\ at = "values" /\ ~ CanGoBack(session)
     /\ Prompt("noSolutions") /\ UNCHANGED session
  \/ /\ at = "values" /\ CanGoBack(session)
     /\ session' = Back([session EXCEPT !.history =
                           IF Len(@) > 1 THEN SubSeq(@, 1, Len(@) - 1) ELSE @])
     /\ Prompt("command")

(* The command prompt exits; the value prompt gives the transition up, or  *)
(* the exploration when there is no state to return to.                    *)
OnInterrupt ==
  \/ /\ at = "command"
     /\ Prompt("exited") /\ UNCHANGED session
  \/ /\ at = "values" /\ ~ CanGoBack(session)
     /\ Prompt("noSolutions") /\ UNCHANGED session
  \/ /\ at = "values" /\ CanGoBack(session)
     /\ session' = Back(session)
     /\ Prompt("command")

(* askStateValues: anything but a solution is reported and asked again.    *)
OnValues(l) ==
  /\ at = "values"
  /\ IF CanEnterValues(session, l.values)
       THEN session' = EnterValues(session, l.values) /\ Prompt("command")
       ELSE UNCHANGED session
            /\ Prompt(IF session.mode = "values" THEN "values" ELSE "notAwaiting")

(* Commands that only display, and lines that are no command.              *)
OnDisplay(l) ==
  /\ at = "command" /\ l.command \in {"empty", "list", "trace", "history", "help", "invalid"}
  /\ Prompt("command") /\ UNCHANGED session

OutOfRange(l, n) == l.index \notin 0 .. n - 1

(* An index out of range is reported; other errors end the command.        *)
OnJump(l) ==
  /\ at = "command" /\ l.command = "jump"
  /\ IF CanJump(session, l.index)
       THEN session' = Jump(session, l.index) /\ Prompt("command")
       ELSE UNCHANGED session
            /\ Prompt(IF session.mode # "command" THEN "notCommanding" ELSE "command")

OnSelect(l) ==
  /\ at = "command" /\ l.command = "select"
  /\ IF CanSelect(session, l.index)
       THEN session' = Select(session, l.index) /\ Prompt("values")
       ELSE UNCHANGED session
            /\ Prompt(CASE session.mode # "command" -> "notCommanding"
                        [] OutOfRange(l, Len(Outgoing(session.diagram, session.current.id)))
                             -> "command"
                        [] OTHER -> "dangling")

OnLine(l) == OnValues(l) \/ OnDisplay(l) \/ OnJump(l) \/ OnSelect(l)

-----------------------------------------------------------------------------
(* Faulty variant: readLine does not look for an interrupt first.          *)
CheckInterrupts_Not ==
  /\ at \in Prompts /\ ~ checked
  /\ checked' = TRUE
  /\ UNCHANGED <<terminal, session, at, interrupts, line>>

(* readLine, in either of its modes: an interrupt that is there goes first. *)
CheckInterrupts ==
  /\ at \in Prompts /\ ~ checked
  /\ \/ /\ interrupts
        /\ interrupts' = FALSE
        /\ OnInterrupt
     \/ /\ ~ interrupts
        /\ checked' = TRUE
        /\ UNCHANGED <<session, at, interrupts>>
  /\ UNCHANGED <<terminal, line>>

(* On a pipe, an interrupt and a line that are both there compete.         *)
WaitOnPipe ==
  /\ ~ terminal /\ at \in Prompts /\ checked
  /\ \/ /\ interrupts
        /\ interrupts' = FALSE
        /\ OnInterrupt
        /\ UNCHANGED line
     \/ /\ line # None /\ line.err # "nil"
        /\ OnEnd(line.err)
        /\ line' = None /\ UNCHANGED interrupts
     \/ /\ line # None /\ line.err = "nil"
        /\ OnLine(line.line)
        /\ line' = None /\ UNCHANGED interrupts
  /\ UNCHANGED terminal

(* In a terminal, Ctrl+C is a byte of the input; a signal has to wait.     *)
WaitInTerminal ==
  /\ terminal /\ at \in Prompts /\ checked
  /\ \/ OnInterrupt
     \/ \E err \in {"EOF", "broken"} : OnEnd(err)
     \/ \E l \in Inputs : LineFits(l) /\ OnLine(l)
  /\ UNCHANGED <<terminal, interrupts, line>>

ReplNext == Signal \/ ReadString \/ CheckInterrupts \/ WaitOnPipe \/ WaitInTerminal

(* The main goroutine runs when it can; nobody has to type or interrupt.   *)
ReplSpec == ReplInit /\ [][ReplNext]_replVars /\ WF_replVars(CheckInterrupts) /\ WF_replVars(WaitOnPipe)

-----------------------------------------------------------------------------
(* The front end and the session never disagree on what is awaited: no     *)
(* line is answered by the session's "not awaiting values" or "not in      *)
(* command mode", which would end the command and lose the exploration.    *)
ModesInStep ==
  /\ at \in Prompts => session.mode = at
  /\ at \notin {"notAwaiting", "notCommanding"}

(* On a pipe an interrupt is heeded however fast lines come in.            *)
InterruptsHeeded == (~ terminal /\ interrupts) ~> (~ interrupts \/ at \notin Prompts)

(* On a pipe the command ends once its input has ended.                    *)
EndsWithInput == line \in {EOF, Broken} ~> at \notin Prompts

(***************************************************************************)
(* The command does what docs/CSDFREPL.puml says.  An input that cannot be *)
(* read ends it like the end of the input.                                 *)
(***************************************************************************)
documentedPhase ==
  CASE at = "values" -> "waitingStateVars"
    [] at = "command" -> "waitingCommand"
    [] at \in {"exited", "unreadable"} -> "willExit"
    [] at = "noSolutions" -> "willDisplayFatal"
    [] OTHER -> at

documentedTransition ==
  IF at = "values" THEN [event |-> session.pending.event, group |-> session.pending.dst]
  ELSE None

documentedHistory == IF at \in Prompts THEN session.history ELSE << >>

documentedState == IF at = "command" THEN session.current ELSE None

Documented == INSTANCE ReplDiagram WITH
  phase <- documentedPhase, csdf <- session.diagram, history <- documentedHistory,
  state <- documentedState, transition <- documentedTransition

(* Histories, traces and states are those of the documented diagram at     *)
(* every prompt, whatever lines, interrupts and signals come together.     *)
BehavesAsDocumented == Documented!Spec

=============================================================================
