------------------------------- MODULE MCRepl -------------------------------
(***************************************************************************)
(* One user of the REPL on a diagram with a loop and a silent edge, and on *)
(* one with an edge to a state that is not declared, which the parser lets *)
(* through.                                                                *)
(***************************************************************************)
EXTENDS Repl

Explored ==
  [states |-> {1, 2}, vars |-> <<1, 0>>, start |-> 1,
   edges |-> << [src |-> 1, event |-> "a", dst |-> 2],
                [src |-> 2, event |-> Tau, dst |-> 1],
                [src |-> 2, event |-> "b", dst |-> 2] >>]

Undeclared == [Explored EXCEPT !.edges = Append(@, [src |-> 2, event |-> "c", dst |-> 3])]

Declared == {Explored}
AsParsed == {Explored, Undeclared}

CommandLine(command, index) == [command |-> command, index |-> index, values |-> Malformed]
ValuesLine(values)          == [command |-> "invalid", index |-> 0, values |-> values]

MCInputs ==
  {CommandLine(c, 0) : c \in {"empty", "history", "invalid"}}
  \cup {CommandLine("select", i) : i \in 0 .. 2}
  \cup {CommandLine("jump", i) : i \in 0 .. 1}
  \cup {ValuesLine(v) : v \in {<<7>>, << >>}}

=============================================================================
