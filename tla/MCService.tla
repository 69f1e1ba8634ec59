----------------------------- MODULE MCService -----------------------------
(***************************************************************************)
(* Two clients that create, explore, list and remove up to two sessions of *)
(* a diagram with a loop, a silent edge and an edge to a state that is not *)
(* declared, and one that tries a diagram without its start state.         *)
(***************************************************************************)
EXTENDS Service

(* Edges of one state are numbered by their order.                         *)
Explored ==
  [states |-> {1, 2}, vars |-> <<1, 0>>, start |-> 1,
   edges |-> << [src |-> 1, event |-> "a", dst |-> 2],
                [src |-> 2, event |-> Tau, dst |-> 1],
                [src |-> 2, event |-> "b", dst |-> 3] >>]

NoStart == [Explored EXCEPT !.start = 3]

R(command, session) ==
  [command |-> command, session |-> session, diagram |-> None, index |-> None, values |-> None]

MCRequests ==
  {[R("session_new", None) EXCEPT !.diagram = d] : d \in {Explored, NoStart}}
  \cup {R("session_list", None), R("server_version", None),
        R("session_rm", None), R("session_rm", 1),
        R("read", 1), R("trace", None), R("history", 2), R("select", 1), R("jump", 1)}
  \cup {[R("select", 1) EXCEPT !.index = i] : i \in {0, 1}}
  \cup {[R("statevar", 1) EXCEPT !.values = v] : v \in {<<7>>, << >>}}
  \cup {[R("select", None) EXCEPT !.index = 0],
        [R("statevar", None) EXCEPT !.values = Malformed],
        [R("jump", 1) EXCEPT !.index = 0], [R("jump", 1) EXCEPT !.index = -1]}

=============================================================================
