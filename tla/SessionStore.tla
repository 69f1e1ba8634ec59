---------------------------- MODULE SessionStore ----------------------------
(***************************************************************************)
(* What the session service promises its clients: each request takes       *)
(* effect at one instant between its arrival and its answer, on a store of *)
(* numbered sessions.  There is no lock, no listing order and no step      *)
(* between looking a session up and answering about it.                    *)
(***************************************************************************)
EXTENDS Session

CONSTANTS
  Conn,     \* connections, each carrying one request at a time
  Requests  \* requests: [command, session, diagram, index, values]

VARIABLES
  sessions,  \* the live sessions, by number
  lastID,    \* number of the session created last
  call,      \* the request of a connection, or None
  answer     \* its answer once it took effect, a sequence of at most one

vars == <<sessions, lastID, call, answer>>

Failure == [ok |-> FALSE]

(* The sessions a request may mean: without a number, the only one.        *)
Meant(r) ==
  IF r.session = None
    THEN {n \in DOMAIN sessions : DOMAIN sessions = {n}}
    ELSE {r.session} \cap DOMAIN sessions

(* What the client is told of a session's position.                        *)
View(n, s) ==
  [ok |-> TRUE, session |-> n, mode |-> s.mode,
   at |-> IF s.mode = "values" THEN s.pending ELSE s.current]

(* A listing goes by number, which is the order of creation.               *)
Increasing(q) == \A i, j \in DOMAIN q : i < j => q[i] < q[j]

Numbers ==
  {q \in SeqOf(DOMAIN sessions, lastID) : Increasing(q) /\ ToSet(q) = DOMAIN sessions}

Listing(q) ==
  [ok |-> TRUE, sessions |-> [i \in DOMAIN q |-> <<q[i], sessions[q[i]].mode>>]]

Init ==
  /\ sessions = [n \in {} |-> None] /\ lastID = 0
  /\ call = [c \in Conn |-> None] /\ answer = [c \in Conn |-> << >>]

Call(c) ==
  /\ call[c] = None
  /\ \E r \in Requests : call' = [call EXCEPT ![c] = r]
  /\ UNCHANGED <<sessions, lastID, answer>>

Answer(c, a) == answer' = [answer EXCEPT ![c] = << a >>] /\ UNCHANGED call

Create(c) ==
  /\ CanStart(call[c].diagram)
  /\ lastID' = lastID + 1
  /\ sessions' = [n \in DOMAIN sessions \cup {lastID'} |->
                    IF n = lastID' THEN NewSession(call[c].diagram) ELSE sessions[n]]
  /\ Answer(c, [ok |-> TRUE, session |-> lastID'])

Discard(c, n) ==
  /\ sessions' = [m \in DOMAIN sessions \ {n} |-> sessions[m]]
  /\ Answer(c, [ok |-> TRUE, session |-> n])
  /\ UNCHANGED lastID

Update(c, n, s) ==
  /\ sessions' = [sessions EXCEPT ![n] = s]
  /\ Answer(c, View(n, s))
  /\ UNCHANGED lastID

Read(c, a) == Answer(c, a) /\ UNCHANGED <<sessions, lastID>>

(* A request that means a session, and succeeds.                           *)
Perform(c, n, r, s) ==
  \/ r.command = "session_rm" /\ Discard(c, n)
  \/ r.command = "read" /\ Read(c, View(n, s))
  \/ r.command = "trace" /\ Read(c, [ok |-> TRUE, session |-> n, trace |-> currentTrace(s)])
  \/ r.command = "history" /\ Read(c, [ok |-> TRUE, session |-> n, history |-> s.history])
  \/ r.command = "select" /\ r.index = None /\ Read(c, View(n, s))
  \/ r.command = "select" /\ r.index # None /\ CanSelect(s, r.index)
       /\ Update(c, n, Select(s, r.index))
  \/ r.command = "statevar" /\ CanEnterValues(s, r.values)
       /\ Update(c, n, EnterValues(s, r.values))
  \/ r.command = "jump" /\ r.index # None /\ CanJump(s, r.index)
       /\ Update(c, n, Jump(s, r.index))

(* A request that fails: nothing changes.                                  *)
Refused(r) ==
  \/ r.command = "session_new" /\ ~ CanStart(r.diagram)
  \/ r.command \notin {"session_new", "session_list", "server_version"} /\ Meant(r) = {}
  \/ \E n \in Meant(r) :
       \/ r.command = "select" /\ r.index # None /\ ~ CanSelect(sessions[n], r.index)
       \/ r.command = "statevar" /\ ~ CanEnterValues(sessions[n], r.values)
       \/ r.command = "jump" /\ (r.index = None \/ ~ CanJump(sessions[n], r.index))

Serve(c) ==
  /\ call[c] # None /\ answer[c] = << >>
  /\ \/ call[c].command = "session_new" /\ Create(c)
     \/ call[c].command = "session_list" /\ \E q \in Numbers : Read(c, Listing(q))
     \/ call[c].command = "server_version" /\ Read(c, [ok |-> TRUE])
     \/ \E n \in Meant(call[c]) : Perform(c, n, call[c], sessions[n])
     \/ Refused(call[c]) /\ Read(c, Failure)

Return(c) ==
  /\ answer[c] # << >>
  /\ call' = [call EXCEPT ![c] = None] /\ answer' = [answer EXCEPT ![c] = << >>]
  /\ UNCHANGED <<sessions, lastID>>

Next == \E c \in Conn : Call(c) \/ Serve(c) \/ Return(c)

Spec == Init /\ [][Next]_vars

=============================================================================
