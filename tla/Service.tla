------------------------------ MODULE Service ------------------------------
(***************************************************************************)
(* csdf/animation/proto/service.go under the daemon's goroutines: one      *)
(* handleConn per connection reads a request, calls Handle and writes the  *)
(* response.  Handle holds the service's mutex from its first line until   *)
(* it returns; inside, a session is looked up, changed and rendered in     *)
(* steps of their own here, so that what the mutex is for can go wrong.    *)
(*                                                                         *)
(* The three bounds keep the clients from growing the state for ever.      *)
(***************************************************************************)
EXTENDS Session, FiniteSets

CONSTANTS
  Conn,         \* connections
  Requests,     \* requests: [command, session, diagram, index, values]
  MaxSessions,  \* bound on the number of sessions ever created
  MaxHistory    \* bound on the length of a session's history

ASSUME NoneAssumption == None \notin Requests /\ None \notin Conn

(* A diagram lists its edges.                                              *)
ASSUME DiagramsAssumption ==
  \A r \in Requests :
    r.command = "session_new" => r.diagram.edges \in Seq(ToSet(r.diagram.edges))

VARIABLES
  sessions,  \* s.sessions, the session of each id
  order,     \* s.order
  nextID,    \* s.nextID
  holder,    \* the connection that holds s.mu, or None
  pc,        \* "idle", "lock", "handle", "found", "view", "unlock" or "write"
  req,       \* the request of a connection, or None
  found,     \* the id that resolve returned
  resp       \* the response of a connection, or None

store == <<sessions, order, nextID>>

vars == <<store, holder, pc, req, found, resp>>

SessionCommands ==
  {"session_rm", "read", "select", "statevar", "trace", "history", "jump"}

Failure == [ok |-> FALSE]

Init ==
  /\ sessions = [n \in {} |-> None] /\ order = << >> /\ nextID = 0
  /\ holder = None
  /\ pc = [c \in Conn |-> "idle"]
  /\ req = [c \in Conn |-> None] /\ found = [c \in Conn |-> None]
  /\ resp = [c \in Conn |-> None]

(* Requests under way of the given commands.                               *)
Waiting(commands) == {c \in Conn : req[c] # None /\ req[c].command \in commands}

WithinBounds(r) ==
  /\ r.command = "session_new" =>
       nextID + Cardinality(Waiting({"session_new"})) < MaxSessions
  /\ r.command \in {"statevar", "jump"} =>
       \A n \in DOMAIN sessions :
         Len(sessions[n].history) + Cardinality(Waiting({"statevar", "jump"})) < MaxHistory

(* handleConn has read a request.                                          *)
ReadRequest(c) ==
  /\ pc[c] = "idle"
  /\ \E r \in Requests : WithinBounds(r) /\ req' = [req EXCEPT ![c] = r]
  /\ pc' = [pc EXCEPT ![c] = "lock"]
  /\ UNCHANGED <<store, holder, found, resp>>

(* Faulty variant: Handle does not wait for the mutex.                     *)
Lock_NotAwaited(c) ==
  /\ pc[c] = "lock"
  /\ holder' = c
  /\ pc' = [pc EXCEPT ![c] = "handle"]
  /\ UNCHANGED <<store, req, found, resp>>

Lock(c) ==
  /\ pc[c] = "lock" /\ holder = None
  /\ holder' = c
  /\ pc' = [pc EXCEPT ![c] = "handle"]
  /\ UNCHANGED <<store, req, found, resp>>

(* Handle's dispatch and what follows it, up to the deferred Unlock.       *)
Reply(c, r) == resp' = [resp EXCEPT ![c] = r] /\ pc' = [pc EXCEPT ![c] = "unlock"]

(* Faulty variant: ids are numbered by the live sessions.                  *)
NewID_Reused == Len(order) + 1

NewID == nextID + 1

handleSessionNew(c) ==
  /\ pc[c] = "handle" /\ req[c].command = "session_new"
  /\ IF CanStart(req[c].diagram)
       THEN /\ nextID' = NewID
            /\ sessions' = [n \in DOMAIN sessions \cup {NewID} |->
                              IF n = NewID THEN NewSession(req[c].diagram) ELSE sessions[n]]
            /\ order' = Append(order, NewID)
            /\ Reply(c, [ok |-> TRUE, session |-> NewID])
       ELSE /\ UNCHANGED store
            /\ Reply(c, Failure)
  /\ UNCHANGED <<holder, req, found>>

(* The listing follows the order of creation.                              *)
handleSessionList(c) ==
  /\ pc[c] = "handle" /\ req[c].command = "session_list"
  /\ Reply(c, [ok |-> TRUE,
               sessions |-> [i \in DOMAIN order |-> <<order[i], sessions[order[i]].mode>>]])
  /\ UNCHANGED <<store, holder, req, found>>

handleServerVersion(c) ==
  /\ pc[c] = "handle" /\ req[c].command = "server_version"
  /\ Reply(c, [ok |-> TRUE])
  /\ UNCHANGED <<store, holder, req, found>>

(* resolve: the session named, or the only one when none is named.         *)
resolve(c) ==
  /\ pc[c] = "handle" /\ req[c].command \in SessionCommands
  /\ \/ /\ req[c].session = None /\ Cardinality(DOMAIN sessions) = 1
        /\ found' = [found EXCEPT ![c] = Last(order)]
        /\ pc' = [pc EXCEPT ![c] = "found"] /\ UNCHANGED resp
     \/ /\ req[c].session = None /\ Cardinality(DOMAIN sessions) # 1
        /\ Reply(c, Failure) /\ UNCHANGED found
     \/ /\ req[c].session # None /\ req[c].session \in DOMAIN sessions
        /\ found' = [found EXCEPT ![c] = req[c].session]
        /\ pc' = [pc EXCEPT ![c] = "found"] /\ UNCHANGED resp
     \/ /\ req[c].session # None /\ req[c].session \notin DOMAIN sessions
        /\ Reply(c, Failure) /\ UNCHANGED found
  /\ UNCHANGED <<store, holder, req>>

(* Faulty variant: the id stays in the order of creation.                  *)
removeString_Kept(items, target) == items

(* The ids in the order are distinct (see OrderListsSessions), so there is *)
(* one item to leave out.                                                  *)
removeString(items, target) ==
  IF target \in ToSet(items)
  THEN RemoveAt(items, CHOOSE i \in DOMAIN items : items[i] = target)
  ELSE items

handleSessionRm(c) ==
  /\ pc[c] = "found" /\ req[c].command = "session_rm"
  /\ sessions' = [n \in DOMAIN sessions \ {found[c]} |-> sessions[n]]
  /\ order' = removeString(order, found[c])
  /\ Reply(c, [ok |-> TRUE, session |-> found[c]])
  /\ UNCHANGED <<nextID, holder, req, found>>

(* The session changes to s and its position is rendered next, or nothing  *)
(* changes and the request fails.                                          *)
Change(c, allowed, s) ==
  /\ IF allowed
       THEN /\ sessions' = [sessions EXCEPT ![found[c]] = s]
            /\ pc' = [pc EXCEPT ![c] = "view"] /\ UNCHANGED resp
       ELSE Reply(c, Failure) /\ UNCHANGED sessions
  /\ UNCHANGED <<order, nextID, holder, req, found>>

Session(c) == sessions[found[c]]

handleSelect(c) ==
  /\ pc[c] = "found" /\ req[c].command = "select"
  /\ IF req[c].index = None
       THEN Change(c, TRUE, Session(c))
       ELSE Change(c, CanSelect(Session(c), req[c].index), Select(Session(c), req[c].index))

handleStatevar(c) ==
  /\ pc[c] = "found" /\ req[c].command = "statevar"
  /\ Change(c, CanEnterValues(Session(c), req[c].values),
            EnterValues(Session(c), req[c].values))

handleJump(c) ==
  /\ pc[c] = "found" /\ req[c].command = "jump"
  /\ Change(c, req[c].index # None /\ CanJump(Session(c), req[c].index),
            Jump(Session(c), req[c].index))

handleRead(c) ==
  /\ pc[c] = "found" /\ req[c].command = "read"
  /\ Change(c, TRUE, Session(c))

handleTrace(c) ==
  /\ pc[c] = "found" /\ req[c].command = "trace"
  /\ Reply(c, [ok |-> TRUE, session |-> found[c], trace |-> currentTrace(Session(c))])
  /\ UNCHANGED <<store, holder, req, found>>

handleHistory(c) ==
  /\ pc[c] = "found" /\ req[c].command = "history"
  /\ Reply(c, [ok |-> TRUE, session |-> found[c], history |-> Session(c).history])
  /\ UNCHANGED <<store, holder, req, found>>

View(id) ==
  [ok |-> TRUE, session |-> id, mode |-> sessions[id].mode,
   at |-> IF sessions[id].mode = "values" THEN sessions[id].pending ELSE sessions[id].current]

viewResponse(c) ==
  /\ pc[c] = "view"
  /\ Reply(c, View(found[c]))
  /\ UNCHANGED <<store, holder, req, found>>

(* Faulty variant: the mutex is released on success only.                  *)
Unlock_OnSuccess(c) ==
  /\ pc[c] = "unlock"
  /\ holder' = IF resp[c].ok THEN None ELSE holder
  /\ pc' = [pc EXCEPT ![c] = "write"]
  /\ UNCHANGED <<store, req, found, resp>>

(* Handle returns.                                                         *)
Unlock(c) ==
  /\ pc[c] = "unlock"
  /\ holder' = None
  /\ pc' = [pc EXCEPT ![c] = "write"]
  /\ UNCHANGED <<store, req, found, resp>>

(* The response is written, or the write fails; the connection is closed.  *)
WriteResponse(c) ==
  /\ pc[c] = "write"
  /\ pc' = [pc EXCEPT ![c] = "idle"]
  /\ req' = [req EXCEPT ![c] = None] /\ found' = [found EXCEPT ![c] = None]
  /\ resp' = [resp EXCEPT ![c] = None]
  /\ UNCHANGED <<store, holder>>

Handle(c) ==
  \/ handleSessionNew(c) \/ handleSessionList(c) \/ handleServerVersion(c)
  \/ resolve(c)
  \/ handleSessionRm(c) \/ handleSelect(c) \/ handleStatevar(c) \/ handleJump(c)
  \/ handleRead(c) \/ handleTrace(c) \/ handleHistory(c)
  \/ viewResponse(c)

Next ==
  \E c \in Conn : ReadRequest(c) \/ Lock(c) \/ Handle(c) \/ Unlock(c) \/ WriteResponse(c)

(* A goroutine that can run runs, and a sync.Mutex hands itself over to a  *)
(* goroutine that has waited for it a millisecond.                         *)
Fairness ==
  \A c \in Conn :
    /\ SF_vars(Lock(c))
    /\ WF_vars(Handle(c)) /\ WF_vars(Unlock(c)) /\ WF_vars(WriteResponse(c))

Spec == Init /\ [][Next]_vars /\ Fairness

-----------------------------------------------------------------------------
Inside == {"handle", "found", "view", "unlock"}

(* Every variable stays in its domain; whoever is in Handle holds the      *)
(* mutex, and what a handler found there it still finds.                   *)
TypeOK ==
  /\ nextID \in Nat /\ DOMAIN sessions \subseteq 1 .. nextID
  /\ order \in Seq(1 .. nextID)
  /\ holder \in Conn \cup {None}
  /\ \A c \in Conn :
       /\ pc[c] \in {"idle", "lock", "write"} \cup Inside
       /\ pc[c] = "idle" <=> req[c] = None
       /\ pc[c] \in Inside <=> holder = c
       /\ pc[c] \in {"found", "view"} => found[c] \in DOMAIN sessions

(* The creation order that listings and resolve read is in step with the   *)
(* table of sessions, whatever was removed and in which order: each live   *)
(* session is in it once, after those created before it.                   *)
OrderListsSessions ==
  /\ ToSet(order) = DOMAIN sessions
  /\ \A i, j \in DOMAIN order : i < j => order[i] < order[j]

(* After any requests of any clients, each entry of a session's history    *)
(* holds a trace by which the diagram can reach the entry's state, and the *)
(* next entry will too: the session stands at the last entry, a pending    *)
(* transition is an edge that leaves that entry's state.                   *)
HistoryIsReachable ==
  \A n \in DOMAIN sessions :
    LET s == sessions[n]
    IN  /\ \A i \in DOMAIN s.history :
             /\ s.history[i].state.id \in After(s.diagram, s.history[i].trace)
             /\ Len(s.history[i].state.values) = s.diagram.vars[s.history[i].state.id]
        /\ Position(s) = IF s.history = << >> THEN None ELSE Last(s.history).state
        /\ s.mode = "values" =>
             IF s.history = << >> THEN s.pending.dst = s.diagram.start
             ELSE \E e \in ToSet(s.diagram.edges) :
                    /\ e.src = s.pending.prev.id
                    /\ e.dst = s.pending.dst /\ e.event = s.pending.event

(* A session's history is a record: no request takes an entry out of it or *)
(* changes one, so an index a client has seen goes on meaning that entry,  *)
(* and the number of a removed session never means another one.            *)
HistoryKept ==
  [][/\ \A n \in DOMAIN sessions \cap DOMAIN sessions' :
          IsPrefix(sessions[n].history, sessions'[n].history)
     /\ \A n \in DOMAIN sessions' \ DOMAIN sessions : n > nextID]_vars

(***************************************************************************)
(* The service implements SessionStore: a request takes effect when its    *)
(* handler changes or reads the tables, and what is rendered afterwards    *)
(* is still the position at that instant.                                  *)
(***************************************************************************)
answered(c) ==
  CASE pc[c] = "view"                -> << View(found[c]) >>
    [] pc[c] \in {"unlock", "write"} -> << resp[c] >>
    [] OTHER                         -> << >>

Promise == INSTANCE SessionStore WITH
  lastID <- nextID, call <- req, answer <- [c \in Conn |-> answered(c)]

(* Each request takes effect at one instant, as if clients took turns.     *)
TakesEffectAtOnce == Promise!Spec

(* Every request is answered, however many clients compete.                *)
Answered == \A c \in Conn : pc[c] = "lock" ~> pc[c] = "idle"

=============================================================================
