--------------------------- MODULE SessionProofs ---------------------------
(***************************************************************************)
(* The programs that explore through sessions.                             *)
(*                                                                         *)
(* The session service, for any number of clients and sessions and any     *)
(* requests: the mutex keeps the tables in step, histories are kept, and   *)
(* every request takes effect at one instant on a store without a mutex.   *)
(*                                                                         *)
(* The REPL, for any diagrams and any lines: the front end and the session *)
(* agree on what is awaited, and the command does what its documented      *)
(* state diagram says when every transition it offers leads to a declared  *)
(* state.                                                                  *)
(*                                                                         *)
(* The daemon that serves them, for every finite set of processes that     *)
(* share the path of a socket and every set of clients: what holds as long *)
(* as no two daemons start or stop at once, and that no socket file        *)
(* outlives the daemons that ended of themselves.                          *)
(***************************************************************************)
EXTENDS Service, Repl, Daemon, FiniteSetTheorems, SequenceTheorems, Recursion, TLAPS

(* A session is a record, and its history a sequence.                      *)
HasFields(s) ==
  /\ s = [x \in DOMAIN s |-> s[x]]
  /\ DOMAIN s = {"diagram", "mode", "pending", "history", "current"}

IsSession(s) == HasFields(s) /\ \E X : s.history \in Seq(X)

(* The three tables of the service.                                        *)
TablesInv ==
  /\ nextID \in Nat /\ DOMAIN sessions \subseteq 1 .. nextID
  /\ order \in Seq(1 .. nextID)
  /\ OrderListsSessions
  /\ sessions = [n \in DOMAIN sessions |-> sessions[n]]
  /\ \A n \in DOMAIN sessions : IsSession(sessions[n])

Locations == {"idle", "lock", "write"} \cup Inside

(* What a connection knows.  A session it has found is one its request may *)
(* mean, as long as it holds the mutex.                                    *)
Knows(c) ==
  /\ pc[c] = "idle" <=> req[c] = None
  /\ pc[c] \in Inside <=> holder = c
  /\ pc[c] \in {"found", "view"} => found[c] \in DOMAIN sessions
  /\ pc[c] = "found" => req[c].command \in SessionCommands /\ found[c] \in Promise!Meant(req[c])

ConnInv ==
  /\ holder \in Conn \cup {None}
  /\ pc \in [Conn -> Locations]
  /\ req \in [Conn -> Requests \cup {None}]
  /\ found = [c \in Conn |-> found[c]]
  /\ resp = [c \in Conn |-> resp[c]]
  /\ \A c \in Conn : Knows(c)

IInv == TablesInv /\ ConnInv

-----------------------------------------------------------------------------
LEMMA InitIInv == ASSUME Init PROVE IInv
<1>1. TablesInv
  <2>1. DOMAIN sessions = {} /\ nextID = 0 /\ order = << >>
    BY DEF Init
  <2>2. << >> \in Seq(1 .. 0) /\ DOMAIN << >> = {}
    OBVIOUS
  <2>3. OrderListsSessions
    BY <2>1, <2>2 DEF OrderListsSessions, ToSet
  <2>4. sessions = [n \in DOMAIN sessions |-> sessions[n]]
    BY DEF Init
  <2> QED BY <2>1, <2>2, <2>3, <2>4 DEF TablesInv
<1>2. ConnInv
  BY NoneAssumption DEF Init, ConnInv, Knows, Locations, Inside
<1> QED BY <1>1, <1>2 DEF IInv

(* The mutex: one connection is in Handle at a time.                       *)
LEMMA Mutex ==
  ASSUME IInv, NEW c \in Conn, NEW d \in Conn, pc[c] \in Inside, pc[d] \in Inside
  PROVE  c = d
  BY DEF IInv, ConnInv, Knows

(* A step of one connection that leaves the mutex and the tables alone, or *)
(* is within the mutex.                                                    *)
LEMMA ConnStep ==
  ASSUME IInv, NEW c \in Conn, NEW l \in Locations, NEW r \in Requests \cup {None},
         pc' = [pc EXCEPT ![c] = l], req' = [req EXCEPT ![c] = r],
         found' = [x \in Conn |-> found'[x]], resp' = [x \in Conn |-> resp'[x]],
         \A x \in Conn \ {c} : found'[x] = found[x],
         holder' \in Conn \cup {None},
         \A x \in Conn \ {c} : holder' = x <=> holder = x,
         UNCHANGED sessions \/ pc[c] \in Inside,
         Knows(c)'
  PROVE  ConnInv'
<1>1. ASSUME NEW x \in Conn \ {c} PROVE Knows(x)'
  <2>1. pc'[x] = pc[x] /\ req'[x] = req[x] /\ found'[x] = found[x]
    BY DEF IInv, ConnInv
  <2>2. Knows(x)
    BY DEF IInv, ConnInv
  <2>3. CASE UNCHANGED sessions
    BY <2>1, <2>2, <2>3 DEF Knows, Promise!Meant
  <2>4. CASE pc[c] \in Inside
    <3>1. pc[x] \notin Inside
      BY <2>4, Mutex
    <3> QED BY <2>1, <2>2, <3>1 DEF Knows, Inside
  <2> QED BY <2>3, <2>4
<1> QED
  BY <1>1 DEF IInv, ConnInv

-----------------------------------------------------------------------------
(* The three ways in which the tables change.                              *)
LEMMA RemoveAtType ==
  ASSUME NEW S, NEW s \in Seq(S), NEW k \in DOMAIN s
  PROVE  /\ RemoveAt(s, k) \in Seq(S)
         /\ DOMAIN RemoveAt(s, k) = 1 .. Len(s) - 1
         /\ \A i \in 1 .. Len(s) - 1 :
              RemoveAt(s, k)[i] = IF i < k THEN s[i] ELSE s[i + 1]
<1> DEFINE a == SubSeq(s, 1, k - 1)  b == SubSeq(s, k + 1, Len(s))
<1>1. k \in 1 .. Len(s) /\ Len(s) \in Nat
  BY ElementOfSeq
<1>2. /\ a \in Seq(S) /\ Len(a) = k - 1
      /\ \A i \in 1 .. k - 1 : a[i] = s[i]
  BY <1>1, SubSeqProperties
<1>3. /\ b \in Seq(S) /\ Len(b) = Len(s) - k
      /\ \A i \in 1 .. Len(s) - k : b[i] = s[k + i]
  BY <1>1, SubSeqProperties
<1> HIDE DEF a, b
<1>4. /\ a \o b \in Seq(S) /\ Len(a \o b) = Len(s) - 1
      /\ \A i \in 1 .. Len(s) - 1 : (a \o b)[i] = IF i <= k - 1 THEN a[i] ELSE b[i - (k - 1)]
  <2>1. /\ a \o b \in Seq(S) /\ Len(a \o b) = Len(a) + Len(b)
        /\ \A i \in 1 .. Len(a) + Len(b) : (a \o b)[i] = IF i <= Len(a) THEN a[i] ELSE b[i - Len(a)]
    BY <1>2, <1>3, ConcatProperties
  <2>2. Len(a) = k - 1 /\ Len(a) + Len(b) = Len(s) - 1
    BY <1>1, <1>2, <1>3
  <2> QED BY <2>1, <2>2
<1>5. ASSUME NEW i \in 1 .. Len(s) - 1 PROVE (a \o b)[i] = IF i < k THEN s[i] ELSE s[i + 1]
  <2>1. CASE i < k
    <3>1. i \in 1 .. k - 1 /\ i <= k - 1
      BY <1>1, <2>1
    <3> QED BY <1>2, <1>4, <2>1, <3>1
  <2>2. CASE ~ (i < k)
    <3>1. i - (k - 1) \in 1 .. Len(s) - k /\ k + (i - (k - 1)) = i + 1 /\ ~ (i <= k - 1)
      BY <1>1, <2>2
    <3> QED BY <1>3, <1>4, <2>2, <3>1
  <2> QED BY <2>1, <2>2
<1>6. RemoveAt(s, k) = a \o b
  BY DEF RemoveAt, a, b
<1>7. DOMAIN (a \o b) = 1 .. Len(s) - 1
  BY <1>4
<1> QED BY <1>4, <1>5, <1>6, <1>7

(* Of an increasing listing, one id goes and the others stay in order.     *)
LEMMA RemoveString ==
  ASSUME NEW n \in Nat, NEW s \in Seq(1 .. n), NEW t \in ToSet(s),
         \A i, j \in DOMAIN s : i < j => s[i] < s[j]
  PROVE  LET r == removeString(s, t)
         IN  /\ r \in Seq(1 .. n)
             /\ ToSet(r) = ToSet(s) \ {t}
             /\ \A i, j \in DOMAIN r : i < j => r[i] < r[j]
<1> DEFINE k == CHOOSE i \in DOMAIN s : s[i] = t
           r == RemoveAt(s, k)
<1>1. k \in DOMAIN s /\ s[k] = t
  BY DEF ToSet
<1>2. Len(s) \in Nat /\ DOMAIN s = 1 .. Len(s) /\ \A i \in DOMAIN s : s[i] \in Nat
  OBVIOUS
<1> HIDE DEF k
<1>3. /\ r \in Seq(1 .. n) /\ DOMAIN r = 1 .. Len(s) - 1
      /\ \A i \in 1 .. Len(s) - 1 : r[i] = IF i < k THEN s[i] ELSE s[i + 1]
  BY <1>1, RemoveAtType
<1> HIDE DEF r
<1>4. \A i, j \in DOMAIN r : i < j => r[i] < r[j]
  <2> SUFFICES ASSUME NEW i \in DOMAIN r, NEW j \in DOMAIN r, i < j PROVE r[i] < r[j]
    OBVIOUS
  <2> DEFINE x == IF i < k THEN i ELSE i + 1
             y == IF j < k THEN j ELSE j + 1
  <2>1. i \in 1 .. Len(s) - 1 /\ j \in 1 .. Len(s) - 1 /\ k \in 1 .. Len(s)
    BY <1>1, <1>2, <1>3
  <2>2. x \in DOMAIN s /\ y \in DOMAIN s /\ x < y
    <3>1. i \in Nat /\ j \in Nat /\ k \in Nat /\ 1 <= i /\ j + 1 <= Len(s)
      BY <1>2, <2>1
    <3>2. x \in Nat /\ y \in Nat /\ 1 <= x /\ x < y /\ y <= Len(s)
      BY <1>2, <3>1
    <3> QED BY <1>2, <3>2
  <2>3. r[i] = s[x] /\ r[j] = s[y]
    BY <1>3, <2>1
  <2> HIDE DEF x, y
  <2> QED BY <2>2, <2>3
<1>5. ASSUME NEW i \in DOMAIN s, i # k PROVE s[i] # t
  BY <1>1, <1>2, <1>5
<1>6. ASSUME NEW x \in ToSet(s), x # t PROVE x \in ToSet(r)
  <2>1. PICK i \in DOMAIN s : x = s[i]
    BY DEF ToSet
  <2>2. CASE i < k
    <3>1. i \in DOMAIN r /\ r[i] = s[i]
      BY <1>1, <1>2, <1>3, <2>1, <2>2
    <3> QED BY <2>1, <3>1 DEF ToSet
  <2>3. CASE i > k
    <3>1. i - 1 \in DOMAIN r /\ r[i - 1] = s[i]
      BY <1>1, <1>2, <1>3, <2>1, <2>3
    <3> QED BY <2>1, <3>1 DEF ToSet
  <2> QED BY <1>1, <1>2, <1>6, <2>1, <2>2, <2>3
<1>7. ASSUME NEW x \in ToSet(r) PROVE x \in ToSet(s) \ {t}
  <2>1. PICK i \in DOMAIN r : x = r[i]
    BY DEF ToSet
  <2>2. i \in DOMAIN s /\ i + 1 \in DOMAIN s
    BY <1>2, <1>3, <2>1
  <2>3. CASE i < k
    <3>1. i # k
      BY <1>1, <1>2, <2>2, <2>3
    <3> QED BY <1>3, <1>5, <2>1, <2>2, <2>3, <3>1 DEF ToSet
  <2>4. CASE ~ (i < k)
    <3>1. i + 1 # k
      BY <1>1, <1>2, <2>2, <2>4
    <3> QED BY <1>3, <1>5, <2>1, <2>2, <2>4, <3>1 DEF ToSet
  <2> QED BY <2>3, <2>4
<1>8. ToSet(r) = ToSet(s) \ {t}
  BY <1>6, <1>7
<1>9. removeString(s, t) = r
  BY DEF removeString, r, k
<1> QED BY <1>3, <1>4, <1>8, <1>9

(* The operations on a session make a session, and keep its history.       *)
LEMMA NewSessionType == ASSUME NEW d PROVE IsSession(NewSession(d))
<1>1. << >> \in Seq({})
  OBVIOUS
<1> QED BY <1>1 DEF IsSession, HasFields, NewSession

LEMMA SelectKeeps ==
  ASSUME NEW s, IsSession(s), NEW i
  PROVE  IsSession(Select(s, i)) /\ Select(s, i).history = s.history
<1> HasFields(s)
  BY DEF IsSession
<1>1. HasFields(Select(s, i))
  BY DEF HasFields, Select
<1>2. Select(s, i).history = s.history
  BY DEF HasFields, Select
<1> QED BY <1>1, <1>2 DEF IsSession

LEMMA AppendKeeps ==
  ASSUME NEW X, NEW q \in Seq(X), NEW e
  PROVE  /\ Append(q, e) \in Seq(X \cup {e})
         /\ IsPrefix(q, Append(q, e))
<1>1. q \in Seq(X \cup {e}) /\ Append(q, e) \in Seq(X \cup {e})
  OBVIOUS
<1>2. /\ Len(Append(q, e)) = Len(q) + 1
      /\ \A i \in 1 .. Len(q) : Append(q, e)[i] = q[i]
      /\ Len(q) \in Nat
  BY <1>1
<1>3. SubSeq(q, 1, Len(q)) = SubSeq(Append(q, e), 1, Len(q))
  BY <1>1, <1>2
<1> QED BY <1>1, <1>2, <1>3 DEF IsPrefix

LEMMA EnterValuesKeeps ==
  ASSUME NEW s, IsSession(s), NEW v
  PROVE  IsSession(EnterValues(s, v)) /\ IsPrefix(s.history, EnterValues(s, v).history)
<1> DEFINE t == EnterValues(s, v)
<1> HasFields(s)
  BY DEF IsSession
<1>1. PICK X : s.history \in Seq(X)
  BY DEF IsSession
<1>2. PICK e : EnterValues(s, v).history = Append(s.history, e)
  BY DEF HasFields, EnterValues
<1>3. HasFields(EnterValues(s, v))
  BY DEF HasFields, EnterValues
<1>4. t.history \in Seq(X \cup {e}) /\ IsPrefix(s.history, t.history)
  BY <1>1, <1>2, AppendKeeps
<1> QED BY <1>3, <1>4 DEF IsSession

LEMMA JumpKeeps ==
  ASSUME NEW s, IsSession(s), NEW i
  PROVE  IsSession(Jump(s, i)) /\ IsPrefix(s.history, Jump(s, i).history)
<1> DEFINE t == Jump(s, i)
<1> HasFields(s)
  BY DEF IsSession
<1>1. PICK X : s.history \in Seq(X)
  BY DEF IsSession
<1>2. PICK e : Jump(s, i).history = Append(s.history, e)
  BY DEF HasFields, Jump
<1>3. HasFields(Jump(s, i))
  BY DEF HasFields, Jump
<1>4. t.history \in Seq(X \cup {e}) /\ IsPrefix(s.history, t.history)
  BY <1>1, <1>2, AppendKeeps
<1> QED BY <1>3, <1>4 DEF IsSession

LEMMA SameHistory == ASSUME NEW s, IsSession(s) PROVE IsPrefix(s.history, s.history)
<1>1. PICK X : s.history \in Seq(X)
  BY DEF IsSession
<1> QED BY <1>1 DEF IsPrefix

-----------------------------------------------------------------------------
(* What a step of the service may do to the tables.                        *)
Kept ==
  /\ \A n \in DOMAIN sessions \cap DOMAIN sessions' :
       IsPrefix(sessions[n].history, sessions'[n].history)
  /\ \A n \in DOMAIN sessions' \ DOMAIN sessions : n > nextID

LEMMA TablesUnchanged ==
  ASSUME TablesInv, UNCHANGED store
  PROVE  TablesInv' /\ Kept
BY SameHistory DEF TablesInv, store, OrderListsSessions, Kept

LEMMA TablesNew ==
  ASSUME IInv, NEW c \in Conn, handleSessionNew(c)
  PROVE  TablesInv' /\ Kept
<1>1. CASE ~ CanStart(req[c].diagram)
  BY <1>1, TablesUnchanged DEF IInv, handleSessionNew
<1>2. CASE CanStart(req[c].diagram)
  <2>1. /\ nextID' = nextID + 1
        /\ sessions' = [n \in DOMAIN sessions \cup {nextID + 1} |->
                          IF n = nextID + 1 THEN NewSession(req[c].diagram) ELSE sessions[n]]
        /\ order' = Append(order, nextID + 1)
    BY <1>2 DEF handleSessionNew, NewID
  <2>2. nextID' \in Nat /\ DOMAIN sessions' \subseteq 1 .. nextID' /\ nextID + 1 \notin DOMAIN sessions
    BY <2>1 DEF IInv, TablesInv
  <2>3. /\ order' \in Seq(1 .. nextID')
        /\ Len(order') = Len(order) + 1 /\ order'[Len(order')] = nextID + 1
        /\ \A i \in DOMAIN order : order'[i] = order[i] /\ i <= Len(order)
        /\ DOMAIN order' = DOMAIN order \cup {Len(order')}
    <3>1. order \in Seq(1 .. nextID + 1)
      BY DEF IInv, TablesInv
    <3> QED BY <2>1, <3>1 DEF IInv, TablesInv
  <2>4. ToSet(order') = ToSet(order) \cup {nextID + 1}
    <3>1. ASSUME NEW x \in ToSet(order') PROVE x \in ToSet(order) \cup {nextID + 1}
      BY <2>3 DEF ToSet
    <3>2. ASSUME NEW x \in ToSet(order) PROVE x \in ToSet(order')
      BY <2>3 DEF ToSet
    <3>3. nextID + 1 \in ToSet(order')
      BY <2>3 DEF ToSet
    <3> QED BY <3>1, <3>2, <3>3
  <2>5. ASSUME NEW i \in DOMAIN order', NEW j \in DOMAIN order', i < j
        PROVE  order'[i] < order'[j]
    <3>1. i \in DOMAIN order
      <4>1. i # Len(order')
        BY <2>3, <2>5
      <4> QED BY <2>3, <4>1
    <3>2. order[i] \in 1 .. nextID
      BY <3>1 DEF IInv, TablesInv
    <3>3. CASE j \in DOMAIN order
      BY <2>3, <2>5, <3>1, <3>3 DEF IInv, TablesInv, OrderListsSessions
    <3>4. CASE j = Len(order')
      BY <2>3, <3>1, <3>2, <3>4 DEF IInv, TablesInv
    <3> QED BY <2>3, <3>3, <3>4
  <2>6. OrderListsSessions'
    BY <2>1, <2>4, <2>5 DEF IInv, TablesInv, OrderListsSessions
  <2>7. \A n \in DOMAIN sessions' : IsSession(sessions'[n])
    BY <2>1, NewSessionType DEF IInv, TablesInv
  <2>8. sessions' = [n \in DOMAIN sessions' |-> sessions'[n]]
    BY <2>1
  <2>9. Kept
    BY <2>1, <2>2, SameHistory DEF IInv, TablesInv, Kept
  <2> QED BY <2>2, <2>3, <2>6, <2>7, <2>8, <2>9 DEF TablesInv
<1> QED BY <1>1, <1>2

LEMMA TablesRm ==
  ASSUME IInv, NEW c \in Conn, handleSessionRm(c)
  PROVE  TablesInv' /\ Kept
<1>1. /\ sessions' = [n \in DOMAIN sessions \ {found[c]} |-> sessions[n]]
      /\ order' = removeString(order, found[c])
      /\ nextID' = nextID
  BY DEF handleSessionRm
<1>2. found[c] \in ToSet(order)
  BY DEF handleSessionRm, IInv, ConnInv, Knows, TablesInv, OrderListsSessions
<1>3. /\ order' \in Seq(1 .. nextID)
      /\ ToSet(order') = ToSet(order) \ {found[c]}
      /\ \A i, j \in DOMAIN order' : i < j => order'[i] < order'[j]
  BY <1>1, <1>2, RemoveString DEF IInv, TablesInv, OrderListsSessions
<1>4. OrderListsSessions'
  BY <1>1, <1>3 DEF IInv, TablesInv, OrderListsSessions
<1> QED
  BY <1>1, <1>3, <1>4, SameHistory DEF IInv, TablesInv, Kept

LEMMA TablesChange ==
  ASSUME IInv, NEW c \in Conn, found[c] \in DOMAIN sessions, NEW s, IsSession(s),
         IsPrefix(sessions[found[c]].history, s.history),
         sessions' = [sessions EXCEPT ![found[c]] = s], UNCHANGED <<order, nextID>>
  PROVE  TablesInv' /\ Kept
<1>1. /\ DOMAIN sessions' = DOMAIN sessions
      /\ sessions' = [n \in DOMAIN sessions' |-> sessions'[n]]
      /\ \A n \in DOMAIN sessions : sessions'[n] = IF n = found[c] THEN s ELSE sessions[n]
  OBVIOUS
<1>2. OrderListsSessions'
  BY <1>1 DEF IInv, TablesInv, OrderListsSessions
<1> QED
  BY <1>1, <1>2, SameHistory DEF IInv, TablesInv, Kept

-----------------------------------------------------------------------------
(* One step lemma per action, or per kind of action.                       *)
LEMMA ReadRequestStep == ASSUME IInv, NEW c \in Conn, ReadRequest(c) PROVE IInv' /\ Kept
<1>1. PICK r \in Requests : req' = [req EXCEPT ![c] = r]
  BY DEF ReadRequest
<1>2. Knows(c)'
  BY <1>1, NoneAssumption DEF ReadRequest, IInv, ConnInv, Knows, Inside
<1>3. ConnInv'
  BY <1>1, <1>2, ConnStep DEF ReadRequest, IInv, ConnInv, Locations, store
<1> QED BY <1>3, TablesUnchanged DEF ReadRequest, IInv

LEMMA LockStep == ASSUME IInv, NEW c \in Conn, Lock(c) PROVE IInv' /\ Kept
<1>1. Knows(c)'
  BY DEF Lock, IInv, ConnInv, Knows, Inside
<1>2. req[c] \in Requests \cup {None} /\ req' = [req EXCEPT ![c] = req[c]]
  BY DEF Lock, IInv, ConnInv
<1>3. ConnInv'
  BY <1>1, <1>2, NoneAssumption, ConnStep DEF Lock, IInv, ConnInv, Locations, Inside, store
<1> QED BY <1>3, TablesUnchanged DEF Lock, IInv

LEMMA UnlockStep == ASSUME IInv, NEW c \in Conn, Unlock(c) PROVE IInv' /\ Kept
<1>1. pc[c] \in Inside /\ holder = c
  BY DEF Unlock, IInv, ConnInv, Knows, Inside
<1>2. Knows(c)'
  BY <1>1, NoneAssumption DEF Unlock, IInv, ConnInv, Knows, Inside
<1>3. req[c] \in Requests \cup {None} /\ req' = [req EXCEPT ![c] = req[c]]
  BY DEF Unlock, IInv, ConnInv
<1>4. ConnInv'
  BY <1>1, <1>2, <1>3, NoneAssumption, ConnStep DEF Unlock, IInv, ConnInv, Locations
<1> QED BY <1>4, TablesUnchanged DEF Unlock, IInv

LEMMA WriteResponseStep == ASSUME IInv, NEW c \in Conn, WriteResponse(c) PROVE IInv' /\ Kept
<1>1. Knows(c)'
  BY DEF WriteResponse, IInv, ConnInv, Knows, Inside
<1>2. ConnInv'
  BY <1>1, ConnStep DEF WriteResponse, IInv, ConnInv, Locations, store
<1> QED BY <1>2, TablesUnchanged DEF WriteResponse, IInv

(* A connection inside Handle goes on inside Handle.                       *)
LEMMA InsideStep ==
  ASSUME IInv, NEW c \in Conn, pc[c] \in Inside, NEW l \in Inside, pc' = [pc EXCEPT ![c] = l],
         found' = [x \in Conn |-> found'[x]], resp' = [x \in Conn |-> resp'[x]],
         \A x \in Conn \ {c} : found'[x] = found[x],
         UNCHANGED <<holder, req>>, TablesInv',
         l \in {"found", "view"} => found'[c] \in DOMAIN sessions',
         l = "found" => req[c].command \in SessionCommands /\ found'[c] \in Promise!Meant(req[c])',
         l # "handle"
  PROVE  IInv'
<1>1. pc'[c] = l
  BY DEF IInv, ConnInv
<1>2. Knows(c)'
  BY <1>1 DEF IInv, ConnInv, Knows, Inside
<1>3. req[c] \in Requests \cup {None} /\ req' = [req EXCEPT ![c] = req[c]]
  BY DEF IInv, ConnInv
<1>4. ConnInv'
  BY <1>2, <1>3, ConnStep DEF IInv, ConnInv, Locations
<1> QED BY <1>4 DEF IInv

LEMMA ReplyStep ==
  ASSUME IInv, NEW c \in Conn, pc[c] \in Inside, NEW a, Reply(c, a),
         UNCHANGED <<holder, req, found>>, TablesInv'
  PROVE  IInv'
<1>1. found' = [x \in Conn |-> found'[x]] /\ resp' = [x \in Conn |-> resp'[x]]
  BY DEF Reply, IInv, ConnInv
<1> QED BY <1>1, InsideStep DEF Reply, Inside

LEMMA ChangeStep ==
  ASSUME IInv, NEW c \in Conn, pc[c] = "found", NEW allowed, NEW s, Change(c, allowed, s),
         IsSession(s), IsPrefix(sessions[found[c]].history, s.history)
  PROVE  IInv' /\ Kept
<1>1. pc[c] \in Inside /\ found[c] \in DOMAIN sessions
  BY DEF IInv, ConnInv, Knows, Inside
<1>2. CASE allowed
  <2>1. /\ sessions' = [sessions EXCEPT ![found[c]] = s]
        /\ pc' = [pc EXCEPT ![c] = "view"] /\ resp' = resp
        /\ UNCHANGED <<order, nextID, holder, req, found>>
    BY <1>2 DEF Change
  <2>2. TablesInv' /\ Kept
    BY <1>1, <2>1, TablesChange
  <2>3. /\ found' = [x \in Conn |-> found'[x]] /\ resp' = [x \in Conn |-> resp'[x]]
        /\ found'[c] \in DOMAIN sessions'
    BY <1>1, <2>1 DEF IInv, ConnInv
  <2> QED BY <1>1, <2>1, <2>2, <2>3, InsideStep DEF Inside
<1>3. CASE ~ allowed
  <2>1. Reply(c, Failure) /\ UNCHANGED store /\ UNCHANGED <<holder, req, found>>
    BY <1>3 DEF Change, store
  <2>2. TablesInv' /\ Kept
    BY <2>1, TablesUnchanged DEF IInv
  <2> QED BY <1>1, <2>1, <2>2, ReplyStep
<1> QED BY <1>2, <1>3

LEMMA TablesFinite == ASSUME IInv PROVE IsFiniteSet(DOMAIN sessions)
<1>1. nextID \in Nat /\ DOMAIN sessions \subseteq 1 .. nextID
  BY DEF IInv, TablesInv
<1>2. IsFiniteSet(1 .. nextID)
  BY <1>1, FS_Interval
<1> QED BY <1>1, <1>2, FS_Subset

(* The only session is the last one in the order.                          *)
LEMMA OnlySession ==
  ASSUME IInv, Cardinality(DOMAIN sessions) = 1
  PROVE  DOMAIN sessions = {Last(order)}
<1>1. PICK n : DOMAIN sessions = {n}
  BY TablesFinite, FS_Singleton
<1>2. ToSet(order) = {n}
  BY <1>1 DEF IInv, TablesInv, OrderListsSessions
<1>3. Len(order) \in DOMAIN order
  <2>1. DOMAIN order # {}
    BY <1>2 DEF ToSet
  <2>2. DOMAIN order = 1 .. Len(order) /\ Len(order) \in Nat
    BY DEF IInv, TablesInv
  <2> QED BY <2>1, <2>2
<1>4. Last(order) \in ToSet(order)
  BY <1>3 DEF Last, ToSet
<1> QED BY <1>1, <1>2, <1>4

LEMMA ResolveStep == ASSUME IInv, NEW c \in Conn, resolve(c) PROVE IInv' /\ Kept
<1>1. pc[c] \in Inside /\ UNCHANGED store /\ UNCHANGED <<holder, req>>
  BY DEF resolve, Inside
<1>2. TablesInv' /\ Kept
  BY <1>1, TablesUnchanged DEF IInv
<1>3. CASE pc' = [pc EXCEPT ![c] = "unlock"]
  <2>1. UNCHANGED found /\ Reply(c, Failure)
    BY <1>3 DEF resolve, Reply, IInv, ConnInv, Locations
  <2> QED BY <1>1, <1>2, <2>1, ReplyStep
<1>4. CASE pc' = [pc EXCEPT ![c] = "found"]
  <2>1. /\ req[c].command \in SessionCommands
        /\ found' = [x \in Conn |-> found'[x]] /\ UNCHANGED resp
        /\ \A x \in Conn \ {c} : found'[x] = found[x]
    BY <1>4 DEF resolve, Reply, IInv, ConnInv, Locations
  <2>2. found'[c] \in DOMAIN sessions /\ found'[c] \in Promise!Meant(req[c])
    <3>1. CASE req[c].session = None
      <4>1. Cardinality(DOMAIN sessions) = 1 /\ found'[c] = Last(order)
        BY <1>4, <3>1 DEF resolve, Reply, IInv, ConnInv, Locations
      <4> QED BY <3>1, <4>1, OnlySession DEF Promise!Meant
    <3>2. CASE req[c].session # None
      <4>1. req[c].session \in DOMAIN sessions /\ found'[c] = req[c].session
        BY <1>4, <3>2 DEF resolve, Reply, IInv, ConnInv, Locations
      <4> QED BY <3>2, <4>1 DEF Promise!Meant
    <3> QED BY <3>1, <3>2
  <2>3. Promise!Meant(req[c])' = Promise!Meant(req[c])
    BY <1>1 DEF Promise!Meant, store
  <2> QED
    BY <1>1, <1>2, <1>4, <2>1, <2>2, <2>3, InsideStep DEF Inside, store, IInv, ConnInv
<1> QED BY <1>3, <1>4 DEF resolve, Reply

LEMMA HandleStep == ASSUME IInv, NEW c \in Conn, Handle(c) PROVE IInv' /\ Kept
<1>1. CASE pc[c] = "found"
  <2>1. found[c] \in DOMAIN sessions /\ IsSession(Session(c)) /\ pc[c] \in Inside
    BY <1>1 DEF IInv, ConnInv, Knows, TablesInv, Session, Inside
  <2>2. CASE handleSessionRm(c)
    <3>1. TablesInv' /\ Kept
      BY <2>2, TablesRm
    <3> QED BY <2>1, <2>2, <3>1, ReplyStep DEF handleSessionRm
  <2>3. CASE handleSelect(c)
    BY <1>1, <2>1, <2>3, ChangeStep, SelectKeeps, SameHistory DEF handleSelect, Session
  <2>4. CASE handleStatevar(c)
    BY <1>1, <2>1, <2>4, ChangeStep, EnterValuesKeeps DEF handleStatevar, Session
  <2>5. CASE handleJump(c)
    BY <1>1, <2>1, <2>5, ChangeStep, JumpKeeps DEF handleJump, Session
  <2>6. CASE handleRead(c)
    BY <1>1, <2>1, <2>6, ChangeStep, SameHistory DEF handleRead, Session
  <2>7. CASE handleTrace(c)
    BY <2>1, <2>7, TablesUnchanged, ReplyStep DEF handleTrace, IInv
  <2>8. CASE handleHistory(c)
    BY <2>1, <2>8, TablesUnchanged, ReplyStep DEF handleHistory, IInv
  <2> QED
    BY <1>1, <2>2, <2>3, <2>4, <2>5, <2>6, <2>7, <2>8
    DEF Handle, handleSessionNew, handleSessionList, handleServerVersion, resolve, viewResponse
<1>2. CASE pc[c] = "handle"
  <2>1. pc[c] \in Inside
    BY <1>2 DEF Inside
  <2>2. CASE handleSessionNew(c)
    <3>1. TablesInv' /\ Kept
      BY <2>2, TablesNew
    <3>2. PICK a : Reply(c, a)
      BY <2>2 DEF handleSessionNew
    <3> QED BY <2>1, <2>2, <3>1, <3>2, ReplyStep DEF handleSessionNew
  <2>3. CASE handleSessionList(c)
    BY <2>1, <2>3, TablesUnchanged, ReplyStep DEF handleSessionList, IInv
  <2>4. CASE handleServerVersion(c)
    BY <2>1, <2>4, TablesUnchanged, ReplyStep DEF handleServerVersion, IInv
  <2>5. CASE resolve(c)
    BY <2>5, ResolveStep
  <2> QED
    BY <1>2, <2>2, <2>3, <2>4, <2>5
    DEF Handle, handleSessionRm, handleSelect, handleStatevar, handleJump, handleRead,
        handleTrace, handleHistory, viewResponse
<1>3. CASE viewResponse(c)
  BY <1>3, TablesUnchanged, ReplyStep DEF viewResponse, IInv, Inside
<1> QED
  BY <1>1, <1>2, <1>3
  DEF Handle, handleSessionNew, handleSessionList, handleServerVersion, resolve, handleSessionRm,
      handleSelect, handleStatevar, handleJump, handleRead, handleTrace, handleHistory

LEMMA StepIInv == ASSUME IInv, Next PROVE IInv' /\ Kept
  BY ReadRequestStep, LockStep, HandleStep, UnlockStep, WriteResponseStep DEF Next

LEMMA StutterIInv == ASSUME IInv, UNCHANGED vars PROVE IInv' /\ Kept
<1>1. TablesInv' /\ Kept
  BY TablesUnchanged DEF IInv, vars
<1>2. ConnInv'
  BY DEF IInv, ConnInv, Knows, Promise!Meant, vars, store
<1> QED BY <1>1, <1>2 DEF IInv

LEMMA Invariance == Spec => []IInv
<1>1. IInv /\ [Next]_vars => IInv'
  BY StepIInv, StutterIInv
<1> QED BY <1>1, InitIInv, PTL DEF Spec

-----------------------------------------------------------------------------
(* Every variable stays in its domain, and whoever is in Handle holds the  *)
(* mutex and still finds what it found there (Service.Handle).             *)
THEOREM TypeCorrect == Spec => []TypeOK
<1>1. IInv => TypeOK
  BY DEF IInv, TablesInv, ConnInv, Knows, TypeOK, Locations
<1> QED BY <1>1, Invariance, PTL

(* The creation order lists the live sessions, once each and in the order  *)
(* of their numbers, whatever any number of clients create and remove      *)
(* (handleSessionNew, handleSessionRm, removeString).                      *)
THEOREM OrderIsListing == Spec => []OrderListsSessions
<1>1. IInv => OrderListsSessions
  BY DEF IInv, TablesInv
<1> QED BY <1>1, Invariance, PTL

(* No request takes anything out of a history or changes it, and numbers   *)
(* of sessions are not used again (EnterValues, Jump, NewID).              *)
THEOREM HistoriesAreKept == Spec => HistoryKept
<1>1. IInv /\ [Next]_vars =>
        [/\ \A n \in DOMAIN sessions \cap DOMAIN sessions' :
              IsPrefix(sessions[n].history, sessions'[n].history)
         /\ \A n \in DOMAIN sessions' \ DOMAIN sessions : n > nextID]_vars
  BY StepIInv DEF Kept
<1> QED BY <1>1, Invariance, PTL DEF Spec, HistoryKept

-----------------------------------------------------------------------------
(* The edges that leave a state are edges of the diagram.                  *)
LEMMA OutgoingEdges ==
  ASSUME NEW d, NEW id, d.edges \in Seq(ToSet(d.edges))
  PROVE  Outgoing(d, id) \in Seq({e \in ToSet(d.edges) : e.src = id})
<1> DEFINE N == Len(d.edges)
           X == Seq({e \in ToSet(d.edges) : e.src = id})
           G == [k \in 1 .. N |->
                   [q \in X |-> IF d.edges[k].src = id THEN Append(q, d.edges[k]) ELSE q]]
           Is(u) == u = [n \in 0 .. N |->
                           IF n = 0 THEN << >>
                           ELSE LET found_ == u[n - 1]
                                IN  IF d.edges[n].src = id THEN Append(found_, d.edges[n])
                                    ELSE found_]
<1>1. N \in Nat /\ << >> \in X /\ \A k \in 1 .. N : d.edges[k] \in ToSet(d.edges)
  BY DEF ToSet
<1>2. G \in [1 .. N -> [X -> X]]
  <2> SUFFICES ASSUME NEW k \in 1 .. N, NEW q \in X, d.edges[k].src = id
               PROVE  Append(q, d.edges[k]) \in X
    OBVIOUS
  <2>1. d.edges[k] \in {e \in ToSet(d.edges) : e.src = id}
    BY <1>1
  <2> QED BY <2>1
<1>3. \A k \in 1 .. N, q \in X :
        G[k][q] = IF d.edges[k].src = id THEN Append(q, d.edges[k]) ELSE q
  OBVIOUS
<1>4. Outgoing(d, id) = (CHOOSE u : Is(u))[N]
  BY DEF Outgoing
<1> HIDE DEF G, X, N
<1>5. PICK f : Iterates(f, N, X, << >>, G)
  BY <1>1, <1>2, Iteration
<1>6. Is(f)
  <2>1. \A k \in 0 .. N : k # 0 => k \in 1 .. N /\ k - 1 \in 0 .. N
    BY <1>1
  <2>2. \A n \in 0 .. N : f[n] = IF n = 0 THEN << >>
                               ELSE IF d.edges[n].src = id THEN Append(f[n - 1], d.edges[n])
                               ELSE f[n - 1]
    <3>1. f[0] = << >> /\ \A n \in 1 .. N : f[n] = G[n][f[n - 1]]
      BY <1>5 DEF Iterates
    <3>2. ASSUME NEW n \in 0 .. N, n # 0
          PROVE  f[n] = IF d.edges[n].src = id THEN Append(f[n - 1], d.edges[n]) ELSE f[n - 1]
      <4>1. f[n - 1] \in X /\ n \in 1 .. N
        BY <1>5, <2>1, <3>2 DEF Iterates
      <4> QED BY <1>3, <3>1, <4>1
    <3> QED BY <3>1, <3>2
  <2>3. f = [n \in 0 .. N |-> f[n]]
    BY <1>5 DEF Iterates
  <2> QED BY <2>2, <2>3
<1>7. PICK u : Is(u) /\ Outgoing(d, id) = u[N]
  <2> DEFINE v == CHOOSE x : Is(x)
  <2>1. Is(v)
    BY <1>6
  <2> QED BY <1>4, <2>1
<1>8. StayEqual(f, u, N)
  <2>1. 0 \in 0 .. N /\ \A k \in 1 .. N : k \in 0 .. N /\ k # 0
    BY <1>1
  <2>2. f[0] = u[0]
    BY <1>6, <1>7, <2>1
  <2>3. ASSUME NEW k \in 1 .. N, f[k - 1] = u[k - 1] PROVE f[k] = u[k]
    <3>1. f[k] = IF d.edges[k].src = id THEN Append(f[k - 1], d.edges[k]) ELSE f[k - 1]
      BY <1>6, <2>1
    <3>2. u[k] = IF d.edges[k].src = id THEN Append(u[k - 1], d.edges[k]) ELSE u[k - 1]
      BY <1>7, <2>1
    <3> QED BY ONLY <2>3, <3>1, <3>2
  <2> QED BY <2>2, <2>3 DEF StayEqual
<1> HIDE DEF Is
<1>9. \A k \in 0 .. N : f[k] = u[k]
  <2>1. AreEqual(f, u, N)
    BY <1>1, <1>8, SameIteration
  <2> QED BY <2>1 DEF AreEqual
<1>10. f[N] \in X /\ f[N] = u[N]
  BY <1>1, <1>5, <1>9 DEF Iterates
<1> QED BY <1>7, <1>10 DEF X

(* What a diagram may be in grows along its edges to declared states.      *)
LEMMA TauReachFacts ==
  ASSUME NEW d, NEW S
  PROVE  /\ TauReach(d, S) \subseteq d.states
         /\ S \cap d.states \subseteq TauReach(d, S)
         /\ \A e \in ToSet(d.edges) :
              e.event = Tau /\ e.src \in TauReach(d, S) /\ e.dst \in d.states
                => e.dst \in TauReach(d, S)
BY DEF TauReach

Unfolds(h, d, trace) ==
  /\ h[0] = TauReach(d, {d.start})
  /\ \A n \in 1 .. Len(trace) : h[n] = AfterEvent(d, h[n - 1], trace[n])
  /\ After(d, trace) = h[Len(trace)]

LEMMA AfterUnfolds ==
  ASSUME NEW d, NEW trace, Len(trace) \in Nat
  PROVE  \E h : Unfolds(h, d, trace)
<1> DEFINE N == Len(trace)
           X == SUBSET d.states
           S0 == TauReach(d, {d.start})
           G == [n \in 1 .. N |-> [S \in X |-> AfterEvent(d, S, trace[n])]]
           Is(u) == u = [n \in 0 .. N |->
                           IF n = 0 THEN S0 ELSE AfterEvent(d, u[n - 1], trace[n])]
<1>1. S0 \in X /\ \A S, ev : AfterEvent(d, S, ev) \in X
  BY TauReachFacts DEF AfterEvent
<1>2. G \in [1 .. N -> [X -> X]]
  BY <1>1
<1>3. \A n \in 1 .. N, S \in X : G[n][S] = AfterEvent(d, S, trace[n])
  OBVIOUS
<1>4. After(d, trace) = (CHOOSE u : Is(u))[N]
  BY DEF After
<1>5. N \in Nat
  OBVIOUS
<1> HIDE DEF G, X, S0, N
<1>6. PICK f : Iterates(f, N, X, S0, G)
  BY <1>1, <1>2, <1>5, Iteration
<1>7. Is(f)
  <2>1. \A k \in 0 .. N : k # 0 => k \in 1 .. N /\ k - 1 \in 0 .. N
    BY <1>5
  <2> QED BY <1>3, <1>6, <2>1 DEF Iterates
<1> DEFINE h == CHOOSE x : Is(x)
<1>8. Is(h)
  BY <1>7
<1> HIDE DEF h
<1>9. h[0] = S0 /\ \A n \in 1 .. N : h[n] = AfterEvent(d, h[n - 1], trace[n])
  <2>1. 0 \in 0 .. N /\ \A k \in 1 .. N : k \in 0 .. N /\ k # 0
    BY <1>5
  <2> QED BY <1>8, <2>1
<1>10. After(d, trace) = h[N]
  BY <1>4 DEF h
<1> QED BY <1>9, <1>10 DEF Unfolds, N, S0

LEMMA AfterFacts ==
  ASSUME NEW d, NEW V, NEW trace \in Seq(V), NEW e \in ToSet(d.edges),
         e.src \in After(d, trace), e.dst \in d.states
  PROVE  /\ e.event = Tau => e.dst \in After(d, trace)
         /\ e.event \in V => e.dst \in After(d, Append(trace, e.event))
<1> DEFINE N == Len(trace)
<1>1. N \in Nat
  OBVIOUS
<1>2. PICK h : Unfolds(h, d, trace)
  BY <1>1, AfterUnfolds
<1>3. ASSUME e.event = Tau PROVE e.dst \in After(d, trace)
  <2>1. \E S : After(d, trace) = TauReach(d, S)
    <3>1. CASE N = 0
      BY <1>2, <3>1 DEF Unfolds
    <3>2. CASE N # 0
      <4>1. N \in 1 .. N
        BY <1>1, <3>2
      <4> QED BY <1>2, <4>1 DEF Unfolds, AfterEvent
    <3> QED BY <3>1, <3>2
  <2> QED BY <1>3, <2>1, TauReachFacts
<1>4. ASSUME e.event \in V PROVE e.dst \in After(d, Append(trace, e.event))
  <2> DEFINE longer == Append(trace, e.event)
  <2>1. /\ Len(longer) = N + 1 /\ N + 1 \in Nat /\ longer[N + 1] = e.event
        /\ \A n \in 1 .. N : longer[n] = trace[n]
    BY <1>4
  <2> HIDE DEF longer, N
  <2>2. PICK g : Unfolds(g, d, longer)
    BY <2>1, AfterUnfolds
  <2>3. StayEqual(h, g, N)
    <3>1. \A n \in 1 .. N : n \in 1 .. N + 1
      BY <1>1
    <3>2. h[0] = g[0] /\ \A n \in 1 .. N : h[n - 1] = g[n - 1] => h[n] = g[n]
      BY <1>2, <2>1, <2>2, <3>1 DEF Unfolds, N
    <3> QED BY <3>2 DEF StayEqual
  <2>4. \A n \in 0 .. N : h[n] = g[n]
    <3>1. AreEqual(h, g, N)
      BY <1>1, <2>3, SameIteration
    <3> QED BY <3>1 DEF AreEqual
  <2>5. N + 1 \in 1 .. N + 1 /\ (N + 1) - 1 = N /\ N \in 0 .. N
    BY <1>1
  <2>6. After(d, longer) = AfterEvent(d, After(d, trace), e.event)
    BY <1>2, <2>1, <2>2, <2>4, <2>5 DEF Unfolds, N
  <2>7. e.dst \in AfterEvent(d, After(d, trace), e.event)
    BY TauReachFacts DEF AfterEvent
  <2> QED BY <2>6, <2>7 DEF longer
<1> QED BY <1>3, <1>4

LEMMA AfterStart ==
  ASSUME NEW d, d.start \in d.states
  PROVE  d.start \in After(d, << >>)
<1>1. Len(<< >>) = 0
  OBVIOUS
<1>2. PICK h : Unfolds(h, d, << >>)
  BY <1>1, AfterUnfolds
<1> QED BY <1>1, <1>2, TauReachFacts DEF Unfolds

(* A session that is where its history says.                               *)
Events(d) == {e.event : e \in ToSet(d.edges)}

IsReached(d, entry) ==
  /\ entry.trace \in Seq(Events(d))
  /\ entry.state.id \in After(d, entry.trace)
  /\ Len(entry.state.values) = d.vars[entry.state.id]

Reached(s) ==
  /\ s.diagram.edges \in Seq(ToSet(s.diagram.edges))
  /\ \A i \in DOMAIN s.history : IsReached(s.diagram, s.history[i])
  /\ Position(s) = IF s.history = << >> THEN None ELSE Last(s.history).state
  /\ s.mode \in {"command", "values"}
  /\ s.mode = "command" => s.history # << >>
  /\ s.mode = "values" =>
       /\ s.pending.dst \in s.diagram.states
       /\ IF s.history = << >> THEN s.pending.dst = s.diagram.start /\ s.pending.event = Tau
          ELSE \E e \in ToSet(s.diagram.edges) :
                 /\ e.src = s.pending.prev.id
                 /\ e.dst = s.pending.dst /\ e.event = s.pending.event

LEMMA NewReached ==
  ASSUME NEW d, d.edges \in Seq(ToSet(d.edges)), CanStart(d)
  PROVE  Reached(NewSession(d))
BY DEF Reached, NewSession, CanStart, Position

LEMMA SelectReached ==
  ASSUME NEW s, IsSession(s), Reached(s), NEW i, CanSelect(s, i)
  PROVE  Reached(Select(s, i))
<1> DEFINE edges == Outgoing(s.diagram, s.current.id)
           t == Select(s, i)
<1>1. edges \in Seq({e \in ToSet(s.diagram.edges) : e.src = s.current.id})
  BY OutgoingEdges DEF Reached
<1>2. i \in 0 .. Len(edges) - 1 /\ edges[i + 1].dst \in s.diagram.states /\ s.mode = "command"
  BY DEF CanSelect
<1> HIDE DEF edges
<1>3. i + 1 \in 1 .. Len(edges)
  BY <1>1, <1>2
<1>4. edges[i + 1] \in ToSet(s.diagram.edges) /\ edges[i + 1].src = s.current.id
  BY <1>1, <1>3
<1>5. /\ t.diagram = s.diagram /\ t.history = s.history /\ t.mode = "values"
      /\ t.pending = [dst |-> edges[i + 1].dst, event |-> edges[i + 1].event, prev |-> s.current]
  BY DEF IsSession, HasFields, Select, edges
<1>6. t.pending.dst = edges[i + 1].dst /\ t.pending.event = edges[i + 1].event /\ t.pending.prev = s.current
  BY <1>5
<1> HIDE DEF t
<1>7. Position(t) = Position(s) /\ s.history # << >>
  BY <1>2, <1>5, <1>6 DEF Position, Reached
<1>8. Reached(t)
  BY <1>2, <1>4, <1>5, <1>6, <1>7 DEF Reached
<1> QED BY <1>8 DEF t

(* An entry at the end of the history: the session stands there.           *)
LEMMA AppendReached ==
  ASSUME NEW s, IsSession(s), Reached(s), NEW entry, IsReached(s.diagram, entry),
         NEW t, t.diagram = s.diagram, t.mode = "command",
         t.history = Append(s.history, entry), t.current = entry.state
  PROVE  Reached(t)
<1>1. PICK X : s.history \in Seq(X)
  BY DEF IsSession
<1>2. /\ Len(t.history) = Len(s.history) + 1 /\ Len(s.history) \in Nat
      /\ DOMAIN t.history = 1 .. Len(s.history) + 1
      /\ t.history[Len(s.history) + 1] = entry
      /\ \A i \in 1 .. Len(s.history) : i \in DOMAIN s.history /\ t.history[i] = s.history[i]
      /\ t.history # << >>
  <2>1. s.history \in Seq(X \cup {entry}) /\ entry \in X \cup {entry}
    BY <1>1
  <2> QED BY <2>1, AppendProperties
<1>3. \A i \in DOMAIN t.history : IsReached(t.diagram, t.history[i])
  <2> SUFFICES ASSUME NEW i \in DOMAIN t.history PROVE IsReached(t.diagram, t.history[i])
    OBVIOUS
  <2>1. i \in 1 .. Len(s.history) \/ i = Len(s.history) + 1
    BY <1>2
  <2> QED BY <1>2, <2>1 DEF Reached
<1>4. Last(t.history) = entry
  BY <1>2 DEF Last
<1> QED BY <1>2, <1>3, <1>4 DEF Reached, Position

LEMMA LastReached ==
  ASSUME NEW s, IsSession(s), Reached(s), s.history # << >>
  PROVE  IsReached(s.diagram, Last(s.history))
<1>1. PICK X : s.history \in Seq(X)
  BY DEF IsSession
<1>2. Len(s.history) \in DOMAIN s.history
  BY <1>1
<1> QED BY <1>2 DEF Reached, Last

LEMMA JumpReached ==
  ASSUME NEW s, IsSession(s), Reached(s), NEW i, CanJump(s, i)
  PROVE  Reached(Jump(s, i))
<1> DEFINE t == Jump(s, i)  entry == s.history[i + 1]
<1>1. PICK X : s.history \in Seq(X)
  BY DEF IsSession
<1>2. i + 1 \in DOMAIN s.history /\ s.mode = "command"
  BY <1>1 DEF CanJump
<1>3. IsReached(s.diagram, entry)
  BY <1>2 DEF Reached
<1>4. /\ t.diagram = s.diagram /\ t.mode = "command"
      /\ t.history = Append(s.history, entry) /\ t.current = entry.state
  BY <1>2 DEF IsSession, HasFields, Jump
<1> HIDE DEF t, entry
<1>5. Reached(t)
  BY <1>3, <1>4, AppendReached
<1> QED BY <1>5 DEF t

LEMMA EnterValuesReached ==
  ASSUME NEW s, IsSession(s), Reached(s), NEW v, CanEnterValues(s, v)
  PROVE  Reached(EnterValues(s, v))
<1> DEFINE t == EnterValues(s, v)
           d == s.diagram
           dst == s.pending.dst
           ev == s.pending.event
           state == [id |-> dst, values |-> v]
           trace == currentTrace(s) \o (IF ev = Tau THEN << >> ELSE <<ev>>)
           entry == [state |-> state, trace |-> trace]
<1>1. s.mode = "values" /\ Len(v) = d.vars[dst]
  BY DEF CanEnterValues, SolveJSON
<1>2. /\ t.diagram = d /\ t.mode = "command"
      /\ t.history = Append(s.history, entry) /\ t.current = state
  BY DEF IsSession, HasFields, EnterValues
<1>3. /\ entry.state = state /\ entry.trace = trace
      /\ entry.state.id = dst /\ entry.state.values = v
  OBVIOUS
<1>4. trace \in Seq(Events(d)) /\ dst \in After(d, trace)
  <2>1. CASE s.history = << >>
    <3>1. dst = d.start /\ dst \in d.states /\ ev = Tau
      BY <1>1, <2>1 DEF Reached
    <3>2. trace = << >>
      BY <2>1, <3>1 DEF currentTrace
    <3> QED BY <3>1, <3>2, AfterStart
  <2>2. CASE s.history # << >>
    <3> DEFINE before == Last(s.history).trace
    <3>1. /\ before \in Seq(Events(d)) /\ Last(s.history).state.id \in After(d, before)
          /\ currentTrace(s) = before
      BY <2>2, LastReached DEF IsReached, currentTrace
    <3>2. PICK e \in ToSet(d.edges) : e.src = s.pending.prev.id /\ e.dst = dst /\ e.event = ev
      BY <1>1, <2>2 DEF Reached
    <3>3. e.src \in After(d, before) /\ dst \in d.states
      BY <1>1, <2>2, <3>1, <3>2 DEF Reached, Position
    <3>4. ev \in Events(d)
      BY <3>2 DEF Events
    <3> HIDE DEF before
    <3>5. CASE ev = Tau
      <4>1. trace = before
        BY <3>1, <3>5, ConcatEmptySeq
      <4>2. dst \in After(d, before)
        BY <3>1, <3>2, <3>3, <3>5, AfterFacts
      <4> QED BY <3>1, <4>1, <4>2
    <3>6. CASE ev # Tau
      <4>1. trace = Append(before, ev)
        BY <3>1, <3>4, <3>6, AppendIsConcat
      <4>2. dst \in After(d, Append(before, ev))
        BY <3>1, <3>2, <3>3, <3>4, AfterFacts
      <4>3. Append(before, ev) \in Seq(Events(d))
        BY <3>1, <3>4
      <4> HIDE DEF trace
      <4> QED BY <4>1, <4>2, <4>3
    <3> QED BY <3>5, <3>6
  <2> QED BY <2>1, <2>2
<1> HIDE DEF t, trace, state, entry, d, dst, ev
<1>5. IsReached(d, entry)
  BY <1>1, <1>3, <1>4 DEF IsReached
<1>6. Reached(t)
  BY <1>2, <1>3, <1>5, AppendReached DEF d
<1> QED BY <1>6 DEF t

ReachedInv == \A n \in DOMAIN sessions : Reached(sessions[n])

LEMMA ChangeReached ==
  ASSUME IInv, ReachedInv, NEW c \in Conn, pc[c] = "found",
         NEW allowed, NEW s, allowed => Reached(s), Change(c, allowed, s)
  PROVE  ReachedInv'
<1>1. found[c] \in DOMAIN sessions /\ sessions = [n \in DOMAIN sessions |-> sessions[n]]
  BY DEF IInv, TablesInv, ConnInv, Knows
<1>2. UNCHANGED sessions \/ (Reached(s) /\ sessions' = [sessions EXCEPT ![found[c]] = s])
  BY DEF Change
<1> QED BY <1>1, <1>2 DEF ReachedInv

LEMMA FoundSession ==
  ASSUME IInv, ReachedInv, NEW c \in Conn, pc[c] = "found"
  PROVE  IsSession(Session(c)) /\ Reached(Session(c))
BY DEF IInv, TablesInv, ConnInv, Knows, ReachedInv, Session

LEMMA HandleReached ==
  ASSUME IInv, ReachedInv, NEW c \in Conn, Handle(c)
  PROVE  ReachedInv'
<1>1. CASE handleSessionNew(c)
  <2>1. req[c] \in Requests /\ req[c].command = "session_new"
    BY <1>1, NoneAssumption DEF handleSessionNew, IInv, ConnInv, Knows, Inside
  <2>2. CASE CanStart(req[c].diagram)
    <3>1. Reached(NewSession(req[c].diagram))
      BY <2>1, <2>2, DiagramsAssumption, NewReached
    <3>2. sessions' = [n \in DOMAIN sessions \cup {NewID} |->
                         IF n = NewID THEN NewSession(req[c].diagram) ELSE sessions[n]]
      BY <1>1, <2>2 DEF handleSessionNew
    <3> QED BY <3>1, <3>2 DEF ReachedInv
  <2>3. CASE ~ CanStart(req[c].diagram)
    BY <1>1, <2>3 DEF handleSessionNew, store, ReachedInv
  <2> QED BY <2>2, <2>3
<1>2. CASE handleSessionRm(c)
  BY <1>2 DEF handleSessionRm, ReachedInv
<1>3. CASE handleSelect(c)
  <2>1. IsSession(Session(c)) /\ Reached(Session(c)) /\ pc[c] = "found"
    BY <1>3, FoundSession DEF handleSelect
  <2>2. CASE req[c].index = None
    BY <1>3, <2>1, <2>2, ChangeReached DEF handleSelect
  <2>3. CASE req[c].index # None
    BY <1>3, <2>1, <2>3, SelectReached, ChangeReached DEF handleSelect
  <2> QED BY <2>2, <2>3
<1>4. CASE handleStatevar(c)
  <2>1. IsSession(Session(c)) /\ Reached(Session(c)) /\ pc[c] = "found"
    BY <1>4, FoundSession DEF handleStatevar
  <2> QED BY <1>4, <2>1, EnterValuesReached, ChangeReached DEF handleStatevar
<1>5. CASE handleJump(c)
  <2>1. IsSession(Session(c)) /\ Reached(Session(c)) /\ pc[c] = "found"
    BY <1>5, FoundSession DEF handleJump
  <2> QED BY <1>5, <2>1, JumpReached, ChangeReached DEF handleJump
<1>6. CASE handleRead(c)
  <2>1. Reached(Session(c)) /\ pc[c] = "found"
    BY <1>6, FoundSession DEF handleRead
  <2> QED BY <1>6, <2>1, ChangeReached DEF handleRead
<1>7. CASE \/ handleSessionList(c) \/ handleServerVersion(c) \/ resolve(c)
           \/ handleTrace(c) \/ handleHistory(c) \/ viewResponse(c)
  BY <1>7 DEF handleSessionList, handleServerVersion, resolve, handleTrace, handleHistory,
              viewResponse, store, ReachedInv
<1> QED BY <1>1, <1>2, <1>3, <1>4, <1>5, <1>6, <1>7 DEF Handle

(* Whatever any clients ask for, each entry of a history holds a trace by  *)
(* which the diagram reaches its state, and what is pending leads on from  *)
(* the last one (Session.NewSession, Select, EnterValues, Jump), also when *)
(* the diagram has states that are not declared or loops of silent events. *)
THEOREM HistoriesAreReachable == Spec => []HistoryIsReachable
<1>1. Init => ReachedInv
  BY DEF Init, ReachedInv
<1>2. IInv /\ ReachedInv /\ [Next]_vars => ReachedInv'
  <2>1. ASSUME ReachedInv, UNCHANGED sessions PROVE ReachedInv'
    BY <2>1 DEF ReachedInv
  <2>2. ASSUME IInv, ReachedInv, Next PROVE ReachedInv'
    <3>1. PICK c \in Conn : ReadRequest(c) \/ Lock(c) \/ Handle(c) \/ Unlock(c) \/ WriteResponse(c)
      BY <2>2 DEF Next
    <3>2. CASE Handle(c)
      BY <2>2, <3>2, HandleReached
    <3>3. CASE ReadRequest(c) \/ Lock(c) \/ Unlock(c) \/ WriteResponse(c)
      BY <2>1, <2>2, <3>3 DEF ReadRequest, Lock, Unlock, WriteResponse, store
    <3> QED BY <3>1, <3>2, <3>3
  <2> QED BY <2>1, <2>2 DEF vars, store
<1>3. ReachedInv => HistoryIsReachable
  BY DEF ReachedInv, Reached, IsReached, HistoryIsReachable
<1> QED BY <1>1, <1>2, <1>3, Invariance, PTL DEF Spec

-----------------------------------------------------------------------------
(* The operations are those of the store.                                  *)
LEMMA SameOutgoing ==
  ASSUME NEW d, NEW id
  PROVE  Promise!Outgoing(d, id) = Outgoing(d, id)
BY DEF Outgoing, Promise!Outgoing

LEMMA SameOperations ==
  ASSUME NEW s, NEW i, NEW d
  PROVE  /\ Promise!CanStart(d) <=> CanStart(d)
         /\ Promise!NewSession(d) = NewSession(d)
         /\ Promise!currentTrace(s) = currentTrace(s)
         /\ Promise!CanSelect(s, i) <=> CanSelect(s, i)
         /\ Promise!Select(s, i) = Select(s, i)
         /\ Promise!CanEnterValues(s, i) <=> CanEnterValues(s, i)
         /\ Promise!EnterValues(s, i) = EnterValues(s, i)
         /\ Promise!CanJump(s, i) <=> CanJump(s, i)
         /\ Promise!Jump(s, i) = Jump(s, i)
<1>1. Promise!CanStart(d) <=> CanStart(d)
  BY DEF CanStart, Promise!CanStart
<1>2. Promise!NewSession(d) = NewSession(d)
  BY DEF NewSession, Promise!NewSession
<1>3. Promise!currentTrace(s) = currentTrace(s)
  BY DEF currentTrace, Promise!currentTrace, Last, Promise!Last
<1>4. Promise!CanSelect(s, i) <=> CanSelect(s, i)
  BY SameOutgoing DEF CanSelect, Promise!CanSelect
<1>5. Promise!Select(s, i) = Select(s, i)
  BY SameOutgoing DEF Select, Promise!Select
<1>6. Promise!CanEnterValues(s, i) <=> CanEnterValues(s, i)
  BY DEF CanEnterValues, Promise!CanEnterValues, SolveJSON, Promise!SolveJSON
<1>7. Promise!EnterValues(s, i) = EnterValues(s, i)
  BY DEF EnterValues, Promise!EnterValues, currentTrace, Promise!currentTrace, Last, Promise!Last
<1>8. Promise!CanJump(s, i) <=> CanJump(s, i)
  BY DEF CanJump, Promise!CanJump
<1>9. Promise!Jump(s, i) = Jump(s, i)
  BY DEF Jump, Promise!Jump
<1> QED BY <1>1, <1>2, <1>3, <1>4, <1>5, <1>6, <1>7, <1>8, <1>9

(* What the clients of the other connections are told does not change.     *)
LEMMA OthersAnswers ==
  ASSUME IInv, NEW c \in Conn, NEW l, pc' = [pc EXCEPT ![c] = l],
         \A x \in Conn \ {c} : found'[x] = found[x] /\ resp'[x] = resp[x],
         UNCHANGED sessions \/ pc[c] \in Inside
  PROVE  \A x \in Conn \ {c} : answered(x)' = answered(x)
<1> SUFFICES ASSUME NEW x \in Conn \ {c} PROVE answered(x)' = answered(x)
  OBVIOUS
<1>1. pc'[x] = pc[x] /\ found'[x] = found[x] /\ resp'[x] = resp[x]
  BY DEF IInv, ConnInv
<1>2. CASE UNCHANGED sessions
  BY <1>1, <1>2 DEF answered, View
<1>3. CASE pc[c] \in Inside
  <2>1. pc[x] \notin Inside
    BY <1>3, Mutex
  <2> QED BY <1>1, <2>1 DEF answered, Inside
<1> QED BY <1>2, <1>3

answers == [c \in Conn |-> answered(c)]

LEMMA AnswersStep ==
  ASSUME NEW c \in Conn, NEW a, answered(c)' = a,
         \A x \in Conn \ {c} : answered(x)' = answered(x)
  PROVE  answers' = [answers EXCEPT ![c] = a]
<1>1. \A x \in Conn : answered(x)' = IF x = c THEN a ELSE answered(x)
  OBVIOUS
<1>2. answers' = [x \in Conn |-> answered(x)']
  BY DEF answers
<1> QED BY <1>1, <1>2 DEF answers

(* A request under way has no answer until its handler replies.            *)
LEMMA Unanswered ==
  ASSUME IInv, NEW c \in Conn, pc[c] \in {"idle", "lock", "handle", "found"}
  PROVE  answered(c) = << >> /\ answers[c] = << >>
  BY DEF answered, answers

LEMMA UnderWay ==
  ASSUME IInv, NEW c \in Conn, pc[c] # "idle"
  PROVE  req[c] # None /\ req[c] \in Requests
  BY DEF IInv, ConnInv, Knows

(* A handler that replies makes the abstract answer; one that looks a      *)
(* session up or renders it changes nothing.                               *)
LEMMA ReplyAnswers ==
  ASSUME IInv, NEW c \in Conn, pc[c] \in {"handle", "found"}, NEW a, Reply(c, a),
         UNCHANGED <<req, found>>
  PROVE  Promise!Answer(c, a)
<1>1. pc[c] \in Inside /\ answered(c)' = << a >>
  BY DEF Reply, answered, Inside, IInv, ConnInv
<1>2. \A x \in Conn \ {c} : answered(x)' = answered(x)
  <2>1. \A x \in Conn \ {c} : resp'[x] = resp[x] /\ found'[x] = found[x]
    BY DEF Reply, IInv, ConnInv
  <2> QED BY <1>1, <2>1, OthersAnswers DEF Reply
<1>3. answers' = [answers EXCEPT ![c] = << a >>]
  BY <1>1, <1>2, AnswersStep
<1> QED BY <1>3 DEF Promise!Answer, answers

LEMMA AnswersSame ==
  ASSUME NEW c \in Conn, answered(c)' = answered(c),
         \A x \in Conn \ {c} : answered(x)' = answered(x)
  PROVE  answers' = answers
<1>1. \A x \in Conn : answered(x)' = answered(x)
  OBVIOUS
<1>2. answers' = [x \in Conn |-> answered(x)']
  BY DEF answers
<1> QED BY <1>1, <1>2 DEF answers

LEMMA CallMaps == ASSUME IInv, NEW c \in Conn, ReadRequest(c) PROVE Promise!Call(c)
<1>1. answered(c)' = << >> /\ answered(c) = << >>
  BY DEF ReadRequest, answered, IInv, ConnInv
<1>2. \A x \in Conn \ {c} : answered(x)' = answered(x)
  BY OthersAnswers DEF ReadRequest, store
<1>3. answers' = answers
  BY <1>1, <1>2, AnswersSame
<1>4. req[c] = None
  BY DEF ReadRequest, IInv, ConnInv, Knows
<1> QED BY <1>3, <1>4 DEF ReadRequest, Promise!Call, answers, store

LEMMA ReturnMaps == ASSUME IInv, NEW c \in Conn, WriteResponse(c) PROVE Promise!Return(c)
<1>1. answered(c)' = << >> /\ answers[c] # << >>
  BY DEF WriteResponse, answered, answers, IInv, ConnInv
<1>2. \A x \in Conn \ {c} : answered(x)' = answered(x)
  <2>1. \A x \in Conn \ {c} : resp'[x] = resp[x] /\ found'[x] = found[x]
    BY DEF WriteResponse, IInv, ConnInv
  <2> QED BY <2>1, OthersAnswers DEF WriteResponse, store
<1>3. answers' = [answers EXCEPT ![c] = << >>]
  BY <1>1, <1>2, AnswersStep
<1> QED BY <1>1, <1>3 DEF WriteResponse, Promise!Return, answers, store

LEMMA LockMaps ==
  ASSUME IInv, NEW c \in Conn, Lock(c) \/ Unlock(c) \/ viewResponse(c)
  PROVE  UNCHANGED Promise!vars
<1>1. answered(c)' = answered(c)
  BY DEF Lock, Unlock, viewResponse, Reply, answered, View, store, IInv, ConnInv
<1>2. \A x \in Conn \ {c} : answered(x)' = answered(x)
  <2>1. \A x \in Conn \ {c} : resp'[x] = resp[x] /\ found'[x] = found[x]
    BY DEF Lock, Unlock, viewResponse, Reply, IInv, ConnInv
  <2>2. PICK l : pc' = [pc EXCEPT ![c] = l]
    BY DEF Lock, Unlock, viewResponse, Reply
  <2> QED BY <2>1, <2>2, OthersAnswers DEF Lock, Unlock, viewResponse, store
<1>3. answers' = answers
  BY <1>1, <1>2, AnswersSame
<1> QED BY <1>3 DEF Lock, Unlock, viewResponse, Promise!vars, answers, store

LEMMA ResolveMaps ==
  ASSUME IInv, NEW c \in Conn, resolve(c)
  PROVE  Promise!Serve(c) \/ UNCHANGED Promise!vars
<1>0. pc[c] = "handle" /\ UNCHANGED <<sessions, nextID, req>>
  BY DEF resolve, store
<1>1. CASE pc' = [pc EXCEPT ![c] = "found"]
  <2>1. answered(c)' = answered(c)
    BY <1>0, <1>1 DEF answered, IInv, ConnInv
  <2>2. \A x \in Conn \ {c} : resp'[x] = resp[x] /\ found'[x] = found[x]
    BY <1>1 DEF resolve, Reply, IInv, ConnInv, Locations
  <2>3. \A x \in Conn \ {c} : answered(x)' = answered(x)
    BY <1>0, <1>1, <2>2, OthersAnswers
  <2>4. answers' = answers
    BY <2>1, <2>3, AnswersSame
  <2> QED BY <1>0, <2>4 DEF Promise!vars, answers
<1>2. CASE pc' = [pc EXCEPT ![c] = "unlock"]
  <2>1. Reply(c, Failure) /\ UNCHANGED found
    BY <1>2 DEF resolve, Reply, IInv, ConnInv, Locations
  <2>2. Promise!Answer(c, Failure)
    BY <1>0, <2>1, ReplyAnswers
  <2>3. Promise!Meant(req[c]) = {}
    <3>1. CASE req[c].session = None
      <4>1. Cardinality(DOMAIN sessions) # 1
        BY <1>2, <3>1 DEF resolve, IInv, ConnInv, Locations
      <4>2. \A n : DOMAIN sessions # {n}
        BY <4>1, FS_Singleton
      <4> QED BY <3>1, <4>2 DEF Promise!Meant
    <3>2. CASE req[c].session # None
      BY <1>2, <3>2 DEF resolve, IInv, ConnInv, Locations, Promise!Meant
    <3> QED BY <3>1, <3>2
  <2>4. Promise!Refused(req[c])
    BY <2>3 DEF resolve, SessionCommands, Promise!Refused
  <2>5. req[c] # None /\ answers[c] = << >>
    BY <1>0, UnderWay, Unanswered
  <2> QED BY <1>0, <2>2, <2>4, <2>5 DEF Promise!Serve, Promise!Read, answers, Failure, Promise!Failure
<1> QED BY <1>1, <1>2 DEF resolve, Reply

LEMMA NewMaps == ASSUME IInv, NEW c \in Conn, handleSessionNew(c) PROVE Promise!Serve(c)
<1>1. /\ pc[c] = "handle" /\ req[c].command = "session_new" /\ UNCHANGED <<req, found>>
      /\ req[c] # None /\ answers[c] = << >>
  BY UnderWay, Unanswered DEF handleSessionNew
<1>2. CASE CanStart(req[c].diagram)
  <2>1. Reply(c, [ok |-> TRUE, session |-> nextID + 1])
    BY <1>2 DEF handleSessionNew, NewID
  <2>2. Promise!Answer(c, [ok |-> TRUE, session |-> nextID + 1])
    BY <1>1, <2>1, ReplyAnswers
  <2>3. /\ nextID' = nextID + 1
        /\ sessions' = [n \in DOMAIN sessions \cup {nextID + 1} |->
                          IF n = nextID + 1 THEN NewSession(req[c].diagram) ELSE sessions[n]]
    BY <1>2 DEF handleSessionNew, NewID
  <2>4. Promise!Create(c)
    BY <1>2, <2>2, <2>3, SameOperations DEF Promise!Create
  <2> QED BY <1>1, <2>4 DEF Promise!Serve, answers
<1>3. CASE ~ CanStart(req[c].diagram)
  <2>1. Reply(c, Failure) /\ UNCHANGED <<sessions, nextID>>
    BY <1>3 DEF handleSessionNew, store
  <2>2. Promise!Answer(c, Failure)
    BY <1>1, <2>1, ReplyAnswers
  <2>3. Promise!Refused(req[c])
    BY <1>1, <1>3, SameOperations DEF Promise!Refused
  <2> QED
    BY <1>1, <2>1, <2>2, <2>3 DEF Promise!Serve, Promise!Read, answers, Failure, Promise!Failure
<1> QED BY <1>2, <1>3

(* The order is the one listing by number.                                 *)
LEMMA OrderNumbers == ASSUME IInv PROVE order \in Promise!Numbers
<1>1. /\ order \in [1 .. Len(order) -> DOMAIN sessions] /\ Len(order) \in Nat
      /\ DOMAIN order = 1 .. Len(order) /\ ToSet(order) = DOMAIN sessions
      /\ order \in [1 .. Len(order) -> 1 .. nextID] /\ nextID \in Nat
  BY DEF IInv, TablesInv, OrderListsSessions, ToSet
<1>2. \A i, j \in DOMAIN order : i < j => order[i] < order[j]
  BY DEF IInv, TablesInv, OrderListsSessions
<1>3. \A i, j \in DOMAIN order : order[i] = order[j] => i = j
  BY <1>1, <1>2
<1>4. /\ IsFiniteSet(1 .. Len(order)) /\ Cardinality(1 .. Len(order)) = Len(order)
      /\ IsFiniteSet(1 .. nextID) /\ Cardinality(1 .. nextID) = nextID
  <2>1. 1 \in Int /\ Len(order) \in Int /\ nextID \in Int /\ Len(order) >= 0 /\ nextID >= 0
    BY <1>1
  <2>2. /\ IsFiniteSet(1 .. Len(order))
        /\ Cardinality(1 .. Len(order)) = IF 1 > Len(order) THEN 0 ELSE Len(order) - 1 + 1
    BY <2>1, FS_Interval
  <2>3. /\ IsFiniteSet(1 .. nextID)
        /\ Cardinality(1 .. nextID) = IF 1 > nextID THEN 0 ELSE nextID - 1 + 1
    BY <2>1, FS_Interval
  <2> QED BY <2>1, <2>2, <2>3
<1>5. Len(order) <= nextID
  <2>1. SUFFICES ASSUME Cardinality(1 .. nextID) < Cardinality(1 .. Len(order)) PROVE FALSE
    BY <1>1, <1>4
  <2>2. \E i, j \in 1 .. Len(order) : i # j /\ order[i] = order[j]
    BY <1>1, <1>4, <2>1, FS_PigeonHole
  <2> QED BY <1>1, <1>3, <2>2
<1>6. order \in Promise!SeqOf(DOMAIN sessions, nextID)
  <2>1. Len(order) \in 0 .. nextID
    BY <1>1, <1>5
  <2>2. [1 .. Len(order) -> DOMAIN sessions] \in {[1 .. m -> DOMAIN sessions] : m \in 0 .. nextID}
    BY ONLY <2>1
  <2> QED BY ONLY <1>1, <2>2 DEF Promise!SeqOf
<1> QED
  BY <1>1, <1>2, <1>6 DEF Promise!Numbers, Promise!Increasing, Promise!ToSet, ToSet

LEMMA ListMaps == ASSUME IInv, NEW c \in Conn, handleSessionList(c) PROVE Promise!Serve(c)
<1>1. /\ pc[c] = "handle" /\ req[c].command = "session_list"
      /\ UNCHANGED <<req, found, sessions, nextID>>
      /\ req[c] # None /\ answers[c] = << >>
  BY UnderWay, Unanswered DEF handleSessionList, store
<1>2. Reply(c, Promise!Listing(order))
  BY DEF handleSessionList, Promise!Listing
<1>3. Promise!Read(c, Promise!Listing(order))
  BY <1>1, <1>2, ReplyAnswers DEF Promise!Read
<1> QED BY <1>1, <1>3, OrderNumbers DEF Promise!Serve, answers

LEMMA VersionMaps == ASSUME IInv, NEW c \in Conn, handleServerVersion(c) PROVE Promise!Serve(c)
<1>1. /\ pc[c] = "handle" /\ req[c].command = "server_version"
      /\ UNCHANGED <<req, found, sessions, nextID>>
      /\ req[c] # None /\ answers[c] = << >>
  BY UnderWay, Unanswered DEF handleServerVersion, store
<1>2. Promise!Read(c, [ok |-> TRUE])
  BY <1>1, ReplyAnswers DEF Promise!Read, handleServerVersion
<1> QED BY <1>1, <1>2 DEF Promise!Serve, answers

LEMMA FoundMeant ==
  ASSUME IInv, NEW c \in Conn, pc[c] = "found"
  PROVE  /\ found[c] \in Promise!Meant(req[c]) /\ found[c] \in DOMAIN sessions
         /\ req[c] # None /\ answers[c] = << >> /\ pc[c] \in Inside
  BY UnderWay, Unanswered DEF IInv, ConnInv, Knows, Inside

LEMMA PerformMaps ==
  ASSUME IInv, NEW c \in Conn, pc[c] = "found",
         Promise!Perform(c, found[c], req[c], sessions[found[c]])
  PROVE  Promise!Serve(c)
  BY FoundMeant DEF Promise!Serve, answers

LEMMA RmMaps == ASSUME IInv, NEW c \in Conn, handleSessionRm(c) PROVE Promise!Serve(c)
<1>1. Promise!Answer(c, [ok |-> TRUE, session |-> found[c]])
  BY ReplyAnswers DEF handleSessionRm
<1>2. Promise!Perform(c, found[c], req[c], sessions[found[c]])
  BY <1>1 DEF handleSessionRm, Promise!Perform, Promise!Discard
<1> QED BY <1>2, PerformMaps DEF handleSessionRm

LEMMA TraceMaps ==
  ASSUME IInv, NEW c \in Conn, handleTrace(c) \/ handleHistory(c) PROVE Promise!Serve(c)
<1>1. CASE handleTrace(c)
  <2>1. Promise!Answer(c, [ok |-> TRUE, session |-> found[c],
                           trace |-> currentTrace(sessions[found[c]])])
    BY <1>1, ReplyAnswers DEF handleTrace, Session
  <2>2. Promise!Perform(c, found[c], req[c], sessions[found[c]])
    BY <1>1, <2>1, SameOperations DEF handleTrace, Promise!Perform, Promise!Read, store
  <2> QED BY <1>1, <2>2, PerformMaps DEF handleTrace
<1>2. CASE handleHistory(c)
  <2>1. Promise!Answer(c, [ok |-> TRUE, session |-> found[c],
                           history |-> sessions[found[c]].history])
    BY <1>2, ReplyAnswers DEF handleHistory, Session
  <2>2. Promise!Perform(c, found[c], req[c], sessions[found[c]])
    BY <1>2, <2>1 DEF handleHistory, Promise!Perform, Promise!Read, store
  <2> QED BY <1>2, <2>2, PerformMaps DEF handleHistory
<1> QED BY <1>1, <1>2

(* A change takes effect with the answer that is rendered after it.        *)
LEMMA ChangeAnswers ==
  ASSUME IInv, NEW c \in Conn, pc[c] = "found", NEW s, Change(c, TRUE, s)
  PROVE  /\ Promise!Answer(c, Promise!View(found[c], s))
         /\ sessions' = [sessions EXCEPT ![found[c]] = s] /\ UNCHANGED nextID
<1>1. /\ sessions' = [sessions EXCEPT ![found[c]] = s]
      /\ pc' = [pc EXCEPT ![c] = "view"] /\ UNCHANGED <<resp, found, req, nextID>>
  BY DEF Change
<1>2. answered(c)' = << Promise!View(found[c], s) >>
  <2>1. sessions'[found[c]] = s /\ pc'[c] = "view"
    BY <1>1, FoundMeant DEF IInv, ConnInv
  <2>2. View(found[c])' = Promise!View(found[c], s)
    <3>1. found'[c] = found[c] /\ sessions'[found'[c]] = s
      BY <1>1, <2>1
    <3> QED BY ONLY <3>1 DEF View, Promise!View
  <2>3. answered(c)' = << View(found[c])' >>
    BY <2>1 DEF answered
  <2> QED BY <2>2, <2>3
<1>3. \A x \in Conn \ {c} : answered(x)' = answered(x)
  BY <1>1, FoundMeant, OthersAnswers
<1>4. answers' = [answers EXCEPT ![c] = << Promise!View(found[c], s) >>]
  BY <1>2, <1>3, AnswersStep
<1> QED BY <1>1, <1>4 DEF Promise!Answer, answers

LEMMA FailureMaps ==
  ASSUME IInv, NEW c \in Conn, pc[c] = "found", NEW s, Change(c, FALSE, s),
         Promise!Refused(req[c])
  PROVE  Promise!Serve(c)
<1>1. Reply(c, Failure) /\ UNCHANGED <<req, found, sessions, nextID>>
  BY DEF Change
<1>2. Promise!Read(c, Promise!Failure)
  BY <1>1, ReplyAnswers DEF Promise!Read, Failure, Promise!Failure
<1> QED BY <1>2, FoundMeant DEF Promise!Serve, answers

LEMMA SameSession ==
  ASSUME IInv, NEW c \in Conn, pc[c] = "found"
  PROVE  [sessions EXCEPT ![found[c]] = sessions[found[c]]] = sessions
  BY FoundMeant DEF IInv, TablesInv

LEMMA ReadMaps ==
  ASSUME IInv, NEW c \in Conn, pc[c] = "found", Change(c, TRUE, Session(c)),
         req[c].command = "read" \/ (req[c].command = "select" /\ req[c].index = None)
  PROVE  Promise!Serve(c)
<1>1. /\ Promise!Answer(c, Promise!View(found[c], sessions[found[c]]))
      /\ UNCHANGED <<sessions, nextID>>
  BY ChangeAnswers, SameSession DEF Session
<1>2. Promise!Perform(c, found[c], req[c], sessions[found[c]])
  BY <1>1 DEF Promise!Perform, Promise!Read
<1> QED BY <1>2, PerformMaps

(* An operation that is allowed or not.                                    *)
LEMMA UpdateMaps ==
  ASSUME IInv, NEW c \in Conn, pc[c] = "found", NEW s, Change(c, TRUE, s),
         Promise!Update(c, found[c], s)
           => Promise!Perform(c, found[c], req[c], sessions[found[c]])
  PROVE  Promise!Serve(c)
<1>1. Promise!Update(c, found[c], s)
  BY ChangeAnswers DEF Promise!Update
<1> QED BY <1>1, PerformMaps

LEMMA SelectMaps == ASSUME IInv, NEW c \in Conn, handleSelect(c) PROVE Promise!Serve(c)
<1>1. pc[c] = "found" /\ req[c].command = "select" /\ found[c] \in Promise!Meant(req[c])
  BY FoundMeant DEF handleSelect
<1>2. CASE req[c].index = None
  BY <1>1, <1>2, ReadMaps DEF handleSelect
<1>3. CASE req[c].index # None /\ CanSelect(Session(c), req[c].index)
  <2> DEFINE s == Select(Session(c), req[c].index)
  <2>1. Change(c, TRUE, s)
    BY <1>3 DEF handleSelect, Change
  <2>2. Promise!Update(c, found[c], s) => Promise!Perform(c, found[c], req[c], sessions[found[c]])
    BY <1>1, <1>3, SameOperations DEF Promise!Perform, Session
  <2> QED BY <1>1, <2>1, <2>2, UpdateMaps
<1>4. CASE req[c].index # None /\ ~ CanSelect(Session(c), req[c].index)
  <2>1. Change(c, FALSE, Select(Session(c), req[c].index))
    BY <1>4 DEF handleSelect, Change
  <2>2. Promise!Refused(req[c])
    BY <1>1, <1>4, SameOperations DEF Promise!Refused, Session
  <2> QED BY <1>1, <2>1, <2>2, FailureMaps
<1> QED BY <1>2, <1>3, <1>4

LEMMA StatevarMaps == ASSUME IInv, NEW c \in Conn, handleStatevar(c) PROVE Promise!Serve(c)
<1> DEFINE s == EnterValues(Session(c), req[c].values)
<1>1. pc[c] = "found" /\ req[c].command = "statevar" /\ found[c] \in Promise!Meant(req[c])
  BY FoundMeant DEF handleStatevar
<1>2. CASE CanEnterValues(Session(c), req[c].values)
  <2>1. Change(c, TRUE, s)
    BY <1>2 DEF handleStatevar, Change
  <2>2. Promise!Update(c, found[c], s) => Promise!Perform(c, found[c], req[c], sessions[found[c]])
    BY <1>1, <1>2, SameOperations DEF Promise!Perform, Session
  <2> QED BY <1>1, <2>1, <2>2, UpdateMaps
<1>3. CASE ~ CanEnterValues(Session(c), req[c].values)
  <2>1. Change(c, FALSE, s)
    BY <1>3 DEF handleStatevar, Change
  <2>2. Promise!Refused(req[c])
    BY <1>1, <1>3, SameOperations DEF Promise!Refused, Session
  <2> QED BY <1>1, <2>1, <2>2, FailureMaps
<1> QED BY <1>2, <1>3

LEMMA JumpMaps == ASSUME IInv, NEW c \in Conn, handleJump(c) PROVE Promise!Serve(c)
<1> DEFINE s == Jump(Session(c), req[c].index)
<1>1. pc[c] = "found" /\ req[c].command = "jump" /\ found[c] \in Promise!Meant(req[c])
  BY FoundMeant DEF handleJump
<1>2. CASE req[c].index # None /\ CanJump(Session(c), req[c].index)
  <2>1. Change(c, TRUE, s)
    BY <1>2 DEF handleJump, Change
  <2>2. Promise!Update(c, found[c], s) => Promise!Perform(c, found[c], req[c], sessions[found[c]])
    BY <1>1, <1>2, SameOperations DEF Promise!Perform, Session
  <2> QED BY <1>1, <2>1, <2>2, UpdateMaps
<1>3. CASE ~ (req[c].index # None /\ CanJump(Session(c), req[c].index))
  <2>1. Change(c, FALSE, s)
    BY <1>3 DEF handleJump, Change
  <2>2. Promise!Refused(req[c])
    BY <1>1, <1>3, SameOperations DEF Promise!Refused, Session
  <2> QED BY <1>1, <2>1, <2>2, FailureMaps
<1> QED BY <1>2, <1>3

LEMMA HandleMaps ==
  ASSUME IInv, NEW c \in Conn, Handle(c)
  PROVE  Promise!Serve(c) \/ UNCHANGED Promise!vars
<1>1. CASE handleRead(c)
  BY <1>1, ReadMaps DEF handleRead
<1> QED
  BY <1>1, NewMaps, ListMaps, VersionMaps, ResolveMaps, RmMaps, SelectMaps, StatevarMaps,
     JumpMaps, TraceMaps, LockMaps
  DEF Handle

LEMMA StepMaps == ASSUME IInv, Next PROVE [Promise!Next]_(Promise!vars)
<1>1. PICK c \in Conn : ReadRequest(c) \/ Lock(c) \/ Handle(c) \/ Unlock(c) \/ WriteResponse(c)
  BY DEF Next
<1>2. Promise!Call(c) \/ Promise!Serve(c) \/ Promise!Return(c) \/ UNCHANGED Promise!vars
  BY <1>1, CallMaps, LockMaps, HandleMaps, ReturnMaps
<1> QED BY <1>2 DEF Promise!Next

LEMMA StutterMaps == ASSUME UNCHANGED vars PROVE UNCHANGED Promise!vars
<1>1. \A c \in Conn : answered(c)' = answered(c)
  BY DEF vars, store, answered, View
<1>2. answers' = answers
  <2>1. answers' = [c \in Conn |-> answered(c)']
    BY DEF answers
  <2> QED BY <1>1, <2>1 DEF answers
<1> QED BY <1>2 DEF vars, store, Promise!vars, answers

(* The service implements the store without a mutex, for any number of     *)
(* connections: a request takes effect at one instant (Service.Handle).    *)
THEOREM ServiceKeepsPromise == Spec => TakesEffectAtOnce
<1>1. Init => Promise!Init
  BY DEF Init, Promise!Init, answered
<1>2. IInv /\ [Next]_vars => [Promise!Next]_(Promise!vars)
  BY StepMaps, StutterMaps
<1> QED BY <1>1, <1>2, Invariance, PTL DEF Spec, TakesEffectAtOnce, Promise!Spec

-----------------------------------------------------------------------------
(* The REPL.                                                               *)

(* Select finds the state of every transition the prompt lists.            *)
DeclaredTransitions ==
  \A d \in Diagrams : \A id : \A i \in 1 .. Len(Outgoing(d, id)) :
    Outgoing(d, id)[i].dst \in d.states

IsSequence(q) == \E X : q \in Seq(X)

(* A session of one of the diagrams, with the trace of every entry.        *)
IsExploration(s) ==
  /\ HasFields(s) /\ s.diagram \in Diagrams
  /\ IsSequence(s.history)
  /\ \A i \in DOMAIN s.history : IsSequence(s.history[i].trace)

FrontInv ==
  /\ IsExploration(session) /\ ModesInStep
  /\ at \in Prompts \cup {"exited", "unreadable", "noSolutions", "dangling"}
  /\ DeclaredTransitions => at # "dangling"

ReplInv ==
  /\ FrontInv
  /\ line # None => line \in {EOF, Broken} \/ \E l \in Inputs : line = Line(l)

-----------------------------------------------------------------------------
(* The operations on a session make a session.                             *)
LEMMA NewExploration == ASSUME NEW d \in Diagrams PROVE IsExploration(NewSession(d))
<1>1. << >> \in Seq({}) /\ DOMAIN << >> = {}
  OBVIOUS
<1> QED BY <1>1 DEF IsExploration, IsSequence, HasFields, NewSession

LEMMA AppendType ==
  ASSUME NEW q, IsSequence(q), NEW e
  PROVE  /\ IsSequence(Append(q, e)) /\ Append(q, e) # << >>
         /\ q \o <<e>> = Append(q, e) /\ q \o << >> = q
         /\ \A i \in DOMAIN Append(q, e) :
              Append(q, e)[i] = e \/ (i \in DOMAIN q /\ Append(q, e)[i] = q[i])
<1>1. PICK X : q \in Seq(X)
  BY DEF IsSequence
<1>2. q \in Seq(X \cup {e}) /\ Append(q, e) \in Seq(X \cup {e}) /\ Append(q, e) # << >>
  BY <1>1
<1>3. /\ q \o <<e>> = Append(q, e) /\ q \o << >> = q
      /\ \A i \in DOMAIN Append(q, e) :
           Append(q, e)[i] = e \/ (i \in DOMAIN q /\ Append(q, e)[i] = q[i])
  BY <1>2
<1> QED BY <1>2, <1>3 DEF IsSequence

LEMMA LastTrace ==
  ASSUME NEW s, IsExploration(s)
  PROVE  IsSequence(currentTrace(s))
<1>1. CASE s.history = << >>
  <2>1. << >> \in Seq({})
    OBVIOUS
  <2> QED BY <1>1, <2>1 DEF currentTrace, IsSequence
<1>2. CASE s.history # << >>
  <2>1. PICK X : s.history \in Seq(X)
    BY DEF IsExploration, IsSequence
  <2>2. Len(s.history) \in DOMAIN s.history
    BY <1>2, <2>1
  <2> QED BY <1>2, <2>2 DEF currentTrace, IsExploration, Last
<1> QED BY <1>1, <1>2

LEMMA SelectFields ==
  ASSUME NEW s, IsExploration(s), NEW i
  PROVE  LET edge == Outgoing(s.diagram, s.current.id)[i + 1]  t == Select(s, i)
         IN  /\ IsExploration(t) /\ t.mode = "values"
             /\ t.diagram = s.diagram /\ t.history = s.history
             /\ t.pending.dst = edge.dst /\ t.pending.event = edge.event
<1> HasFields(s)
  BY DEF IsExploration
<1>1. HasFields(Select(s, i))
  BY DEF HasFields, Select
<1>2. LET edge == Outgoing(s.diagram, s.current.id)[i + 1]  t == Select(s, i)
      IN  /\ t.mode = "values"
          /\ t.diagram = s.diagram /\ t.history = s.history
          /\ t.pending.dst = edge.dst /\ t.pending.event = edge.event
  BY DEF HasFields, Select
<1> QED BY <1>1, <1>2 DEF IsExploration

LEMMA JumpFields ==
  ASSUME NEW s, IsExploration(s), NEW i \in 0 .. Len(s.history) - 1
  PROVE  LET entry == s.history[i + 1]  t == Jump(s, i)
         IN  /\ IsExploration(t) /\ t.mode = s.mode /\ t.diagram = s.diagram
             /\ t.history = Append(s.history, entry) /\ t.current = entry.state
<1> DEFINE entry == s.history[i + 1]
<1> HasFields(s)
  BY DEF IsExploration
<1>1. HasFields(Jump(s, i))
  BY DEF HasFields, Jump
<1>2. LET t == Jump(s, i)
      IN  /\ t.mode = s.mode /\ t.diagram = s.diagram
          /\ t.history = Append(s.history, entry) /\ t.current = entry.state
  BY DEF HasFields, Jump
<1>3. IsSequence(entry.trace)
  <2>1. PICK X : s.history \in Seq(X)
    BY DEF IsExploration, IsSequence
  <2>2. i + 1 \in DOMAIN s.history
    BY <2>1
  <2> QED BY <2>2 DEF IsExploration
<1>4. /\ IsSequence(Jump(s, i).history)
      /\ \A k \in DOMAIN Jump(s, i).history : IsSequence(Jump(s, i).history[k].trace)
  BY <1>2, <1>3, AppendType DEF IsExploration
<1> QED BY <1>1, <1>2, <1>4 DEF IsExploration

LEMMA EnterValuesFields ==
  ASSUME NEW s, IsExploration(s), NEW v
  PROVE  LET state == [id |-> s.pending.dst, values |-> v]
             trace == IF s.pending.event = Tau THEN currentTrace(s)
                      ELSE Append(currentTrace(s), s.pending.event)
             t == EnterValues(s, v)
         IN  /\ IsExploration(t) /\ t.mode = "command" /\ t.diagram = s.diagram
             /\ t.history = Append(s.history, [state |-> state, trace |-> trace])
             /\ t.current = state
<1> DEFINE state == [id |-> s.pending.dst, values |-> v]
           trace == IF s.pending.event = Tau THEN currentTrace(s)
                    ELSE Append(currentTrace(s), s.pending.event)
           entry == [state |-> state, trace |-> trace]
<1> HasFields(s)
  BY DEF IsExploration
<1>1. IsSequence(currentTrace(s))
  BY LastTrace
<1>2. /\ IsSequence(trace)
      /\ trace = currentTrace(s) \o (IF s.pending.event = Tau THEN << >> ELSE <<s.pending.event>>)
  BY <1>1, AppendType
<1>3. HasFields(EnterValues(s, v))
  BY DEF HasFields, EnterValues
<1>4. LET t == EnterValues(s, v)
      IN  /\ t.mode = "command" /\ t.diagram = s.diagram /\ t.current = state
          /\ t.history = Append(s.history, entry)
  BY <1>2 DEF HasFields, EnterValues
<1>5. entry.trace = trace
  OBVIOUS
<1> HIDE DEF entry
<1>6. /\ IsSequence(EnterValues(s, v).history)
      /\ \A k \in DOMAIN EnterValues(s, v).history : IsSequence(EnterValues(s, v).history[k].trace)
  BY <1>2, <1>4, <1>5, AppendType DEF IsExploration
<1>7. IsExploration(EnterValues(s, v))
  BY <1>3, <1>4, <1>6 DEF IsExploration
<1> QED BY <1>4, <1>7 DEF entry

LEMMA BackFields ==
  ASSUME NEW s, IsExploration(s)
  PROVE  LET t == Back(s)
         IN  /\ IsExploration(t) /\ t.mode = "command" /\ t.diagram = s.diagram
             /\ t.history = s.history /\ t.current = Last(s.history).state
<1> HasFields(s)
  BY DEF IsExploration
<1>1. HasFields(Back(s))
  BY DEF HasFields, Back
<1>2. LET t == Back(s)
      IN  /\ t.mode = "command" /\ t.diagram = s.diagram
          /\ t.history = s.history /\ t.current = Last(s.history).state
  BY DEF HasFields, Back
<1> QED BY <1>1, <1>2 DEF IsExploration

-----------------------------------------------------------------------------
(* What the documented diagram sees at each prompt, and after the last.    *)
Seen ==
  /\ at = "values" =>
       /\ documentedPhase = "waitingStateVars" /\ documentedHistory = session.history
       /\ documentedState = None
       /\ documentedTransition = [event |-> session.pending.event, group |-> session.pending.dst]
  /\ at = "command" =>
       /\ documentedPhase = "waitingCommand" /\ documentedHistory = session.history
       /\ documentedState = session.current /\ documentedTransition = None
  /\ at \notin Prompts =>
       documentedHistory = << >> /\ documentedState = None /\ documentedTransition = None
  /\ at \in {"exited", "unreadable"} => documentedPhase = "willExit"
  /\ at = "noSolutions" => documentedPhase = "willDisplayFatal"

LEMMA SeenNow == Seen
  BY DEF Seen, documentedPhase, documentedHistory, documentedState, documentedTransition, Prompts

LEMMA SeenNext == Seen'
  BY DEF Seen, documentedPhase, documentedHistory, documentedState, documentedTransition, Prompts

(* A step of the documented diagram, or none.                              *)
Follows == Documented!Next \/ UNCHANGED Documented!vars

LEMMA Stutters == ASSUME UNCHANGED <<session, at>> PROVE UNCHANGED Documented!vars
  BY DEF Documented!vars, documentedPhase, documentedHistory, documentedState, documentedTransition

(* The end of the command, whatever the session is then.                   *)
LEMMA LeaveFollows ==
  ASSUME at \in Prompts, session' = session, at' \in {"exited", "unreadable"}
  PROVE  Follows
<1>1. /\ documentedPhase \in {"waitingStateVars", "waitingCommand"} /\ documentedPhase' = "willExit"
      /\ documentedHistory' = << >> /\ documentedState' = None /\ documentedTransition' = None
      /\ UNCHANGED session.diagram
  BY SeenNow, SeenNext DEF Seen, Prompts
<1>2. Documented!Exit
  BY <1>1 DEF Documented!Exit, Documented!Leave
<1> QED BY <1>2 DEF Follows, Documented!Next

LEMMA EndStep ==
  ASSUME FrontInv, at \in Prompts, NEW err, OnEnd(err)
  PROVE  FrontInv' /\ Follows
<1>1. session' = session /\ at' \in {"exited", "unreadable"}
  BY DEF OnEnd, Prompt
<1>2. FrontInv'
  BY <1>1 DEF FrontInv, ModesInStep, Prompts
<1> QED BY <1>1, <1>2, LeaveFollows

LEMMA InterruptStep ==
  ASSUME FrontInv, at \in Prompts, OnInterrupt
  PROVE  FrontInv' /\ Follows
<1>1. CASE at = "command" /\ Prompt("exited") /\ UNCHANGED session
  <2>1. FrontInv'
    BY <1>1 DEF FrontInv, ModesInStep, Prompts, Prompt
  <2> QED BY <1>1, <2>1, LeaveFollows DEF Prompt, Prompts
<1>2. CASE at = "values" /\ ~ CanGoBack(session) /\ Prompt("noSolutions") /\ UNCHANGED session
  <2>1. FrontInv'
    BY <1>2 DEF FrontInv, ModesInStep, Prompts, Prompt
  <2>2. /\ documentedPhase = "waitingStateVars" /\ documentedHistory = << >>
        /\ documentedPhase' = "willDisplayFatal"
        /\ documentedHistory' = << >> /\ documentedState' = None /\ documentedTransition' = None
        /\ UNCHANGED session.diagram
    BY <1>2, SeenNow, SeenNext DEF Seen, Prompts, Prompt, CanGoBack
  <2>3. Documented!NoSolutionsFound
    BY <2>2 DEF Documented!NoSolutionsFound, Documented!Leave
  <2> QED BY <2>1, <2>3 DEF Follows, Documented!Next
<1>3. CASE /\ at = "values" /\ CanGoBack(session) /\ session' = Back(session)
           /\ Prompt("command")
  <2>1. /\ IsExploration(session') /\ session'.mode = "command" /\ session'.diagram = session.diagram
        /\ session'.history = session.history
        /\ session'.current = Last(session.history).state
    BY <1>3, BackFields DEF FrontInv
  <2>2. FrontInv'
    BY <1>3, <2>1 DEF FrontInv, ModesInStep, Prompts, Prompt
  <2>3. /\ documentedPhase = "waitingStateVars" /\ documentedHistory = session.history
        /\ session.history # << >> /\ documentedPhase' = "waitingCommand"
        /\ documentedHistory' = session.history /\ documentedState' = Last(session.history).state
        /\ documentedTransition' = None /\ session'.diagram = session.diagram
    BY <1>3, <2>1, SeenNow, SeenNext DEF Seen, Prompt, CanGoBack
  <2>4. Documented!GiveUpTransition
    BY <2>3 DEF Documented!GiveUpTransition, Last, Documented!Last
  <2> QED BY <2>2, <2>4 DEF Follows, Documented!Next
<1> QED BY <1>1, <1>2, <1>3 DEF OnInterrupt

-----------------------------------------------------------------------------
LEMMA ReportStep ==
  ASSUME FrontInv, at \in Prompts, UNCHANGED <<session, at>>
  PROVE  FrontInv' /\ Follows
<1>1. FrontInv'
  BY DEF FrontInv, ModesInStep
<1> QED BY <1>1, Stutters DEF Follows

LEMMA ValuesStep ==
  ASSUME FrontInv, at \in Prompts, NEW l \in Inputs, OnValues(l)
  PROVE  FrontInv' /\ Follows
<1>1. at = "values" /\ session.mode = "values"
  BY DEF OnValues, FrontInv, ModesInStep
<1>2. CASE ~ CanEnterValues(session, l.values)
  BY <1>1, <1>2, ReportStep DEF OnValues, Prompt
<1>3. CASE CanEnterValues(session, l.values)
  <2> DEFINE state == [id |-> session.pending.dst, values |-> l.values]
             trace == IF session.pending.event = Tau THEN currentTrace(session)
                      ELSE Append(currentTrace(session), session.pending.event)
  <2>1. session' = EnterValues(session, l.values) /\ at' = "command"
    BY <1>3 DEF OnValues, Prompt
  <2>2. /\ IsExploration(session') /\ session'.mode = "command" /\ session'.diagram = session.diagram
        /\ session'.history = Append(session.history, [state |-> state, trace |-> trace])
        /\ session'.current = state
    BY <2>1, EnterValuesFields DEF FrontInv
  <2>3. FrontInv'
    BY <2>1, <2>2 DEF FrontInv, ModesInStep, Prompts
  <2>4. /\ documentedPhase = "waitingStateVars" /\ documentedHistory = session.history
        /\ documentedTransition = [event |-> session.pending.event, group |-> session.pending.dst]
        /\ documentedPhase' = "waitingCommand" /\ documentedState' = state
        /\ documentedHistory' = Append(session.history, [state |-> state, trace |-> trace])
        /\ documentedTransition' = None /\ session'.diagram = session.diagram
    BY <1>1, <2>1, <2>2, SeenNow, SeenNext DEF Seen
  <2>5. l.values # Malformed /\ Len(l.values) = session.diagram.vars[session.pending.dst]
    BY <1>3 DEF CanEnterValues, SolveJSON
  <2>6. /\ documentedTransition.event = session.pending.event
        /\ documentedTransition.group = session.pending.dst
    BY <2>4
  <2>7. Documented!appendVisible(Documented!traceOfCommon, documentedTransition.event) = trace
    BY <2>4, <2>6
    DEF Documented!appendVisible, Documented!traceOfCommon, currentTrace, Last, Documented!Last
  <2>8. Documented!Solves(l.values)
    BY <2>5, <2>6 DEF Documented!Solves
  <2> HIDE DEF state, trace
  <2>9. Documented!EnterStateVars(l)
    BY <2>4, <2>6, <2>7, <2>8 DEF Documented!EnterStateVars, state
  <2> QED BY <2>3, <2>9 DEF Follows, Documented!Next
<1> QED BY <1>2, <1>3

LEMMA JumpStep ==
  ASSUME FrontInv, at \in Prompts, NEW l \in Inputs, OnJump(l)
  PROVE  FrontInv' /\ Follows
<1>1. at = "command" /\ session.mode = "command" /\ l.command = "jump"
  BY DEF OnJump, FrontInv, ModesInStep
<1>2. CASE ~ CanJump(session, l.index)
  BY <1>1, <1>2, ReportStep DEF OnJump, Prompt
<1>3. CASE CanJump(session, l.index)
  <2> DEFINE entry == session.history[l.index + 1]
  <2>1. /\ session' = Jump(session, l.index) /\ at' = "command"
        /\ l.index \in 0 .. Len(session.history) - 1
    BY <1>3 DEF OnJump, Prompt, CanJump
  <2>2. /\ IsExploration(session') /\ session'.mode = "command" /\ session'.diagram = session.diagram
        /\ session'.history = Append(session.history, entry) /\ session'.current = entry.state
    BY <1>1, <2>1, JumpFields DEF FrontInv
  <2>3. FrontInv'
    BY <2>1, <2>2 DEF FrontInv, ModesInStep, Prompts
  <2>4. /\ documentedPhase = "waitingCommand" /\ documentedHistory = session.history
        /\ documentedPhase' = "waitingCommand" /\ documentedState' = entry.state
        /\ documentedHistory' = Append(session.history, entry)
        /\ documentedTransition = None /\ documentedTransition' = None
        /\ session'.diagram = session.diagram
    BY <1>1, <2>1, <2>2, SeenNow, SeenNext DEF Seen
  <2>5. l.index < Len(session.history)
    <3>1. Len(session.history) \in Nat
      BY DEF FrontInv, IsExploration, IsSequence
    <3> QED BY <2>1, <3>1
  <2>6. Documented!JumpTo(l)
    BY <1>1, <2>4, <2>5 DEF Documented!JumpTo
  <2> QED BY <2>3, <2>6 DEF Follows, Documented!Next
<1> QED BY <1>2, <1>3

LEMMA SameTransitions == ASSUME NEW d, NEW id PROVE Documented!Outgoing(d, id) = Outgoing(d, id)
  BY DEF Documented!Outgoing, Outgoing

LEMMA SelectStep ==
  ASSUME FrontInv, at \in Prompts, NEW l \in Inputs, OnSelect(l)
  PROVE  FrontInv' /\ (DeclaredTransitions => Follows)
<1> DEFINE ts == Outgoing(session.diagram, session.current.id)
<1>1. at = "command" /\ session.mode = "command" /\ l.command = "select"
  BY DEF OnSelect, FrontInv, ModesInStep
<1>2. CASE OutOfRange(l, Len(ts))
  <2>1. ~ CanSelect(session, l.index)
    BY <1>2 DEF CanSelect, OutOfRange
  <2> QED BY <1>1, <1>2, <2>1, ReportStep DEF OnSelect, Prompt
<1>3. CASE ~ CanSelect(session, l.index) /\ ~ OutOfRange(l, Len(ts))
  <2>1. at' = "dangling" /\ session' = session
    BY <1>1, <1>3 DEF OnSelect, Prompt
  <2>2. ~ DeclaredTransitions
    <3>1. l.index \in 0 .. Len(ts) - 1 /\ ts[l.index + 1].dst \notin session.diagram.states
      BY <1>1, <1>3 DEF CanSelect, OutOfRange
    <3>2. Len(ts) \in Nat /\ l.index + 1 \in 1 .. Len(ts)
      BY <3>1
    <3> QED BY <3>1, <3>2 DEF DeclaredTransitions, FrontInv, IsExploration
  <2>3. FrontInv'
    BY <2>1, <2>2 DEF FrontInv, ModesInStep, Prompts
  <2> QED BY <2>2, <2>3
<1>4. CASE CanSelect(session, l.index)
  <2> DEFINE edge == ts[l.index + 1]
  <2>1. /\ session' = Select(session, l.index) /\ at' = "values"
        /\ l.index \in 0 .. Len(ts) - 1 /\ edge.dst \in session.diagram.states
    BY <1>4 DEF OnSelect, Prompt, CanSelect
  <2>2. /\ IsExploration(session') /\ session'.mode = "values" /\ session'.diagram = session.diagram
        /\ session'.history = session.history
        /\ session'.pending.dst = edge.dst /\ session'.pending.event = edge.event
    BY <2>1, SelectFields DEF FrontInv
  <2>3. FrontInv'
    BY <2>1, <2>2 DEF FrontInv, ModesInStep, Prompts
  <2>4. /\ documentedPhase = "waitingCommand" /\ documentedHistory = session.history
        /\ documentedState = session.current
        /\ documentedPhase' = "waitingStateVars" /\ documentedState' = None
        /\ documentedHistory' = session.history
        /\ documentedTransition' = [event |-> edge.event, group |-> edge.dst]
        /\ session'.diagram = session.diagram
    BY <1>1, <2>1, <2>2, SeenNow, SeenNext DEF Seen
  <2>5. Documented!Outgoing(session.diagram, documentedState.id) = ts
    BY <2>4, SameTransitions
  <2>6. l.index < Len(ts)
    BY <2>1
  <2> HIDE DEF ts
  <2>7. Documented!SelectTransition(l)
    BY <1>1, <2>1, <2>4, <2>5, <2>6 DEF Documented!SelectTransition
  <2> QED BY <2>3, <2>7 DEF Follows, Documented!Next
<1> QED BY <1>2, <1>3, <1>4

LEMMA LineStep ==
  ASSUME FrontInv, at \in Prompts, NEW l \in Inputs, OnLine(l)
  PROVE  FrontInv' /\ (DeclaredTransitions => Follows)
<1>1. CASE OnDisplay(l)
  BY <1>1, ReportStep DEF OnDisplay, Prompt
<1> QED BY <1>1, ValuesStep, JumpStep, SelectStep DEF OnLine

-----------------------------------------------------------------------------
LEMMA ReplStarts == ASSUME ReplInit PROVE ReplInv /\ Documented!Init
<1>1. PICK d \in Diagrams : CanStart(d) /\ session = NewSession(d)
  BY DEF ReplInit
<1>2. at = "values" /\ line = None
  BY DEF ReplInit
<1>3. session.mode = "values"
  BY <1>1 DEF NewSession
<1>4. ReplInv
  BY <1>1, <1>2, <1>3, NewExploration DEF ReplInv, FrontInv, ModesInStep, Prompts
<1>5. /\ session.diagram = d /\ session.history = << >>
      /\ session.pending.event = Tau /\ session.pending.dst = d.start
  BY <1>1 DEF NewSession
<1>6. Documented!Init
  BY <1>1, <1>2, <1>5, SeenNow DEF Documented!Init, Seen, CanStart
<1> QED BY <1>4, <1>6

LEMMA ReplSteps ==
  ASSUME ReplInv, [ReplNext]_replVars
  PROVE  ReplInv' /\ (DeclaredTransitions => Follows)
<1> DEFINE Steady == FrontInv' /\ (DeclaredTransitions => Follows)
<1>1. FrontInv
  BY DEF ReplInv
<1>2. ASSUME UNCHANGED <<session, at>> PROVE Steady
  BY <1>1, <1>2, Stutters DEF FrontInv, ModesInStep, Follows
<1>3. CASE Signal \/ UNCHANGED replVars
  BY <1>2, <1>3 DEF Signal, replVars, ReplInv
<1>4. CASE ReadString
  <2>1. UNCHANGED <<session, at>>
        /\ (line' \in {EOF, Broken} \/ \E l \in Inputs : line' = Line(l))
    BY <1>4 DEF ReadString
  <2> QED BY <1>2, <2>1 DEF ReplInv
<1>5. CASE CheckInterrupts
  <2>1. at \in Prompts /\ line' = line /\ (OnInterrupt \/ UNCHANGED <<session, at>>)
    BY <1>5 DEF CheckInterrupts
  <2>2. Steady
    BY <1>1, <1>2, <2>1, InterruptStep
  <2> QED BY <2>1, <2>2 DEF ReplInv
<1>6. CASE WaitOnPipe
  <2>1. at \in Prompts
    BY <1>6 DEF WaitOnPipe
  <2>2. CASE OnInterrupt /\ UNCHANGED line
    BY <1>1, <2>1, <2>2, InterruptStep DEF ReplInv
  <2>3. CASE OnEnd(line.err) /\ line' = None
    BY <1>1, <2>1, <2>3, EndStep DEF ReplInv
  <2>4. CASE line # None /\ line.err = "nil" /\ OnLine(line.line) /\ line' = None
    <3>1. line.line \in Inputs
      BY <2>4 DEF ReplInv, EOF, Broken, Line
    <3> QED BY <1>1, <2>1, <2>4, <3>1, LineStep DEF ReplInv
  <2> QED BY <1>6, <2>2, <2>3, <2>4 DEF WaitOnPipe
<1>7. CASE WaitInTerminal
  <2>1. at \in Prompts /\ line' = line
    BY <1>7 DEF WaitInTerminal
  <2>2. OnInterrupt \/ (\E err : OnEnd(err)) \/ (\E l \in Inputs : OnLine(l))
    BY <1>7 DEF WaitInTerminal
  <2>3. Steady
    BY <1>1, <2>1, <2>2, InterruptStep, EndStep, LineStep
  <2> QED BY <2>1, <2>3 DEF ReplInv
<1> QED BY <1>3, <1>4, <1>5, <1>6, <1>7 DEF ReplNext

LEMMA ReplInvariance == ReplSpec => []ReplInv
<1>1. ReplInit => ReplInv
  BY ReplStarts
<1>2. ReplInv /\ [ReplNext]_replVars => ReplInv'
  BY ReplSteps
<1> QED BY <1>1, <1>2, PTL DEF ReplSpec

(* Whatever is typed and whenever it is interrupted, the command never     *)
(* asks the session for what the session does not await (run and           *)
(* askStateValues against Session).                                        *)
THEOREM FrontEndAgrees == ReplSpec => []ModesInStep
<1>1. ReplInv => ModesInStep
  BY DEF ReplInv, FrontInv
<1> QED BY <1>1, ReplInvariance, PTL

(* run implements docs/CSDFREPL.puml when every transition a prompt lists  *)
(* leads to a declared state.                                              *)
THEOREM ReplFollowsItsDiagram == DeclaredTransitions => (ReplSpec => BehavesAsDocumented)
<1> SUFFICES ASSUME DeclaredTransitions PROVE ReplSpec => BehavesAsDocumented
  OBVIOUS
<1>1. ReplInit => Documented!Init
  BY ReplStarts
<1>2. ReplInv /\ [ReplNext]_replVars => [Documented!Next]_(Documented!vars)
  BY ReplSteps DEF Follows
<1> QED BY <1>1, <1>2, ReplInvariance, PTL DEF ReplSpec, BehavesAsDocumented, Documented!Spec

-----------------------------------------------------------------------------
Stages == Starting \cup Stopping \cup Ended \cup {"none", "accept"}

Changing(p) == stage[p] \in Starting \cup Stopping

(* A process listens from its bind until it closes.                        *)
ListeningAt(location) ==
  {p \in Process : location[p] \in {"chmod", "accept", "failed", "abandoned", "unlinked"}}

(* A connection nobody has accepted leads to a process that listens, one   *)
(* that was accepted to a process that has not ended since.                *)
RequestInv ==
  \A c \in Client :
    /\ handler[c] = "backlog" => server[c] \in listening
    /\ handler[c] \in {"handling", "handled"}
         => stage[server[c]] \in {"accept", "unlinked", "returned"}
    /\ handler[c] \in {"backlog", "handling", "handled"} => server[c] \in Process

(* Only a bind makes the path refer to a process, and both removals of     *)
(* that process come later, so the file it refers to is that of a process  *)
(* between them, or of one that was killed.                                *)
FileInv ==
  file # Nobody => stage[file] \in {"listen", "chmod", "accept", "failed", "killed"}

(* One process at a time between its start and its accept loop or between  *)
(* the end of the loop and its exit; and what it knows of the path holds.  *)
AloneInv ==
  ~ overlapped =>
    /\ \A p, q \in Process : Changing(p) /\ Changing(q) => p = q
    /\ \A p \in Process :
         /\ stage[p] \in {"listen", "chmod", "accept"} => file = p
         /\ stage[p] \in {"bind", "unlinked", "returned"} => file = Nobody
         /\ stage[p] = "remove" => file \notin listening
         /\ stage[p] \notin {"failed", "abandoned"}

(* DaemonTypeOK's part about connections.                                        *)
RequestTypes ==
  \A c \in Client :
    /\ client[c] \in {"idle", "waiting", "answered", "cut", "refused"}
    /\ handler[c] \in {"backlog", "handling", "handled"} <=> client[c] = "waiting"
    /\ handler[c] \in {"handling", "handled"} => Alive(server[c])

DaemonInv ==
  /\ DaemonTypeOK
  /\ stage \in [Process -> Stages]
  /\ client \in [Client -> {"idle", "waiting", "answered", "cut", "refused"}]
  /\ handler \in [Client -> {"none", "backlog", "handling", "handled", "closed"}]
  /\ server \in [Client -> Process \cup {Nobody}]
  /\ RequestInv /\ FileInv /\ AloneInv

-----------------------------------------------------------------------------
LEMMA DaemonStarts == ASSUME DaemonInit PROVE DaemonInv
  BY ProcessAssumption
 
  DEF DaemonInit, DaemonInv, DaemonTypeOK, RequestInv, FileInv, AloneInv, Changing, Stages,
      Starting, Stopping, Ended, Alive

(* Actions of one process that no connection depends on: it is not serving *)
(* any, or goes on serving them.                                           *)
LEMMA RequestsKept ==
  ASSUME DaemonInv, NEW p \in Process, NEW l, Goto(p, l), UNCHANGED requests,
         listening \subseteq listening',
         stage[p] \notin {"accept", "unlinked", "returned"} \/ l = "unlinked"
  PROVE  /\ RequestInv'
         /\ RequestTypes'
         /\ client' \in [Client -> {"idle", "waiting", "answered", "cut", "refused"}]
         /\ handler' \in [Client -> {"none", "backlog", "handling", "handled", "closed"}]
         /\ server' \in [Client -> Process \cup {Nobody}]
<1>1. RequestInv'
  BY DEF DaemonInv, RequestInv, requests, Goto
<1> QED
  BY <1>1
  DEF DaemonInv, DaemonTypeOK, RequestTypes, RequestInv, requests, Alive, Stopping
(* What NoteOverlap notes.                                                 *)
LEMMA NoOverlap ==
  ASSUME NoteOverlap, ~ overlapped'
  PROVE  ~ overlapped /\ \A p, q \in Process : Changing(p)' /\ Changing(q)' => p = q
<1>1. PICK S : S = {p \in Process : stage'[p] \in Starting \cup Stopping}
  OBVIOUS
<1>2. S \subseteq Process /\ IsFiniteSet(S) /\ Cardinality(S) \in Nat
  BY <1>1, ProcessAssumption, FS_Subset, FS_CardinalityType
<1>3. ~ overlapped /\ ~ (Cardinality(S) > 1)
  BY <1>1 DEF NoteOverlap
<1>4. ASSUME NEW p \in S, NEW q \in S, p # q PROVE FALSE
  <2>1. Cardinality({p, q}) <= Cardinality(S)
    BY <1>2, FS_Subset
  <2>2. Cardinality({p, q}) = 2
    <3>1. IsFiniteSet({p}) /\ Cardinality({p}) = 1
      BY FS_Singleton
    <3>2. Cardinality({p} \cup {q}) = Cardinality({p}) + 1
      BY <3>1, <1>4, FS_AddElement
    <3> QED BY <3>1, <3>2, {p, q} = {p} \cup {q}
  <2> QED BY <1>2, <1>3, <2>1, <2>2
<1> QED
  BY <1>1, <1>3, <1>4 DEF Changing

(* Such an action preserves DaemonInv when it keeps what processes know of the  *)
(* path, and listens when it should.                                       *)
LEMMA QuietStep ==
  ASSUME DaemonInv, NEW p \in Process, NEW l \in Stages, Goto(p, l), UNCHANGED requests,
         listening \subseteq listening',
         stage[p] \notin {"accept", "unlinked", "returned"} \/ l = "unlinked",
         file' \in Process \cup {Nobody}, signalled' \subseteq Process,
         listening' = ListeningAt(stage'), FileInv', AloneInv'
  PROVE  DaemonInv'
<1>1. stage' \in [Process -> Stages]
  BY DEF DaemonInv, Goto
<1>2. DaemonTypeOK'
  BY RequestsKept DEF DaemonTypeOK, RequestTypes, ListeningAt
<1> QED
  BY <1>1, <1>2, RequestsKept DEF DaemonInv

(* The one action that makes a process count as starting.                  *)
LEMMA StartIInv ==
  ASSUME DaemonInv, NEW p \in Process, Start(p) PROVE DaemonInv'
<1>1. PICK l \in {"stat"} : Goto(p, l)
  BY DEF Start
<1>2. /\ UNCHANGED requests /\ listening \subseteq listening'
      /\ stage[p] \notin {"accept", "unlinked", "returned"} \/ l = "unlinked"
      /\ file' \in Process \cup {Nobody} /\ signalled' \subseteq Process
  BY <1>1 DEF Start, DaemonInv, DaemonTypeOK
<1>3. listening' = ListeningAt(stage')
  BY <1>1 DEF Start, DaemonInv, DaemonTypeOK, Goto, ListeningAt
<1>4. FileInv'
  BY <1>1, <1>2 DEF Start, DaemonInv, DaemonTypeOK, FileInv, Goto
<1>5. AloneInv'
  BY <1>1, NoOverlap
  DEF Start, DaemonInv, DaemonTypeOK, AloneInv, Changing, Starting, Stopping, Goto
<1> QED
  BY <1>1, <1>2, <1>3, <1>4, <1>5, QuietStep DEF Stages, Starting, Stopping, Ended

(* No file at the path, so no daemon accepts.                              *)
LEMMA StatIInv == ASSUME DaemonInv, NEW p \in Process, Stat(p) PROVE DaemonInv'
<1>1. PICK l \in {"bind", "dial"} : Goto(p, l)
  BY DEF Stat
<1>2. /\ UNCHANGED requests /\ listening \subseteq listening'
      /\ stage[p] \notin {"accept", "unlinked", "returned"} \/ l = "unlinked"
      /\ file' \in Process \cup {Nobody} /\ signalled' \subseteq Process
  BY <1>1 DEF Stat, DaemonInv, DaemonTypeOK
<1>3. listening' = ListeningAt(stage')
  BY <1>1 DEF Stat, DaemonInv, DaemonTypeOK, Goto, ListeningAt
<1>4. FileInv'
  BY <1>1, <1>2 DEF Stat, DaemonInv, DaemonTypeOK, FileInv, Goto
<1>5. AloneInv'
  BY <1>1, ProcessAssumption
  DEF Stat, DaemonInv, DaemonTypeOK, AloneInv, Changing, Starting, Stopping, Goto
<1> QED
  BY <1>1, <1>2, <1>3, <1>4, <1>5, QuietStep DEF Stages, Starting, Stopping, Ended

LEMMA DialIInv == ASSUME DaemonInv, NEW p \in Process, Dial(p) PROVE DaemonInv'
<1>1. PICK l \in {"refused", "remove"} : Goto(p, l)
  BY DEF Dial
<1>2. /\ UNCHANGED requests /\ listening \subseteq listening'
      /\ stage[p] \notin {"accept", "unlinked", "returned"} \/ l = "unlinked"
      /\ file' \in Process \cup {Nobody} /\ signalled' \subseteq Process
  BY <1>1 DEF Dial, DaemonInv, DaemonTypeOK
<1>3. listening' = ListeningAt(stage')
  BY <1>1 DEF Dial, DaemonInv, DaemonTypeOK, Goto, ListeningAt
<1>4. FileInv'
  BY <1>1, <1>2 DEF Dial, DaemonInv, DaemonTypeOK, FileInv, Goto
<1>5. AloneInv'
  BY <1>1
  DEF Dial, DaemonInv, DaemonTypeOK, AloneInv, Changing, Starting, Stopping, Goto
<1> QED
  BY <1>1, <1>2, <1>3, <1>4, <1>5, QuietStep DEF Stages, Starting, Stopping, Ended

(* The file was nobody's who listens, so no daemon accepts.                *)
LEMMA RemoveStaleIInv ==
  ASSUME DaemonInv, NEW p \in Process, RemoveStale(p) PROVE DaemonInv'
<1>1. PICK l \in {"refused", "bind"} : Goto(p, l)
  BY DEF RemoveStale
<1>2. /\ UNCHANGED requests /\ listening \subseteq listening'
      /\ stage[p] \notin {"accept", "unlinked", "returned"} \/ l = "unlinked"
      /\ file' \in Process \cup {Nobody} /\ signalled' \subseteq Process
  BY <1>1 DEF RemoveStale, DaemonInv, DaemonTypeOK
<1>3. listening' = ListeningAt(stage')
  BY <1>1 DEF RemoveStale, DaemonInv, DaemonTypeOK, Goto, ListeningAt
<1>4. FileInv'
  BY <1>1, <1>2 DEF RemoveStale, DaemonInv, DaemonTypeOK, FileInv, Goto
<1>5. AloneInv'
  BY <1>1
  DEF RemoveStale, DaemonInv, DaemonTypeOK, AloneInv, Changing, Starting, Stopping, Goto
<1> QED
  BY <1>1, <1>2, <1>3, <1>4, <1>5, QuietStep DEF Stages, Starting, Stopping, Ended

LEMMA BindIInv == ASSUME DaemonInv, NEW p \in Process, Bind(p) PROVE DaemonInv'
<1>1. PICK l \in {"listen", "refused"} : Goto(p, l)
  BY DEF Bind
<1>2. /\ UNCHANGED requests /\ listening \subseteq listening'
      /\ stage[p] \notin {"accept", "unlinked", "returned"} \/ l = "unlinked"
      /\ file' \in Process \cup {Nobody} /\ signalled' \subseteq Process
  BY <1>1 DEF Bind, DaemonInv, DaemonTypeOK
<1>3. listening' = ListeningAt(stage')
  BY <1>1 DEF Bind, DaemonInv, DaemonTypeOK, Goto, ListeningAt
<1>4. FileInv'
  BY <1>1, <1>2 DEF Bind, DaemonInv, DaemonTypeOK, FileInv, Goto
<1>5. AloneInv'
  BY <1>1, ProcessAssumption
  DEF Bind, DaemonInv, DaemonTypeOK, AloneInv, Changing, Starting, Stopping, Goto
<1> QED
  BY <1>1, <1>2, <1>3, <1>4, <1>5, QuietStep DEF Stages, Starting, Stopping, Ended

LEMMA ListenIInv ==
  ASSUME DaemonInv, NEW p \in Process, Listen(p) PROVE DaemonInv'
<1>1. PICK l \in {"chmod"} : Goto(p, l)
  BY DEF Listen
<1>2. /\ UNCHANGED requests /\ listening \subseteq listening'
      /\ stage[p] \notin {"accept", "unlinked", "returned"} \/ l = "unlinked"
      /\ file' \in Process \cup {Nobody} /\ signalled' \subseteq Process
  BY <1>1 DEF Listen, DaemonInv, DaemonTypeOK
<1>3. listening' = ListeningAt(stage')
  BY <1>1 DEF Listen, DaemonInv, DaemonTypeOK, Goto, ListeningAt
<1>4. FileInv'
  BY <1>1, <1>2 DEF Listen, DaemonInv, DaemonTypeOK, FileInv, Goto
<1>5. AloneInv'
  BY <1>1
  DEF Listen, DaemonInv, DaemonTypeOK, AloneInv, Changing, Starting, Stopping, Goto
<1> QED
  BY <1>1, <1>2, <1>3, <1>4, <1>5, QuietStep DEF Stages, Starting, Stopping, Ended

(* The path is gone only when another process removed it.                  *)
LEMMA ChmodIInv ==
  ASSUME DaemonInv, NEW p \in Process, Chmod(p) PROVE DaemonInv'
<1>1. PICK l \in {"failed", "accept"} : Goto(p, l)
  BY DEF Chmod
<1>2. /\ UNCHANGED requests /\ listening \subseteq listening'
      /\ stage[p] \notin {"accept", "unlinked", "returned"} \/ l = "unlinked"
      /\ file' \in Process \cup {Nobody} /\ signalled' \subseteq Process
  BY <1>1 DEF Chmod, DaemonInv, DaemonTypeOK
<1>3. listening' = ListeningAt(stage')
  BY <1>1 DEF Chmod, DaemonInv, DaemonTypeOK, Goto, ListeningAt
<1>4. FileInv'
  BY <1>1, <1>2 DEF Chmod, DaemonInv, DaemonTypeOK, FileInv, Goto
<1>5. AloneInv'
  BY <1>1, ProcessAssumption
  DEF Chmod, DaemonInv, DaemonTypeOK, AloneInv, Changing, Starting, Stopping, Goto
<1> QED
  BY <1>1, <1>2, <1>3, <1>4, <1>5, QuietStep DEF Stages, Starting, Stopping, Ended

(* The path of the daemon that stops was that of the only one that accepts. *)
LEMMA CloseUnlinksIInv ==
  ASSUME DaemonInv, NEW p \in Process, CloseUnlinks(p) PROVE DaemonInv'
<1>1. PICK l \in {"abandoned", "unlinked"} :
        Goto(p, l) /\ (stage[p] = "failed" \/ l = "unlinked")
  BY DEF CloseUnlinks
<1>2. /\ UNCHANGED requests /\ listening \subseteq listening'
      /\ stage[p] \notin {"accept", "unlinked", "returned"} \/ l = "unlinked"
      /\ file' \in Process \cup {Nobody} /\ signalled' \subseteq Process
  BY <1>1 DEF CloseUnlinks, DaemonInv, DaemonTypeOK
<1>3. listening' = ListeningAt(stage')
  BY <1>1 DEF CloseUnlinks, DaemonInv, DaemonTypeOK, Goto, ListeningAt
<1>4. FileInv'
  BY <1>1, <1>2 DEF CloseUnlinks, DaemonInv, DaemonTypeOK, FileInv, Goto
<1>5. AloneInv'
  BY <1>1, NoOverlap
  DEF CloseUnlinks, DaemonInv, DaemonTypeOK, AloneInv, Changing, Starting, Stopping, Goto
<1> QED
  BY <1>1, <1>2, <1>3, <1>4, <1>5, QuietStep DEF Stages, Starting, Stopping, Ended

LEMMA InterruptIInv ==
  ASSUME DaemonInv, NEW p \in Process, Interrupt(p) PROVE DaemonInv'
  BY
  DEF Interrupt, DaemonInv, DaemonTypeOK, RequestInv, FileInv, AloneInv, Changing, Alive, requests

-----------------------------------------------------------------------------
(* An action of a process that resets the connections that depend on it.   *)
LEMMA ResetStep ==
  ASSUME DaemonInv, NEW p \in Process, NEW l \in Stages, Goto(p, l),
         NEW ends \in SUBSET {"backlog", "handling", "handled"}, Reset(p, ends),
         \/ ends = {"backlog", "handling", "handled"}
         \/ ends = {"backlog"} /\ l = "returned",
         listening' = ListeningAt(stage'), listening' = listening \ {p},
         server' = server, file' \in Process \cup {Nobody}, signalled' \subseteq Process,
         FileInv', AloneInv'
  PROVE  DaemonInv'
<1>1. /\ client' \in [Client -> {"idle", "waiting", "answered", "cut", "refused"}]
      /\ handler' \in [Client -> {"none", "backlog", "handling", "handled", "closed"}]
      /\ stage' \in [Process -> Stages]
  BY DEF DaemonInv, Reset, Goto
<1>2. \A c \in Client : handler'[c] \in {"backlog", "handling", "handled"}
        => handler'[c] = handler[c] /\ (server[c] = p => l = "returned" /\ handler[c] # "backlog")
  BY DEF DaemonInv, Reset
<1>3. RequestInv'
  BY <1>2 DEF DaemonInv, RequestInv, Goto
<1>4. \A c \in Client :
        handler'[c] \in {"backlog", "handling", "handled"} <=> client'[c] = "waiting"
  BY DEF DaemonInv, DaemonTypeOK, Reset
<1>5. DaemonTypeOK'
  <2>1. \A c \in Client : handler'[c] \in {"handling", "handled"} => Alive(server[c])'
    BY <1>3 DEF RequestInv, Alive, Stopping
  <2> QED BY <1>1, <1>4, <2>1 DEF DaemonTypeOK, ListeningAt
<1> QED
  BY <1>1, <1>3, <1>5 DEF DaemonInv

LEMMA CloseStopsIInv ==
  ASSUME DaemonInv, NEW p \in Process, CloseStops(p) PROVE DaemonInv'
<1>1. /\ Goto(p, "returned") /\ Reset(p, {"backlog"}) /\ server' = server
      /\ file' \in Process \cup {Nobody} /\ signalled' \subseteq Process
  BY DEF CloseStops, DaemonInv, DaemonTypeOK
<1>2. listening' = ListeningAt(stage') /\ listening' = listening \ {p}
  BY <1>1 DEF CloseStops, DaemonInv, DaemonTypeOK, Goto, ListeningAt
<1>3. FileInv'
  BY <1>1 DEF CloseStops, DaemonInv, DaemonTypeOK, FileInv, Goto
<1>4. AloneInv'
  BY <1>1
  DEF CloseStops, DaemonInv, DaemonTypeOK, AloneInv, Changing, Starting, Stopping, Goto, Alive
<1> QED
  BY <1>1, <1>2, <1>3, <1>4, ResetStep DEF Stages, Stopping, Ended

LEMMA ReturnIInv ==
  ASSUME DaemonInv, NEW p \in Process, Return(p) PROVE DaemonInv'
<1>1. /\ Goto(p, "exited") /\ Reset(p, {"backlog", "handling", "handled"}) /\ server' = server
      /\ file' \in Process \cup {Nobody} /\ signalled' \subseteq Process
  BY DEF Return, DaemonInv, DaemonTypeOK
<1>2. listening' = ListeningAt(stage') /\ listening' = listening \ {p}
  BY <1>1 DEF Return, DaemonInv, DaemonTypeOK, Goto, ListeningAt
<1>3. FileInv'
  BY <1>1 DEF Return, DaemonInv, DaemonTypeOK, FileInv, Goto
<1>4. AloneInv'
  BY <1>1
  DEF Return, DaemonInv, DaemonTypeOK, AloneInv, Changing, Starting, Stopping, Goto, Alive
<1> QED
  BY <1>1, <1>2, <1>3, <1>4, ResetStep DEF Stages, Stopping, Ended

LEMMA KillIInv == ASSUME DaemonInv, NEW p \in Process, Kill(p) PROVE DaemonInv'
<1>1. /\ Goto(p, "killed") /\ Reset(p, {"backlog", "handling", "handled"}) /\ server' = server
      /\ file' \in Process \cup {Nobody} /\ signalled' \subseteq Process
  BY DEF Kill, DaemonInv, DaemonTypeOK
<1>2. listening' = ListeningAt(stage') /\ listening' = listening \ {p}
  BY <1>1 DEF Kill, DaemonInv, DaemonTypeOK, Goto, ListeningAt
<1>3. FileInv'
  BY <1>1 DEF Kill, DaemonInv, DaemonTypeOK, FileInv, Goto
<1>4. AloneInv'
  BY <1>1
  DEF Kill, DaemonInv, DaemonTypeOK, AloneInv, Changing, Starting, Stopping, Goto, Alive
<1> QED
  BY <1>1, <1>2, <1>3, <1>4, ResetStep DEF Stages, Stopping, Ended

-----------------------------------------------------------------------------
(* Actions on a connection.                                                *)
LEMMA DialDaemonInv ==
  ASSUME DaemonInv, NEW c \in Client, DialDaemon(c) PROVE DaemonInv'
  BY
  DEF DialDaemon, DaemonInv, DaemonTypeOK, RequestInv, FileInv, AloneInv, Changing, Alive, process

LEMMA AcceptIInv ==
  ASSUME DaemonInv, NEW p \in Process, Accept(p) PROVE DaemonInv'
  BY
  DEF Accept, DaemonInv, DaemonTypeOK, RequestInv, FileInv, AloneInv, Changing, Alive, Stopping, process

LEMMA HandleRequestIInv ==
  ASSUME DaemonInv, NEW c \in Client, HandleRequest(c) PROVE DaemonInv'
  BY
  DEF HandleRequest, DaemonInv, DaemonTypeOK, RequestInv, FileInv, AloneInv, Changing, Alive, process

LEMMA AnswerIInv ==
  ASSUME DaemonInv, NEW c \in Client, Answer(c) PROVE DaemonInv'
  BY
  DEF Answer, DaemonInv, DaemonTypeOK, RequestInv, FileInv, AloneInv, Changing, Alive, process

LEMMA DaemonStutters == ASSUME DaemonInv, UNCHANGED daemonVars PROVE DaemonInv'
  BY
  DEF daemonVars, process, requests, DaemonInv, DaemonTypeOK, RequestInv, FileInv, AloneInv, Changing, Alive

THEOREM DaemonInvariance == DaemonSpec => []DaemonInv
<1>1. DaemonInit => DaemonInv
  BY DaemonStarts
<1>2. DaemonInv /\ [DaemonNext]_daemonVars => DaemonInv'
  <2> SUFFICES ASSUME DaemonInv, [DaemonNext]_daemonVars PROVE DaemonInv'
    OBVIOUS
  <2>1. ASSUME NEW p \in Process, Start(p) \/ Serve(p) \/ Interrupt(p) \/ Kill(p) \/ Accept(p)
        PROVE  DaemonInv'
    BY <2>1, StartIInv, StatIInv, DialIInv, RemoveStaleIInv, BindIInv, ListenIInv, ChmodIInv,
       CloseUnlinksIInv, CloseStopsIInv, ReturnIInv, InterruptIInv, KillIInv, AcceptIInv
    DEF Serve
  <2>2. ASSUME NEW c \in Client, DialDaemon(c) \/ HandleRequest(c) \/ Answer(c) PROVE DaemonInv'
    BY <2>2, DialDaemonInv, HandleRequestIInv, AnswerIInv
  <2> QED
    BY <2>1, <2>2, DaemonStutters DEF DaemonNext
<1> QED
  BY <1>1, <1>2, PTL DEF DaemonSpec

-----------------------------------------------------------------------------
(* Type correctness, with the ties between where a process is, whether it  *)
(* listens and what its connections may be at.                             *)
THEOREM DaemonTypeCorrect == DaemonSpec => []DaemonTypeOK
<1>1. DaemonInv => DaemonTypeOK
  BY DEF DaemonInv
<1> QED
  BY <1>1, DaemonInvariance, PTL

(* ensureSocketFree and the two removals of the path are enough for any    *)
(* number of daemons that start and stop one at a time, some of them       *)
(* killed: clients reach the one that accepts, and there is no other.      *)
THEOREM OneAtATimeSuffices == DaemonSpec => []ReachableUnlessOverlapped
<1>1. ASSUME DaemonInv, ~ overlapped PROVE Cardinality(listening) <= 1
  <2>1. \A p, q \in listening : p = q
    BY <1>1, ProcessAssumption
    DEF DaemonInv, DaemonTypeOK, AloneInv, Changing, Starting, Stopping
  <2>2. CASE listening = {}
    BY <2>2, FS_EmptySet
  <2>3. CASE \E p \in listening : listening = {p}
    BY <2>3, FS_Singleton
  <2> QED BY <2>1, <2>2, <2>3
<1>2. DaemonInv => ReachableUnlessOverlapped
  BY <1>1 DEF DaemonInv, AloneInv, ReachableUnlessOverlapped
<1> QED
  BY <1>2, DaemonInvariance, PTL

(* Daemons that end of themselves leave no file, whichever of them removed *)
(* whose.                                                                  *)
THEOREM NoFileOutlives == DaemonSpec => []CleanExit
<1>1. DaemonInv => CleanExit
  BY DEF DaemonInv, DaemonTypeOK, FileInv, CleanExit, Alive, Starting, Stopping
<1> QED
  BY <1>1, DaemonInvariance, PTL

=============================================================================
