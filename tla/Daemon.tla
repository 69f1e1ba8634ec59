------------------------------- MODULE Daemon -------------------------------
(***************************************************************************)
(* tools/csdfrepld/csdfrepldcmd/serve.go and the client's runRequest: the  *)
(* life of daemon processes that share one socket path, with clients that  *)
(* dial it.  A socket file refers to the process that bound it and stays   *)
(* behind when that process is killed.  The kernel and package net are     *)
(* external: bind creates the file and fails when one exists, dialling     *)
(* succeeds when the file's process listens, and closing a listener first  *)
(* unlinks the path, whatever is there by then, and then stops listening.  *)
(***************************************************************************)
EXTENDS Naturals, FiniteSets

CONSTANTS
  Process,  \* runs of csdfrepld
  Client,   \* runs of csdfreplcmd, one request each
  Nobody    \* no file, no process

ASSUME ProcessAssumption == IsFiniteSet(Process) /\ Nobody \notin Process

VARIABLES
  stage,      \* where serve is in each process
  file,       \* the process whose socket the path refers to, or Nobody
  listening,  \* processes with an open listener
  signalled,  \* processes an interrupt was sent to
  interrupted, \* processes whose channel "interrupts" holds one
  overlapped, \* two processes were starting or stopping at once
  client,     \* what each client sees: "idle", "waiting", "answered", "cut" or "refused"
  server,     \* the process a client is connected to, or Nobody
  handler     \* the daemon's end: "none", "backlog", "handling", "handled" or "closed"

process == <<stage, file, listening, signalled, interrupted, overlapped>>
requests == <<client, server, handler>>

daemonVars == <<process, requests>>

Starting == {"stat", "dial", "remove", "bind", "listen", "chmod"}
Stopping == {"failed", "abandoned", "unlinked", "returned"}
Ended    == {"exited", "refused", "killed"}

Alive(p) == stage[p] \in Starting \cup Stopping \cup {"accept"}

DaemonInit ==
  /\ stage = [p \in Process |-> "none"]
  /\ file = Nobody /\ listening = {} /\ signalled = {} /\ interrupted = {}
  /\ overlapped = FALSE
  /\ client = [c \in Client |-> "idle"]
  /\ server = [c \in Client |-> Nobody]
  /\ handler = [c \in Client |-> "none"]

Goto(p, l) == stage' = [stage EXCEPT ![p] = l]

NoteOverlap ==
  overlapped' = (overlapped \/
                   Cardinality({p \in Process : stage'[p] \in Starting \cup Stopping}) > 1)

-----------------------------------------------------------------------------
(* The user starts a daemon.                                               *)
Start(p) ==
  /\ stage[p] = "none"
  /\ Goto(p, "stat")
  /\ NoteOverlap
  /\ UNCHANGED <<file, listening, signalled, interrupted, requests>>

(* ensureSocketFree: is there a file, does anyone listen, remove the file. *)
Stat(p) ==
  /\ stage[p] = "stat"
  /\ Goto(p, IF file = Nobody THEN "bind" ELSE "dial")
  /\ UNCHANGED <<file, listening, signalled, interrupted, overlapped, requests>>

(* Faulty variant: a file is taken for a leftover without dialling.        *)
Dial_Skipped(p) ==
  /\ stage[p] = "dial"
  /\ Goto(p, "remove")
  /\ UNCHANGED <<file, listening, signalled, interrupted, overlapped, requests>>

Dial(p) ==
  /\ stage[p] = "dial"
  /\ Goto(p, IF file \in listening THEN "refused" ELSE "remove")
  /\ UNCHANGED <<file, listening, signalled, interrupted, overlapped, requests>>

RemoveStale(p) ==
  /\ stage[p] = "remove"
  /\ file' = Nobody
  /\ Goto(p, IF file = Nobody THEN "refused" ELSE "bind")
  /\ UNCHANGED <<listening, signalled, interrupted, overlapped, requests>>

(* net.Listen binds the path first; until it listens, dialling it fails.   *)
Bind(p) ==
  /\ stage[p] = "bind"
  /\ \/ file = Nobody /\ file' = p /\ Goto(p, "listen")
     \/ file # Nobody /\ UNCHANGED file /\ Goto(p, "refused")
  /\ UNCHANGED <<listening, signalled, interrupted, overlapped, requests>>

Listen(p) ==
  /\ stage[p] = "listen"
  /\ listening' = listening \cup {p}
  /\ Goto(p, "chmod")
  /\ UNCHANGED <<file, signalled, interrupted, overlapped, requests>>

(* Faulty variants: the failure does not end serve; an interrupt that came *)
(* early ends the process on the spot.                                     *)
Chmod_GoingOn(p) ==
  /\ stage[p] = "chmod"
  /\ Goto(p, "accept")
  /\ listening' = IF file = Nobody THEN listening \ {p} ELSE listening
  /\ UNCHANGED <<file, signalled, interrupted, overlapped, requests>>

Chmod_Quitting(p) ==
  /\ stage[p] = "chmod"
  /\ Goto(p, IF p \in interrupted THEN "exited" ELSE "accept")
  /\ listening' = listening \ interrupted
  /\ UNCHANGED <<file, signalled, interrupted, overlapped, requests>>

(* Chmod fails when the path is gone; the listener is closed then.         *)
Chmod(p) ==
  /\ stage[p] = "chmod"
  /\ Goto(p, IF file = Nobody THEN "failed" ELSE "accept")
  /\ UNCHANGED <<file, listening, signalled, interrupted, overlapped, requests>>

(***************************************************************************)
(* The interrupt waits in a buffered channel until the goroutine started   *)
(* in front of the accept loop receives it; this goroutine and the failure *)
(* of Chmod both close the listener.                                       *)
(***************************************************************************)
(* Faulty variant: the channel has no buffer, and an early interrupt that  *)
(* nobody receives is dropped.                                             *)
Interrupt_Unbuffered(p) ==
  /\ stage[p] \in Starting \cup {"accept"}
  /\ signalled' = signalled \cup {p}
  /\ interrupted' = IF stage[p] = "accept" THEN interrupted \cup {p} ELSE interrupted
  /\ UNCHANGED <<stage, file, listening, overlapped, requests>>

Interrupt(p) ==
  /\ stage[p] \in Starting \cup {"accept"}
  /\ signalled' = signalled \cup {p}
  /\ interrupted' = interrupted \cup {p}
  /\ UNCHANGED <<stage, file, listening, overlapped, requests>>

CloseUnlinks(p) ==
  /\ \/ stage[p] = "accept" /\ p \in interrupted
     \/ stage[p] = "failed"
  /\ file' = Nobody
  /\ interrupted' = interrupted \ {p}
  /\ Goto(p, IF stage[p] = "failed" THEN "abandoned" ELSE "unlinked")
  /\ NoteOverlap
  /\ UNCHANGED <<listening, signalled, requests>>

(* Connections nobody accepted are reset with the listener.                *)
Reset(p, ends) ==
  /\ client' = [c \in Client |->
       IF server[c] = p /\ client[c] = "waiting" /\ handler[c] \in ends
         THEN "cut" ELSE client[c]]
  /\ handler' = [c \in Client |->
       IF server[c] = p /\ handler[c] \in ends THEN "closed" ELSE handler[c]]

CloseStops(p) ==
  /\ stage[p] \in {"abandoned", "unlinked"}
  /\ listening' = listening \ {p}
  /\ Reset(p, {"backlog"})
  /\ Goto(p, "returned")
  /\ UNCHANGED <<file, signalled, interrupted, overlapped, server>>

(* Accept fails, serve returns, its deferred call removes the path again   *)
(* and the process ends with every goroutine it has left.                  *)
Return(p) ==
  /\ stage[p] = "returned"
  /\ file' = Nobody
  /\ Reset(p, {"backlog", "handling", "handled"})
  /\ Goto(p, "exited")
  /\ UNCHANGED <<listening, signalled, interrupted, overlapped, server>>

(* The process is killed or crashes: the file stays.                       *)
Kill(p) ==
  /\ Alive(p)
  /\ listening' = listening \ {p}
  /\ Reset(p, {"backlog", "handling", "handled"})
  /\ Goto(p, "killed")
  /\ UNCHANGED <<file, signalled, interrupted, overlapped, server>>

-----------------------------------------------------------------------------
(* runRequest dials the path and sends its request, or gives up.           *)
DialDaemon(c) ==
  /\ client[c] = "idle"
  /\ \/ /\ file \in listening
        /\ client' = [client EXCEPT ![c] = "waiting"]
        /\ server' = [server EXCEPT ![c] = file]
        /\ handler' = [handler EXCEPT ![c] = "backlog"]
     \/ /\ file \notin listening
        /\ client' = [client EXCEPT ![c] = "refused"]
        /\ UNCHANGED <<server, handler>>
  /\ UNCHANGED process

(* The accept loop hands the connection to a goroutine of its own.         *)
Accept(p) ==
  /\ stage[p] \in {"accept", "unlinked"} /\ p \in listening
  /\ \E c \in Client :
       /\ server[c] = p /\ handler[c] = "backlog"
       /\ handler' = [handler EXCEPT ![c] = "handling"]
  /\ UNCHANGED <<process, client, server>>

(* Faulty variant: a request that cannot be read leaves the connection open. *)
HandleRequest_Unclosed(c) ==
  /\ handler[c] = "handling" /\ Alive(server[c])
  /\ handler' = [handler EXCEPT ![c] = "closed"]
  /\ UNCHANGED <<process, client, server>>

(* handleConn: the request takes effect in the process's service, whether  *)
(* or not the answer will reach the client.                                *)
HandleRequest(c) ==
  /\ handler[c] = "handling" /\ Alive(server[c])
  /\ handler' = [handler EXCEPT ![c] = "handled"]
  /\ UNCHANGED <<process, client, server>>

Answer(c) ==
  /\ handler[c] = "handled" /\ Alive(server[c])
  /\ handler' = [handler EXCEPT ![c] = "closed"]
  /\ client' = [client EXCEPT ![c] = "answered"]
  /\ UNCHANGED <<process, server>>

Serve(p) ==
  \/ Stat(p) \/ Dial(p) \/ RemoveStale(p) \/ Bind(p) \/ Listen(p) \/ Chmod(p)
  \/ CloseUnlinks(p) \/ CloseStops(p) \/ Return(p)

DaemonNext ==
  \/ \E p \in Process : Start(p) \/ Serve(p) \/ Interrupt(p) \/ Kill(p) \/ Accept(p)
  \/ \E c \in Client : DialDaemon(c) \/ HandleRequest(c) \/ Answer(c)

(* Goroutines that can run do run; nobody has to start, interrupt or kill  *)
(* a daemon or to dial it.  An accept loop never passes a connection over. *)
DaemonFairness ==
  /\ \A p \in Process : WF_daemonVars(Serve(p)) /\ WF_daemonVars(Accept(p))
  /\ \A c \in Client : WF_daemonVars(HandleRequest(c)) /\ WF_daemonVars(Answer(c))

DaemonSpec == DaemonInit /\ [][DaemonNext]_daemonVars /\ DaemonFairness

-----------------------------------------------------------------------------
(* Every variable stays in its domain; a process listens from its bind     *)
(* until it closes, and a connection ends with the process it leads to.    *)
DaemonTypeOK ==
  /\ file \in Process \cup {Nobody} /\ signalled \subseteq Process
  /\ listening = {p \in Process :
                    stage[p] \in {"chmod", "accept", "failed", "abandoned", "unlinked"}}
  /\ \A c \in Client :
       /\ client[c] \in {"idle", "waiting", "answered", "cut", "refused"}
       /\ handler[c] \in {"backlog", "handling", "handled"} <=> client[c] = "waiting"
       /\ handler[c] \in {"handling", "handled"} => Alive(server[c])

(* ensureSocketFree's promise (serve.go:55-57), that a daemon does not     *)
(* start while another one listens on the path.                            *)
OneDaemon ==
  \A p, q \in listening : stage[p] = "accept" /\ stage[q] = "accept" => p = q

(* Starting daemons one at a time is enough for it: as long as none starts *)
(* up while another is starting up or shutting down, one daemon listens at *)
(* most and clients reach the one that accepts, killed ones notwithstanding. *)
ReachableUnlessOverlapped ==
  ~ overlapped =>
    /\ Cardinality(listening) <= 1
    /\ \A p \in Process : stage[p] = "accept" => file = p

(* When no daemon runs any more and all have ended of themselves, no file  *)
(* is left at the path, even if several of them fought over it.            *)
CleanExit ==
  (\A p \in Process : ~ Alive(p) /\ stage[p] # "killed") => file = Nobody

(* Every client hears an answer or a closed connection, whichever way the  *)
(* daemon it reached goes: shutdown never leaves one waiting.              *)
ClientsReleased == \A c \in Client : client[c] = "waiting" ~> client[c] # "waiting"

(* An interrupted daemon ends, wherever the interrupt meets it.            *)
InterruptEnds == \A p \in Process : p \in signalled ~> stage[p] \in Ended

=============================================================================
