------------------------------ MODULE IpcServer ------------------------------
(***************************************************************************)
(* The Host's local server (dzc-host server.rs) over the parts of the Host *)
(* it needs: connections and their permits, the one slot for requests that *)
(* are dispatched, subscriptions that wait for events beside it, the stop  *)
(* of the Host by a request or by a signal, and the draining that follows. *)
(*                                                                         *)
(* A request is plain, a stop or a subscription; what a plain request does *)
(* is other modules' matter.  Frames, decoding and peers' identities are   *)
(* left out; a client may be slow, silent or gone at any time.             *)
(***************************************************************************)
EXTENDS Integers, FiniteSets

CONSTANTS
  Conns,       \* the clients
  Permits,     \* how many connections are served at a time
  MaxRequests  \* bound on the requests sent

ASSUME ServerAssumption == IsFiniteSet(Conns) /\ Permits \in Nat \ {0} /\ MaxRequests \in Nat

VARIABLES
  server,    \* serve_connections: "accepting", "draining" or "ended"
  draining,  \* Connections.draining
  shutdown,  \* the caller's watch
  conn,      \* the connections
  slot,      \* who has Connections.dispatch_slots' permit, or Nobody
  requests,  \* who has Host.requests, or Nobody
  host,      \* Host.stop: "running", "stopping", "stopped"
  grant,     \* the clients whose grant is valid
  signal,    \* the signal handler's thread: "none", "stopping", "done"
  sentCount

vars == <<server, draining, shutdown, conn, slot, requests, host, grant, signal, sentCount>>

Nobody == "nobody"
Signal == "signal"

\* owed: a request was admitted and its answer not sent; lost: the grant or the Host
\* went while the subscription waited; result: what the answer says.
NoConn == [at |-> "none", kind |-> "none", owed |-> FALSE, lost |-> FALSE, result |-> "none"]

Init ==
  /\ server = "accepting" /\ draining = FALSE /\ shutdown = FALSE
  /\ conn = [c \in Conns |-> NoConn]
  /\ slot = Nobody /\ requests = Nobody /\ host = "running"
  /\ grant = Conns /\ signal = "none" /\ sentCount = 0

At(c, place) == conn[c].at = place
To(c, place) == conn' = [conn EXCEPT ![c].at = place]

Open == {c \in Conns : conn[c].at \notin {"none", "backlog", "closed"}}

-----------------------------------------------------------------------------
(* The server's loop.                                                      *)

Connect(c) ==
  /\ At(c, "none") /\ server = "accepting" /\ To(c, "backlog")
  /\ UNCHANGED <<server, draining, shutdown, slot, requests, host, grant, signal, sentCount>>

Over == draining \/ shutdown

Accept(c) ==
  /\ server = "accepting" /\ ~Over /\ Cardinality(Open) < Permits
  /\ At(c, "backlog") /\ To(c, "hello")
  /\ UNCHANGED <<server, draining, shutdown, slot, requests, host, grant, signal, sentCount>>

Leave ==
  /\ server = "accepting" /\ server' = "draining" /\ draining' = TRUE
  /\ conn' = [c \in Conns |-> IF At(c, "backlog") THEN [conn[c] EXCEPT !.at = "closed"] ELSE conn[c]]
  /\ UNCHANGED <<shutdown, slot, requests, host, grant, signal, sentCount>>
StopAccepting == Over /\ Leave
\* The listener fails, or the loop comes round and finds the Host stopped.
FailAccepting == ~Over /\ Leave

Drained == server = "draining" /\ Open = {}

End ==
  /\ Drained /\ server' = "ended"
  /\ UNCHANGED <<draining, shutdown, conn, slot, requests, host, grant, signal, sentCount>>

-----------------------------------------------------------------------------
(* A connection.                                                           *)

\* Mutant: draining ends whatever a connection is doing.
AnyPlace(c) == conn[c].at \notin {"none", "closed"}
Reads(c) == conn[c].at \in {"hello", "reading"}

Interrupt(c) ==
  /\ draining /\ Reads(c) /\ To(c, "closed")
  /\ slot' = IF slot = c THEN Nobody ELSE slot
  /\ UNCHANGED <<server, draining, shutdown, requests, host, grant, signal, sentCount>>

\* The client is silent for too long, gone, or not understood.
Close(c) ==
  /\ conn[c].at \in {"hello", "reading"} /\ To(c, "closed")
  /\ UNCHANGED <<server, draining, shutdown, slot, requests, host, grant, signal, sentCount>>

\* Without its grant the session is refused.
Hello(c) ==
  /\ At(c, "hello") /\ To(c, IF c \in grant THEN "reading" ELSE "closed")
  /\ UNCHANGED <<server, draining, shutdown, slot, requests, host, grant, signal, sentCount>>

\* A whole frame is there.
Admit(c, kind) ==
  /\ At(c, "reading") /\ sentCount < MaxRequests /\ sentCount' = sentCount + 1
  /\ conn' = [conn EXCEPT ![c] = [NoConn EXCEPT !.at = "admitted", !.kind = kind, !.owed = TRUE]]
  /\ UNCHANGED <<server, draining, shutdown, slot, requests, host, grant, signal>>

TakesSlot(c) == conn[c].kind # "subscribe"

Dispatch(c) ==
  /\ At(c, "admitted") /\ (TakesSlot(c) => slot = Nobody)
  /\ slot' = IF TakesSlot(c) THEN c ELSE slot
  /\ To(c, IF conn[c].kind = "subscribe" THEN "check" ELSE "dispatched")
  /\ UNCHANGED <<server, draining, shutdown, requests, host, grant, signal, sentCount>>

\* Five seconds without the slot.
TooLate(c) ==
  /\ At(c, "admitted") /\ TakesSlot(c) /\ slot # Nobody
  /\ conn' = [conn EXCEPT ![c].at = "send", ![c].result = "busy"]
  /\ UNCHANGED <<server, draining, shutdown, slot, requests, host, grant, signal, sentCount>>

Answered(c, result) == conn' = [conn EXCEPT ![c].at = "answered", ![c].result = result]

Serve(c) ==
  /\ At(c, "dispatched") /\ conn[c].kind = "plain" /\ requests = Nobody
  /\ Answered(c, "ok") /\ slot' = Nobody
  /\ UNCHANGED <<server, draining, shutdown, requests, host, grant, signal, sentCount>>

\* The next request looks at draining first.
Send(c) ==
  /\ At(c, "send")
  /\ conn' = [conn EXCEPT ![c].owed = FALSE,
                          ![c].at = IF host = "stopped" THEN "closed" ELSE "reading"]
  /\ UNCHANGED <<server, draining, shutdown, slot, requests, host, grant, signal, sentCount>>

\* The answer cannot be written in time.
Broken(c) ==
  /\ At(c, "send") /\ conn' = [conn EXCEPT ![c].owed = FALSE, ![c].at = "closed"]
  /\ UNCHANGED <<server, draining, shutdown, slot, requests, host, grant, signal, sentCount>>

\* A request that finds the Host stopped after it tells every connection.
Signals(c) ==
  /\ At(c, "answered") /\ To(c, "send") /\ draining' = (draining \/ host = "stopped")
  /\ UNCHANGED <<server, shutdown, slot, requests, host, grant, signal, sentCount>>

-----------------------------------------------------------------------------
(* Host::stop, by a request or by the signal handler.  Subscriptions that  *)
(* wait are woken; a stop that fails is answered and may be asked for      *)
(* again.                                                                  *)

Waiting == {c \in Conns : conn[c].at \in {"wait", "recheck"}}
Losing(cs) == [c \in Conns |-> IF c \in cs /\ c \in Waiting THEN [conn[c] EXCEPT !.lost = TRUE] ELSE conn[c]]

StopBegins(c) ==
  /\ At(c, "dispatched") /\ conn[c].kind = "stop" /\ requests = Nobody
  /\ requests' = c /\ host' = IF host = "stopped" THEN host ELSE "stopping"
  /\ conn' = [Losing(Conns) EXCEPT ![c].at = "stopping"]
  /\ UNCHANGED <<server, draining, shutdown, slot, grant, signal, sentCount>>

StopEnds(c) ==
  /\ At(c, "stopping") /\ requests' = Nobody /\ slot' = Nobody
  /\ \/ host' = "stopped" /\ Answered(c, "ok")
     \/ host # "stopped" /\ UNCHANGED host /\ Answered(c, "busy")
  /\ UNCHANGED <<server, draining, shutdown, grant, signal, sentCount>>

SignalBegins ==
  /\ signal = "none" /\ requests = Nobody /\ requests' = Signal
  /\ host' = IF host = "stopped" THEN host ELSE "stopping"
  /\ signal' = "stopping" /\ conn' = Losing(Conns)
  /\ UNCHANGED <<server, draining, shutdown, slot, grant, sentCount>>

SignalEnds ==
  /\ signal = "stopping" /\ signal' = "done" /\ requests' = Nobody
  /\ \/ host' = "stopped" /\ shutdown' = TRUE
     \/ host # "stopped" /\ UNCHANGED <<host, shutdown>>
  /\ UNCHANGED <<server, draining, conn, slot, grant, sentCount>>

-----------------------------------------------------------------------------
(* Host::subscribe, which holds neither the slot nor the request lock.     *)

Allowed(c) == c \in grant /\ host = "running"

\* Mutant: the session is not looked at again after the wait.
AllowedBefore(c) == TRUE
StillAllowed(c) == Allowed(c)

\* The wait begins after the check: an interruption that comes between the two is missed,
\* and the wait lasts as long as the client asked for.
Subscribe(c) ==
  /\ At(c, "check") /\ IF Allowed(c) THEN To(c, "wait") ELSE Answered(c, "error")
  /\ slot' = IF slot = c /\ ~Allowed(c) THEN Nobody ELSE slot
  /\ UNCHANGED <<server, draining, shutdown, requests, host, grant, signal, sentCount>>

\* An event comes, the wait is interrupted, or it is over.
Collect(c) ==
  /\ At(c, "wait") /\ To(c, "recheck")
  /\ UNCHANGED <<server, draining, shutdown, slot, requests, host, grant, signal, sentCount>>

Recheck(c) ==
  /\ At(c, "recheck") /\ Answered(c, IF StillAllowed(c) THEN "events" ELSE "error")
  /\ slot' = IF slot = c THEN Nobody ELSE slot
  /\ UNCHANGED <<server, draining, shutdown, requests, host, grant, signal, sentCount>>

\* A delegated grant is revoked.
Revoke(c) ==
  /\ c \in grant /\ grant' = grant \ {c} /\ conn' = Losing({c})
  /\ UNCHANGED <<server, draining, shutdown, slot, requests, host, signal, sentCount>>

-----------------------------------------------------------------------------
Works(c) == \/ Interrupt(c) \/ Dispatch(c) \/ Serve(c) \/ Send(c) \/ Signals(c) \/ StopBegins(c)
            \/ StopEnds(c) \/ Subscribe(c) \/ Collect(c) \/ Recheck(c)

Next ==
  \/ StopAccepting \/ FailAccepting \/ End \/ SignalBegins \/ SignalEnds
  \/ \E c \in Conns :
       \/ Works(c) \/ Connect(c) \/ Accept(c) \/ Close(c) \/ Hello(c) \/ TooLate(c)
       \/ Broken(c) \/ Revoke(c)
       \/ \E kind \in {"plain", "stop", "subscribe"} : Admit(c, kind)

\* The server, a connection that has something to do and a stop go on, and the time a
\* subscription waits is bounded; no client has to send anything or to hang up.
Fairness == /\ WF_vars(StopAccepting) /\ WF_vars(End) /\ WF_vars(SignalEnds)
            /\ \A c \in Conns : WF_vars(Works(c))

Spec == Init /\ [][Next]_vars /\ Fairness

-----------------------------------------------------------------------------
Places == {"none", "backlog", "hello", "reading", "admitted", "dispatched", "stopping",
           "check", "wait", "recheck", "answered", "send", "closed"}
Kinds == {"plain", "stop", "subscribe"}
Results == {"none", "ok", "busy", "events", "error"}
Conn == [at : Places, kind : Kinds \cup {"none"}, owed : BOOLEAN, lost : BOOLEAN, result : Results]

TypeOK ==
  /\ conn \in [Conns -> Conn] /\ grant \subseteq Conns
  /\ host \in {"running", "stopping", "stopped"}
  /\ slot \in Conns \cup {Nobody} /\ requests \in Conns \cup {Nobody, Signal}
  /\ Cardinality(Open) <= Permits

\* A subscription whose grant was revoked, or whose Host began to stop, while it waited
\* is not answered with events.
RevokedGetsNothing == \A c \in Conns : conn[c].result = "events" => ~conn[c].lost

\* A request that was admitted is answered, or its client cannot be written to: a stop's
\* acknowledgement, although any connection may start the draining, and every request
\* although other clients wait for events that do not come.
AdmittedIsAnswered ==
  \A c \in Conns : (conn[c].owed /\ conn[c].kind # "subscribe") ~> ~conn[c].owed

=============================================================================
