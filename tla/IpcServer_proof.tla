--------------------------- MODULE IpcServer_proof ---------------------------
(***************************************************************************)
(* A subscription that lost its session while it waited is not answered    *)
(* with events, for any number of clients, permits and requests.           *)
(***************************************************************************)
EXTENDS IpcServer, FiniteSetTheorems, TLAPS

\* What the argument needs of the types.
Typed ==
  /\ conn \in [Conns -> Conn]
  /\ grant \subseteq Conns
  /\ host \in {"running", "stopping", "stopped"}

\* On the way to its answer a subscription has no result yet, nor has it lost what it did
\* not wait on, ...
Early(c) == conn[c].at \in {"admitted", "check"}
Asking(c) == Early(c) \/ conn[c].at \in {"wait", "recheck"}
NoResultYet == \A c \in Conns : /\ Asking(c) => conn[c].result = "none"
                                /\ Early(c) => ~conn[c].lost

\* ... and one that lost its session finds it gone when it looks again.
LostIsGone == \A c \in Conns : conn[c].at \in {"wait", "recheck"} /\ conn[c].lost => ~Allowed(c)

Inv == Typed /\ NoResultYet /\ LostIsGone /\ RevokedGetsNothing

-----------------------------------------------------------------------------
\* Nobody waits in the beginning.
LEMMA InitInv == Init => Inv
<1> SUFFICES ASSUME Init PROVE Inv
  OBVIOUS
<1>1. NoConn \in Conn
  BY DEF NoConn, Conn, Places, Kinds, Results
<1>2. Typed
  BY <1>1 DEF Init, Typed
<1>3. ASSUME NEW c \in Conns
      PROVE  conn[c].at = "none" /\ conn[c].result = "none" /\ ~conn[c].lost
  BY DEF Init, NoConn
<1>4. NoResultYet /\ LostIsGone /\ RevokedGetsNothing
  BY <1>3 DEF NoResultYet, Asking, Early, LostIsGone, RevokedGetsNothing
<1> QED
  BY <1>2, <1>4 DEF Inv

\* A step that moves one connection at most, to a place where it is not on its way to an
\* answer it has and not waiting on a session that is gone.
LEMMA OneMoves ==
  ASSUME Inv, NEW c \in Conns, NEW place \in Places, UNCHANGED <<grant, host>>,
         To(c, place),
         place \in {"admitted", "check"} => Early(c),
         place \in {"wait", "recheck"} => Asking(c),
         place \in {"wait", "recheck"} /\ conn[c].lost => ~Allowed(c)
  PROVE  Inv'
  BY DEF Inv, Typed, Conn, To, NoResultYet, Asking, Early, LostIsGone, RevokedGetsNothing, Allowed

\* A step that moves no connection.
LEMMA NoneMoves ==
  ASSUME Inv, UNCHANGED <<conn, grant, host>>
  PROVE  Inv'
  BY DEF Inv, Typed, NoResultYet, Asking, Early, LostIsGone, RevokedGetsNothing, Allowed

\* An answer that is not events, or is events while the session is there.
LEMMA OneAnswered ==
  ASSUME Inv, NEW c \in Conns, NEW result \in Results, UNCHANGED <<grant, host>>,
         Answered(c, result), result = "events" => ~conn[c].lost
  PROVE  Inv'
<1>1. /\ conn'[c].at = "answered" /\ conn'[c].result = result /\ conn'[c].lost = conn[c].lost
      /\ \A d \in Conns \ {c} : conn'[d] = conn[d]
  BY DEF Inv, Typed, Conn, Answered
<1>2. [conn[c] EXCEPT !.at = "answered", !.result = result] \in Conn
  BY DEF Inv, Typed, Conn, Places
<1>3. conn' = [conn EXCEPT ![c] = [conn[c] EXCEPT !.at = "answered", !.result = result]]
  BY DEF Inv, Typed, Conn, Answered
<1>4. Typed'
  BY <1>2, <1>3 DEF Inv, Typed
<1> QED
  BY <1>1, <1>4 DEF Inv, NoResultYet, Asking, Early, LostIsGone, RevokedGetsNothing, Allowed

\* The sessions of some connections go while they wait, and are gone for good.
LEMMA SomeLose ==
  ASSUME Inv, NEW cs, conn' = Losing(cs), grant' \subseteq grant,
         host' \in {"running", "stopping", "stopped"}, host # "running" => host' # "running",
         \A c \in Conns \cap cs : ~Allowed(c)'
  PROVE  Inv'
  BY ZenonT(30) DEF Inv, Typed, Conn, Losing, Waiting, NoResultYet, Asking, Early, LostIsGone, RevokedGetsNothing, Allowed

\* Every step of the server, of a connection and of a stop keeps the invariant.
LEMMA StepInv == Inv /\ [Next]_vars => Inv'
<1> SUFFICES ASSUME Inv, [Next]_vars PROVE Inv'
  OBVIOUS
<1> USE DEF At, Places
<1>1. ASSUME NEW c \in Conns, Interrupt(c) \/ Close(c)
      PROVE  Inv'
  BY <1>1, OneMoves DEF Interrupt, Close
<1>2. CASE StopAccepting \/ FailAccepting
  BY <1>2 DEF StopAccepting, FailAccepting, Leave, Inv, Typed, Conn, NoResultYet, Asking,
              Early, LostIsGone, RevokedGetsNothing, Allowed
<1>3. CASE End
  BY <1>3, NoneMoves DEF End
<1>4. CASE SignalBegins
  BY <1>4, SomeLose DEF SignalBegins, Allowed, Inv, Typed
<1>5. CASE SignalEnds
  <2>1. host' \in {"running", "stopping", "stopped"} /\ (host # "running" => host' # "running")
    BY <1>5 DEF SignalEnds, Inv, Typed
  <2> QED
    BY <1>5, <2>1 DEF SignalEnds, Inv, Typed, NoResultYet, Asking, Early, LostIsGone, RevokedGetsNothing, Allowed
<1>6. ASSUME NEW c \in Conns, Connect(c) \/ Accept(c) \/ Hello(c) \/ Signals(c)
      PROVE  Inv'
  BY <1>6, OneMoves DEF Connect, Accept, Hello, Signals
<1>7. ASSUME NEW c \in Conns, NEW kind \in Kinds, Admit(c, kind)
      PROVE  Inv'
  BY <1>7 DEF Admit, NoConn, Inv, Typed, Conn, Kinds, Results, NoResultYet, Asking, Early, LostIsGone,
              RevokedGetsNothing, Allowed
<1>8. ASSUME NEW c \in Conns, Dispatch(c)
      PROVE  Inv'
  BY <1>8, OneMoves DEF Dispatch, Asking, Early, Inv, NoResultYet
<1>9. ASSUME NEW c \in Conns, TooLate(c) \/ Send(c) \/ Broken(c)
      PROVE  Inv'
  BY <1>9 DEF TooLate, Send, Broken, Inv, Typed, Conn, Results, NoResultYet, Asking, Early, LostIsGone,
              RevokedGetsNothing, Allowed
<1>10. ASSUME NEW c \in Conns, Serve(c)
       PROVE  Inv'
  BY <1>10, OneAnswered DEF Serve, Results
<1>11. ASSUME NEW c \in Conns, StopBegins(c)
       PROVE  Inv'
  <2>1. host' \in {"running", "stopping", "stopped"} /\ host' # "running" /\ grant' = grant
    BY <1>11 DEF StopBegins, Inv, Typed
  <2>2. Losing(Conns) \in [Conns -> Conn]
    BY DEF Losing, Inv, Typed, Conn
  <2>3. Typed'
    BY <1>11, <2>1, <2>2 DEF StopBegins, Inv, Typed, Conn
  <2>4. \A d \in Conns : /\ conn'[d].result = conn[d].result
                         /\ conn'[d].at = IF d = c THEN "stopping" ELSE conn[d].at
                         /\ conn'[d].lost = (conn[d].lost \/ d \in Waiting)
    BY <1>11, <2>2 DEF StopBegins, Losing, Inv, Typed, Conn
  <2> QED
    BY <2>1, <2>3, <2>4 DEF Waiting, Inv, NoResultYet, Asking, Early, LostIsGone, RevokedGetsNothing,
                            Allowed
<1>12. ASSUME NEW c \in Conns, StopEnds(c)
       PROVE  Inv'
  BY <1>12 DEF StopEnds, Answered, Inv, Typed, Conn, Results, NoResultYet, Asking, Early, LostIsGone,
               RevokedGetsNothing, Allowed
<1>13. ASSUME NEW c \in Conns, Subscribe(c)
       PROVE  Inv'
  <2>1. CASE Allowed(c)
    BY <1>13, <2>1, OneMoves DEF Subscribe, Asking, Early, Inv, NoResultYet
  <2>2. CASE ~Allowed(c)
    BY <1>13, <2>2, OneAnswered DEF Subscribe, Results
  <2> QED
    BY <2>1, <2>2
<1>14. ASSUME NEW c \in Conns, Collect(c)
       PROVE  Inv'
  BY <1>14, OneMoves DEF Collect, Asking, Early, Inv, LostIsGone
\* Looking again is what makes the difference.
<1>15. ASSUME NEW c \in Conns, Recheck(c)
       PROVE  Inv'
  BY <1>15, OneAnswered DEF Recheck, StillAllowed, Results, Inv, LostIsGone
<1>16. ASSUME NEW c \in Conns, Revoke(c)
       PROVE  Inv'
  BY <1>16, SomeLose DEF Revoke, Allowed, Inv, Typed
<1>17. CASE UNCHANGED vars
  BY <1>17, NoneMoves DEF vars
<1> QED
  BY <1>1, <1>2, <1>3, <1>4, <1>5, <1>6, <1>7, <1>8, <1>9, <1>10, <1>11, <1>12, <1>13, <1>14,
     <1>15, <1>16, <1>17 DEF Next, Works, Kinds

\* A subscription whose grant was revoked, or whose Host began to stop, while it waited is
\* not answered with events (subscribe looks at the session again after the wait).
THEOREM RevokedGetsNothingHolds == Spec => []RevokedGetsNothing
<1>1. Inv => RevokedGetsNothing
  BY DEF Inv
<1> QED
  BY InitInv, StepInv, <1>1, PTL DEF Spec

-----------------------------------------------------------------------------
(* The permits, the slot and the request lock.                             *)

Bounded == Cardinality(Open) <= Permits
Holders == slot \in Conns \cup {Nobody} /\ requests \in Conns \cup {Nobody, Signal}

LEMMA OpenFinite == IsFiniteSet(Open) /\ Cardinality(Open) \in Nat
  BY ServerAssumption, FS_Subset, FS_CardinalityType DEF Open

\* Only a connection that is accepted takes a permit, and only while there is one.
LEMMA StepBounded == Inv /\ Bounded /\ [Next]_vars => Bounded'
<1> SUFFICES ASSUME Inv, Bounded, [Next]_vars PROVE Bounded'
  OBVIOUS
<1>1. ASSUME NEW c \in Conns, Accept(c)
      PROVE  Bounded'
  <2>1. Open' = Open \cup {c} /\ Cardinality(Open) < Permits
    <3>1. conn[c].at = "backlog" /\ \A d \in Conns : conn'[d].at = IF d = c THEN "hello" ELSE conn[d].at
      BY <1>1 DEF Accept, At, To, Inv, Typed, Conn
    <3> QED
      BY <1>1, <3>1 DEF Accept, Open
  <2> DEFINE n == Cardinality(Open)
             m == Cardinality(Open \cup {c})
  <2>2. m = IF c \in Open THEN n ELSE n + 1
    BY OpenFinite, FS_AddElement
  <2>3. n \in Nat /\ n < Permits /\ Permits \in Nat
    BY <2>1, OpenFinite, ServerAssumption
  <2> HIDE DEF n, m
  <2>4. m <= Permits
    BY <2>2, <2>3
  <2> QED
    BY <2>1, <2>4 DEF Bounded, m
<1>2. ASSUME \A c \in Conns : ~Accept(c)
      PROVE  Open' \subseteq Open
  <2> USE DEF Open, At, To, Answered, Inv, Typed, Conn
  <2>1. CASE \E c \in Conns : Interrupt(c) \/ Close(c) \/ Hello(c) \/ Dispatch(c)
    BY <2>1 DEF Interrupt, Close, Hello, Dispatch, Reads
  <2>2. CASE \E c \in Conns : Send(c) \/ Signals(c) \/ Subscribe(c) \/ Collect(c) \/ Recheck(c)
    BY <2>2 DEF Send, Signals, Subscribe, Collect, Recheck
  <2>3. CASE \E c \in Conns : Serve(c) \/ TooLate(c) \/ Broken(c) \/ Connect(c)
    BY <2>3 DEF Serve, TooLate, Broken, Connect
  <2>4. CASE \E c \in Conns, kind \in {"plain", "stop", "subscribe"} : Admit(c, kind)
    BY <2>4 DEF Admit, NoConn
  <2>5. CASE \E c \in Conns : StopBegins(c) \/ StopEnds(c) \/ Revoke(c)
    <3>1. \A cs : \A d \in Conns : Losing(cs)[d].at = conn[d].at
      BY DEF Losing
    <3>2. \A cs : Losing(cs) \in [Conns -> Conn]
      BY DEF Losing
    <3>3. ASSUME NEW c \in Conns, StopBegins(c)
          PROVE  \A d \in Conns : conn'[d].at = IF d = c THEN "stopping" ELSE conn[d].at
      BY <3>1, <3>2, <3>3 DEF StopBegins
    <3>4. ASSUME NEW c \in Conns, StopBegins(c)
          PROVE  Open' \subseteq Open
      BY <3>3, <3>4 DEF StopBegins
    <3>5. ASSUME NEW c \in Conns, StopEnds(c) \/ Revoke(c)
          PROVE  Open' \subseteq Open
      BY <3>1, <3>5 DEF StopEnds, Revoke
    <3> QED
      BY <2>5, <3>4, <3>5
  <2>6. CASE StopAccepting \/ FailAccepting \/ End \/ SignalBegins \/ SignalEnds \/ UNCHANGED vars
    BY <2>6 DEF StopAccepting, FailAccepting, Leave, End, SignalBegins, SignalEnds, Losing, Waiting, vars
  <2> QED
    BY <1>2, <2>1, <2>2, <2>3, <2>4, <2>5, <2>6 DEF Next, Works
<1>3. ASSUME \A c \in Conns : ~Accept(c)
      PROVE  Bounded'
  <2>1. IsFiniteSet(Open') /\ Cardinality(Open') <= Cardinality(Open)
    BY <1>2, <1>3, OpenFinite, FS_Subset
  <2>2. Cardinality(Open') \in Nat
    BY <2>1, FS_CardinalityType
  <2> QED
    BY <2>1, <2>2, OpenFinite, ServerAssumption DEF Bounded
<1> QED
  BY <1>1, <1>3

LEMMA StepHolders == Holders /\ [Next]_vars => Holders'
<1> SUFFICES ASSUME Holders, [Next]_vars PROVE Holders'
  OBVIOUS
<1> USE DEF Holders
<1>1. CASE \E c \in Conns : Works(c)
  BY <1>1 DEF Works, Interrupt, Dispatch, Serve, Send, Signals, StopBegins, StopEnds, Subscribe,
              Collect, Recheck
<1>2. CASE \E c \in Conns : Connect(c) \/ Accept(c) \/ Close(c) \/ Hello(c) \/ TooLate(c)
                            \/ Broken(c) \/ Revoke(c)
  BY <1>2 DEF Connect, Accept, Close, Hello, TooLate, Broken, Revoke
<1>3. CASE \E c \in Conns, kind \in {"plain", "stop", "subscribe"} : Admit(c, kind)
  BY <1>3 DEF Admit
<1>4. CASE StopAccepting \/ FailAccepting \/ End \/ SignalBegins \/ SignalEnds \/ UNCHANGED vars
  BY <1>4 DEF StopAccepting, FailAccepting, Leave, End, SignalBegins, SignalEnds, vars
<1> QED
  BY <1>1, <1>2, <1>3, <1>4 DEF Next

\* The server never has more connections than permits (serve_connections takes one before
\* it accepts, and a connection gives it back when it ends), and the slot and the request
\* lock are held by one at most who is there.
THEOREM TypeCorrect == Spec => []TypeOK
<1>1. Init => Bounded /\ Holders
  <2> SUFFICES ASSUME Init PROVE Bounded /\ Holders
    OBVIOUS
  <2>1. Open = {}
    BY DEF Init, NoConn, Open
  <2> QED
    BY <2>1, FS_EmptySet, ServerAssumption DEF Init, Bounded, Holders
<1>2. Inv /\ Bounded /\ Holders => TypeOK
  BY DEF Inv, Typed, Bounded, Holders, TypeOK
<1> QED
  BY InitInv, StepInv, StepBounded, StepHolders, <1>1, <1>2, PTL DEF Spec
=============================================================================
