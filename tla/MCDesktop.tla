------------------------------ MODULE MCDesktop ------------------------------
(***************************************************************************)
(* Small instances, side by side as in MCParts, of what the desktop sees   *)
(* in the end: the master key of its rows (MasterKey), the main window     *)
(* (WindowLifecycle) and the Host that the desktop works with              *)
(* (DesktopBridge), which this module extends, and the Host's events       *)
(* (HostEvents, a publisher with watchers behind it, no exports).  The     *)
(* behaviours are unfair; each liveness property has the fairness of its   *)
(* component as hypothesis.                                                *)
(***************************************************************************)
EXTENDS MasterKey, WindowLifecycle, DesktopBridge

VARIABLES
  part,
  epoch, history, observed, router, sequence, recent, at, publishing, saw, names,
  own, exports, remote, reply, acked, announced

Events == INSTANCE HostEvents WITH
  Publishers <- {"p"}, Router <- "router", Remote <- "desktop", Exports <- {},
  Window <- 2, MaxEpoch <- 1, MaxHistory <- 1, MaxMoves <- 2, MaxEvents <- 0,
  holder <- router, call <- publishing

eventsVars == <<epoch, history, observed, router, sequence, recent, at,
                publishing, saw, names, own, exports, remote, reply, acked,
                announced>>

PartsInit ==
  /\ part \in {"key", "events", "window", "bridge"}
  /\ Init /\ Events!EventsInit /\ WindowInit /\ BridgeInit
  /\ part # "key" => made = {}
  /\ part # "bridge" => hosts = << >>

PartsNext ==
  \/ /\ part = "key" /\ Next
     /\ UNCHANGED <<part, eventsVars, windowVars, bridgeVars>>
  \/ /\ part = "events" /\ Events!EventsNext
     /\ UNCHANGED <<part, vars, windowVars, bridgeVars>>
  \/ /\ part = "window" /\ WindowNext
     /\ UNCHANGED <<part, vars, eventsVars, bridgeVars>>
  \/ /\ part = "bridge" /\ BridgeNext
     /\ UNCHANGED <<part, vars, eventsVars, windowVars>>

PartsSpec == PartsInit /\ [][PartsNext]_<<part, vars, eventsVars, windowVars,
                                          bridgeVars>>

-----------------------------------------------------------------------------
\* HostEvents: an epoch that moved is announced.
EpochAnnounced == Events!Fairness => Events!EpochAnnounced

\* HostEvents: a change of the history reaches the windows.
ChangesReachWindows == Events!Fairness => Events!ChangesReachWindows

\* WindowLifecycle: what was queued while the window was gone brings it back.
QueuedIsServed == Fairness => QueuedReturns

\* DesktopBridge: a desktop whose Host has stopped comes to another, or says so.
ModeRecovers == BridgeFairness => OrphanRecovers
=============================================================================
