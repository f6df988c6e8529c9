------------------------------ MODULE MCService ------------------------------
(***************************************************************************)
(* Small instances, side by side as in MCParts, of components in which     *)
(* something must end: the local server (IpcServer, which this module      *)
(* extends), the supervisor of Quick Paste's process, its panel and the    *)
(* privacy shortcut.  The behaviours are unfair; each liveness property    *)
(* has the fairness of its component as hypothesis.                        *)
(***************************************************************************)
EXTENDS IpcServer

VARIABLES
  part,
  revision, visible, requested, serial, process, session, request, action,
  dismissal, stopper, child, down, up, pasted,
  hist, model, input, frame, timer, calls, news, online, sent, turns,
  regs, current, retained, stored, call, lock, stopping, released,
  commands, presses

Supervisor == INSTANCE SurfaceSupervisor WITH
  Requests <- {"r1", "r2"}, MaxRevision <- 1, MaxSessions <- 1

Panel == INSTANCE SurfacePanel WITH
  Texts <- {"", "a"}, Finds <- LAMBDA e, text : text = "" \/ e % 2 = 1,
  First <- <<1>>, PageSize <- 1, MaxEntries <- 1, MaxTurns <- 2

Shortcut == INSTANCE PrivacyShortcut WITH
  Chords <- {"a"}, MaxRegs <- 2, MaxCalls <- 2, MaxPresses <- 1

ASSUME /\ Supervisor!SurfaceAssumption /\ Panel!PanelAssumption
       /\ Shortcut!ShortcutAssumption

supervisorVars == <<revision, visible, requested, serial, process, session,
                    request, action, dismissal, stopper, child, down, up,
                    pasted>>
panelVars == <<hist, model, input, frame, timer, calls, news, online, sent,
               turns>>
shortcutVars == <<regs, current, retained, stored, call, lock, stopping,
                  released, commands, presses>>

PartsInit ==
  /\ part \in {"server", "supervisor", "panel", "shortcut"}
  /\ Init /\ Supervisor!SupervisorInit /\ Panel!PanelInit /\ Shortcut!ShortcutInit
  /\ part # "shortcut" => stored = ""

PartsNext ==
  \/ /\ part = "server" /\ Next
     /\ UNCHANGED <<part, supervisorVars, panelVars, shortcutVars>>
  \/ /\ part = "supervisor" /\ Supervisor!SupervisorNext
     /\ UNCHANGED <<part, vars, panelVars, shortcutVars>>
  \/ /\ part = "panel" /\ Panel!PanelNext
     /\ UNCHANGED <<part, vars, supervisorVars, shortcutVars>>
  \/ /\ part = "shortcut" /\ Shortcut!ShortcutNext
     /\ UNCHANGED <<part, vars, supervisorVars, panelVars>>

PartsSpec == PartsInit /\ [][PartsNext]_<<part, vars, supervisorVars,
                                          panelVars, shortcutVars>>

-----------------------------------------------------------------------------
\* IpcServer: an admitted request is answered, or its client is gone.
EveryAdmittedIsAnswered == Fairness => AdmittedIsAnswered

\* SurfaceSupervisor: a child that is gone is forgotten or replaced.
DeadChildIsNoticed == Supervisor!SupervisorFairness => Supervisor!DeadChildIsNoticed

\* SurfacePanel: loading ends.
LoadingEnds == Panel!PanelFairness => Panel!LoadingEnds

\* PrivacyShortcut: a cancelled worker ends although the request lock is never free.
StoppedWorkerEnds == Shortcut!ShortcutFairness => Shortcut!StoppedWorkerEnds
=============================================================================
