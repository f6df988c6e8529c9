------------------------------- MODULE MCParts -------------------------------
(***************************************************************************)
(* Small instances of components that share no state: the Windows          *)
(* settings, the paste queue, the privacy shortcut, Quick Paste's panel    *)
(* and the supervisor of its process.  One run explores them side by side: *)
(* each behaviour is one of theirs (part), and the variables of the others *)
(* stay as they began.                                                     *)
(***************************************************************************)
EXTENDS SystemSettings, PasteQueue, PrivacyShortcut, SurfacePanel, SurfaceSupervisor

VARIABLE part

\* One of the two settings that are switched off, beside WinV.
OneSwitch == <<"History">>

\* Three entries, two of which a search for a text finds.
Newest == <<3, 2, 1>>
FindsOdd(e, text) == text = "" \/ e % 2 = 1

PartsInit ==
  /\ part \in {"settings", "supervisor", "panel", "queue", "shortcut"}
  /\ Init /\ SupervisorInit /\ PanelInit /\ QueueInit /\ ShortcutInit
  /\ part # "queue" => items = <<1>>
  /\ part # "shortcut" => stored = ""
  /\ part # "settings" => user = [s \in Settings |-> "none"]

PartsNext ==
  \/ /\ part = "settings" /\ Next
     /\ UNCHANGED <<part, supervisorVars, panelVars, queueVars, shortcutVars>>
  \/ /\ part = "supervisor" /\ SupervisorNext
     /\ UNCHANGED <<part, vars, panelVars, queueVars, shortcutVars>>
  \/ /\ part = "panel" /\ PanelNext
     /\ UNCHANGED <<part, vars, supervisorVars, queueVars, shortcutVars>>
  \/ /\ part = "queue" /\ QueueNext
     /\ UNCHANGED <<part, vars, supervisorVars, panelVars, shortcutVars>>
  \/ /\ part = "shortcut" /\ ShortcutNext
     /\ UNCHANGED <<part, vars, supervisorVars, panelVars, queueVars>>

PartsSpec == PartsInit /\ [][PartsNext]_<<part, vars, supervisorVars, panelVars,
                                          queueVars, shortcutVars>>
=============================================================================
