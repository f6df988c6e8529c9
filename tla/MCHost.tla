------------------------------- MODULE MCHost -------------------------------
(***************************************************************************)
(* Small instances, side by side as in MCParts, of what a Host shares with *)
(* the threads around its router and hands out: capture ownership          *)
(* (CaptureOwner); the events, epochs and exports (HostEvents); the        *)
(* history's revision and the answers that rest on it (HistoryVersion);    *)
(* and the files of its images (AttachmentFiles).                          *)
(***************************************************************************)
EXTENDS CaptureOwner, HostEvents, HistoryVersion, AttachmentFiles, TLC

VARIABLE part

\* Two threads of the desktop, and another process.
TwoProcesses == [t \in Workers |-> IF t = "cli" THEN "cli" ELSE "desktop"]

PartsInit ==
  /\ part \in {"owners", "events", "answers", "files"}
  /\ Init /\ EventsInit /\ VersionInit /\ FilesInit
  /\ part # "files" => rows = [i \in Ids |-> NoRow]
  /\ part # "answers" => world = Nowhere

PartsNext ==
  \/ part = "owners" /\ Next /\ UNCHANGED <<part, eventVars, versionVars, fileVars>>
  \/ part = "events" /\ EventsNext /\ UNCHANGED <<part, vars, versionVars, fileVars>>
  \/ part = "answers" /\ VersionNext /\ UNCHANGED <<part, vars, eventVars, fileVars>>
  \/ part = "files" /\ FilesNext /\ UNCHANGED <<part, vars, eventVars, versionVars>>

PartsSpec == PartsInit /\ [][PartsNext]_<<part, vars, eventVars, versionVars, fileVars>>

\* The same model values serve as slots of one Host and as threads beside the router of another.
Symmetric == Permutations(Slots)
=============================================================================
