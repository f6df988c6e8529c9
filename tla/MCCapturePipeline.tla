-------------------------- MODULE MCCapturePipeline --------------------------
(***************************************************************************)
(* Two small instances of CapturePipeline, side by side: the one of the    *)
(* .cfg, in which sessions and policies change around one capture, and     *)
(* Race, in which two captures deduplicate against each other's rows and   *)
(* against rows the user edits.  Each behaviour is of one of them (part),  *)
(* and the variables of the other stay as they began.                      *)
(***************************************************************************)
EXTENDS CapturePipeline, TLC

CONSTANTS RaceWorkers, RaceContents

VARIABLES
  part,
  time, session, policy, history, queue, counter, places, steps, frames,
  named, queued, captures, changes, active

Race == INSTANCE CapturePipeline WITH
  Workers <- RaceWorkers, Contents <- RaceContents, Detectable <- RaceContents,
  Durations <- {}, RamCap <- 2, HistoryLimit <- 1, Deduplicate <- TRUE,
  MaxClock <- 0, MaxEpoch <- 1, MaxCaptures <- 3, MaxEdits <- 1,
  clock <- time, row <- session, excluded <- policy, db <- history,
  ram <- queue, stamp <- counter, stage <- places, phase <- steps,
  cap <- frames, announced <- named, shown <- queued, started <- captures,
  edits <- changes, spoiled <- active

ASSUME Race!PipelineAssumption

raceVars == <<time, session, policy, history, queue, counter, places, steps,
              frames, named, queued, captures, changes, active>>

\* Nothing distinguishes the racing captures, nor their payloads.
Symmetric == Permutations(RaceWorkers) \cup Permutations(RaceContents)

PartsInit ==
  /\ part \in {"sessions", "race"} /\ Init /\ Race!Init
  /\ part # "sessions" => row = OffRow
  /\ part # "race" => session = OffRow

PartsNext ==
  \/ part = "sessions" /\ Next /\ UNCHANGED <<part, raceVars>>
  \/ part = "race" /\ Race!Next /\ UNCHANGED <<part, vars>>

PartsSpec == PartsInit /\ [][PartsNext]_<<part, vars, raceVars>>

-----------------------------------------------------------------------------
\* Every row a race pushes out of the queue is announced (RemovalsAnnounced).
EvictedAreAnnounced == Race!RemovalsAnnounced

\* A race stores over no row that was protected meanwhile, and removes no queued row the
\* user edited meanwhile (ProtectedRowKept, EditedRamKept).
RacedRowsKept == Race!ProtectedRowKept /\ Race!EditedRamKept
=============================================================================
