----------------------------- MODULE PasteQueue -----------------------------
(***************************************************************************)
(* Sequential paste (src-tauri services/paste_queue.rs): the queue of      *)
(* entries, the step that pastes the one in front, and whatever else       *)
(* changes the queue while that step waits: the user replaces or clears    *)
(* it, a capture joins it, the privacy epoch moves, an entry is deleted.   *)
(*                                                                         *)
(* A step takes the same course with a service and with an embedded Host;  *)
(* the former waits for answers, the latter for locks.  The epoch stands   *)
(* for the Host's instance as well.  The events that follow are left out.  *)
(***************************************************************************)
EXTENDS Integers, Sequences

CONSTANTS
  Ids,        \* the entries
  MaxItems,   \* bound on the length of the queue
  MaxSteps,   \* bound on the steps begun
  MaxMoves    \* bound on what the others do

ASSUME QueueAssumption == {MaxItems, MaxSteps, MaxMoves} \subseteq Nat

VARIABLES
  items,     \* PasteQueueState.items
  version,   \* PasteQueueState.version, a pointer compared by identity
  inFlight,  \* PasteQueueState.in_flight: the step that reserved, or 0
  tracked,   \* PasteQueueState.last_action_was_paste
  steps,     \* every step begun so far: QueueStep and where it is
  store,     \* the entries of the history
  epoch,     \* the privacy epoch
  batch,     \* history: how often the queue was replaced
  moves

queueVars == <<items, version, inFlight, tracked, steps, store, epoch, batch, moves>>

Queues == UNION {[1 .. n -> Ids] : n \in 0 .. MaxItems}

QueueInit ==
  /\ items \in Queues /\ items # <<>>
  /\ version = 0 /\ inFlight = 0 /\ tracked = FALSE /\ steps = <<>>
  /\ store = Ids /\ epoch = 0 /\ batch = 0 /\ moves = 0

NewStep == [id |-> Head(items), version |-> version, batch |-> batch, epoch |-> 0,
            at |-> "target", sent |-> FALSE, missing |-> FALSE, last |-> FALSE,
            void |-> FALSE]

Active(s) == s \in DOMAIN steps /\ steps[s].at # "over"

-----------------------------------------------------------------------------
(* The queue's own operations.                                             *)

ResetTracking == tracked' = FALSE /\ version' = version + 1

\* Mutant: the step is the current one as long as its entry is in front.
InFront(s) == inFlight = s /\ items # <<>> /\ Head(items) = steps[s].id
Current(s) == /\ version = steps[s].version /\ inFlight = s
              /\ items # <<>> /\ Head(items) = steps[s].id

Release(s) == IF inFlight = s THEN 0 ELSE inFlight

To(s, place) == steps' = [steps EXCEPT ![s].at = place]

\* guard.fail: the tracking is reset, the entry stays.
FailStep(s) ==
  /\ To(s, "drop")
  /\ IF Current(s) THEN ResetTracking ELSE UNCHANGED <<version, tracked>>

\* The history's mark: what happens from here on must keep the step from pasting.
Unvalidated(s) == steps[s].at \in {"target", "prepare", "track", "copy", "check", "validate"}
Voided(places) ==
  [s \in DOMAIN steps |->
     IF Unvalidated(s) /\ steps[s].at \notin places THEN [steps[s] EXCEPT !.void = TRUE] ELSE steps[s]]

-----------------------------------------------------------------------------
(* paste_next_step.                                                        *)

\* The shortcut: nothing while a step is under way; an empty queue forgets its tracking
\* (the new version is left out where there is nothing to forget).
Press ==
  /\ inFlight = 0 /\ Len(steps) < MaxSteps
  /\ IF items = <<>> THEN tracked /\ ResetTracking /\ UNCHANGED <<steps, inFlight>>
     ELSE /\ steps' = Append(steps, NewStep) /\ inFlight' = Len(steps) + 1
          /\ UNCHANGED <<version, tracked>>
  /\ UNCHANGED <<items, store, epoch, batch, moves>>

\* The window to paste into, and the Host's epoch.
Target(s) ==
  /\ steps[s].at = "target"
  /\ \/ /\ steps' = [steps EXCEPT ![s].at = "prepare", ![s].epoch = epoch]
        /\ UNCHANGED <<version, tracked>>
     \/ FailStep(s)
  /\ UNCHANGED <<items, inFlight, store, epoch, batch, moves>>

\* The entry is read under the epoch; one that is gone is skipped, another that may not
\* be read stays.
Prepare(s) ==
  LET step == steps[s] IN
  /\ step.at = "prepare"
  /\ \/ /\ step.id \in store /\ epoch = step.epoch
        /\ To(s, IF Current(s) THEN "track" ELSE "drop")
        /\ UNCHANGED <<items, version, tracked>>
     \/ /\ step.id \notin store /\ epoch = step.epoch
        /\ steps' = [steps EXCEPT ![s].at = "drop", ![s].missing = TRUE]
        /\ IF Current(s) THEN items' = Tail(items) /\ ResetTracking
                         ELSE UNCHANGED <<items, version, tracked>>
     \/ FailStep(s) /\ UNCHANGED items
  /\ UNCHANGED <<inFlight, store, epoch, batch, moves>>

Tracks(s) == Current(s)

\* The content is noted before it is copied: its own capture is to be told by it.
Track(s) ==
  /\ steps[s].at = "track" /\ To(s, "copy")
  /\ IF Tracks(s) THEN tracked' = TRUE ELSE UNCHANGED tracked
  /\ UNCHANGED <<items, version, inFlight, store, epoch, batch, moves>>

\* The Host writes the clipboard, and says afterwards that the epoch is the same.
Ask(s, place, next) ==
  /\ steps[s].at = place
  /\ \/ epoch = steps[s].epoch /\ To(s, next) /\ UNCHANGED <<version, tracked>>
     \/ FailStep(s)
  /\ UNCHANGED <<items, inFlight, store, epoch, batch, moves>>
Copy(s) == Ask(s, "copy", "check")
Check(s) == Ask(s, "check", "validate")

\* Mutant: the queue is not looked at again.
ValidEpoch(s) == epoch = steps[s].epoch
Valid(s) == Current(s) /\ epoch = steps[s].epoch

Validate(s) ==
  /\ steps[s].at = "validate"
  /\ IF Valid(s) THEN To(s, "send") /\ UNCHANGED <<version, tracked>> ELSE FailStep(s)
  /\ UNCHANGED <<items, inFlight, store, epoch, batch, moves>>

\* The keystroke: sent; refused; or sent, and the target lost before the keys were let go.
Send(s) ==
  /\ steps[s].at = "send"
  /\ \/ /\ steps' = [steps EXCEPT ![s].at = "consume", ![s].sent = TRUE]
        /\ UNCHANGED <<version, tracked>>
     \/ FailStep(s)
     \/ /\ steps' = [steps EXCEPT ![s].at = "drop", ![s].sent = TRUE]
        /\ IF Current(s) THEN ResetTracking ELSE UNCHANGED <<version, tracked>>
  /\ UNCHANGED <<items, inFlight, store, epoch, batch, moves>>

Consume(s) ==
  /\ steps[s].at = "consume"
  /\ items' = IF Current(s) THEN Tail(items) ELSE items
  /\ steps' = [steps EXCEPT ![s].at = "complete", ![s].last = Current(s) /\ items' = <<>>]
  /\ UNCHANGED <<version, inFlight, tracked, store, epoch, batch, moves>>

\* The Host counts the use, or deletes the entry; it may refuse.
Complete(s) ==
  /\ steps[s].at = "complete" /\ To(s, "finish")
  /\ \/ UNCHANGED store
     \/ epoch = steps[s].epoch /\ store' = store \ {steps[s].id}
  /\ UNCHANGED <<items, version, inFlight, tracked, epoch, batch, moves>>

\* finish_pasted: a queue that this step emptied is over.
Finish(s) ==
  /\ steps[s].at = "finish" /\ To(s, "drop")
  /\ IF version = steps[s].version /\ steps[s].last /\ items = <<>>
       THEN ResetTracking ELSE UNCHANGED <<version, tracked>>
  /\ UNCHANGED <<items, inFlight, store, epoch, batch, moves>>

Drop(s) ==
  /\ steps[s].at = "drop" /\ To(s, "over") /\ inFlight' = Release(s)
  /\ UNCHANGED <<items, version, tracked, store, epoch, batch, moves>>

StepOf(s) == \/ Target(s) \/ Prepare(s) \/ Track(s) \/ Copy(s) \/ Check(s) \/ Validate(s)
             \/ Send(s) \/ Consume(s) \/ Complete(s) \/ Finish(s) \/ Drop(s)

-----------------------------------------------------------------------------
(* The others.                                                             *)

Move == moves < MaxMoves /\ moves' = moves + 1

\* set_paste_queue and clear_paste_queue.
SetQueue ==
  /\ Move /\ items' \in Queues /\ ResetTracking
  /\ batch' = batch + 1 /\ steps' = Voided({})
  /\ UNCHANGED <<inFlight, store, epoch>>

\* distribute: after a paste a capture begins a new queue.
Capture ==
  /\ Move /\ Len(items) < MaxItems
  /\ \E id \in store :
       IF tracked THEN /\ items' = <<id>> /\ ResetTracking
                       /\ batch' = batch + 1 /\ steps' = Voided({})
                  ELSE items' = Append(items, id) /\ UNCHANGED <<version, tracked, batch, steps>>
  /\ UNCHANGED <<inFlight, store, epoch>>

PrivacyMoves ==
  /\ Move /\ epoch' = epoch + 1 /\ steps' = Voided({"target"})
  /\ UNCHANGED <<items, version, inFlight, tracked, store, batch>>

Delete ==
  /\ Move /\ \E id \in store : store' = store \ {id}
  /\ UNCHANGED <<items, version, inFlight, tracked, steps, epoch, batch>>

QueueNext == Press \/ (\E s \in DOMAIN steps : StepOf(s))
        \/ SetQueue \/ Capture \/ PrivacyMoves \/ Delete

QueueSpec == QueueInit /\ [][QueueNext]_queueVars

-----------------------------------------------------------------------------
\* An entry leaves its queue only for the step that reserved it there, and that has
\* pasted it or found it gone: no step answers for an entry of a later queue.
ConsumesItsOwn ==
  [][batch' = batch /\ Len(items') < Len(items) =>
       \E s \in DOMAIN steps :
         /\ Active(s) /\ steps[s].batch = batch /\ steps[s].id = Head(items)
         /\ steps[s].sent \/ steps'[s].missing]_queueVars

\* What was replaced, cleared or revoked before the last look is not pasted.
ClearedIsNotPasted == \A s \in DOMAIN steps : steps[s].sent => ~steps[s].void
=============================================================================
