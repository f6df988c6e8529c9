-------------------------- MODULE PrivacyShortcut --------------------------
(***************************************************************************)
(* The global shortcut that toggles the privacy session (dzc-host          *)
(* hotkey.rs over dzc-platform's NativeShortcutProvider): its replacement, *)
(* which has to stop one native registration and store the chord of        *)
(* another, the threads behind a registration, and the Host's stop.        *)
(*                                                                         *)
(* A registration is two threads: the native one, which holds the grab and *)
(* calls back, and the worker, which toggles the session under the Host's  *)
(* request lock.  set and stop hold that lock; set at the Host's start     *)
(* runs before there are requests.  The toggle itself is PrivacyState's.   *)
(***************************************************************************)
EXTENDS Integers, Sequences

CONSTANTS
  Chords,      \* normalized shortcuts; "" is none
  MaxRegs,     \* bound on the registrations made
  MaxCalls,    \* bound on set and stop
  MaxPresses   \* bound on the presses of the chord

ASSUME ShortcutAssumption ==
  "" \notin Chords /\ MaxRegs \in Nat /\ MaxCalls \in Nat /\ MaxPresses \in Nat

VARIABLES
  regs,      \* every registration made so far
  current,   \* Hotkey.current, an index of regs or 0
  retained,  \* Hotkey.retained
  stored,    \* the setting app.privacy_session_hotkey
  call,      \* the set or stop under way and where it is
  lock,      \* Host.requests: "free", "other" or "call"
  stopping,  \* Host.stop_requested
  released,  \* Host.stop got past the shortcut
  commands, presses

shortcutVars == <<regs, current, retained, stored, call, lock, stopping, released,
          commands, presses>>

\* native: live (grabbed and armed), mute (disarmed, to end), ended, failed (ended with
\* an error), joined; worker: waiting for a wake, trying to toggle, done, joined.
NewReg(chord) == [chord |-> chord, native |-> "live", ringing |-> FALSE, cancel |-> FALSE,
                  wake |-> FALSE, worker |-> "recv", pending |-> FALSE]
NoCall == [kind |-> "none", at |-> "none", want |-> "", next |-> 0, target |-> 0, why |-> ""]

ShortcutInit ==
  /\ regs = <<>> /\ current = 0 /\ retained = <<>>
  /\ stored \in Chords \cup {""}
  /\ call = NoCall /\ lock = "free" /\ stopping = FALSE /\ released = FALSE
  /\ commands = 0 /\ presses = 0

At(place) == call.at = place
GoTo(place) == call' = [call EXCEPT !.at = place]

Return(ok) ==
  /\ call' = NoCall /\ lock' = "free"
  /\ released' = (released \/ (ok /\ call.kind = "stop"))

Registered == {r \in DOMAIN regs : regs[r].native \in {"live", "mute"}}

-----------------------------------------------------------------------------
(* The calls.                                                              *)

\* The Host's start puts the stored chord back, before it answers requests.
Initialize ==
  /\ commands = 0 /\ commands' = 1
  /\ IF stored = "" THEN UNCHANGED call
     ELSE call' = [NoCall EXCEPT !.kind = "init", !.at = "drain", !.want = stored]
  /\ UNCHANGED <<regs, current, retained, stored, lock, stopping, released, presses>>

BeginCall(kind, want, at, target) ==
  /\ call = NoCall /\ lock = "free" /\ commands \in 1 .. MaxCalls /\ commands' = commands + 1
  /\ lock' = "call"
  /\ call' = [NoCall EXCEPT !.kind = kind, !.at = at, !.want = want, !.target = target,
                            !.why = IF at = "cancel" THEN "last" ELSE ""]

BeginSet ==
  /\ \E want \in Chords \cup {""} : BeginCall("set", want, "drain", 0)
  /\ UNCHANGED <<regs, current, retained, stored, stopping, released, presses>>

\* Host.stop, once the capture has stopped.
BeginStop ==
  /\ ~released
  /\ BeginCall("stop", "", IF current # 0 THEN "cancel" ELSE "drain", current)
  /\ stopping' = TRUE
  /\ UNCHANGED <<regs, current, retained, stored, released, presses>>

-----------------------------------------------------------------------------
(* Registration::stop of call.target: the cancellation before the wake,    *)
(* the native thread disarmed, then both threads joined or given up for    *)
(* now.                                                                    *)

Mark(field) == regs' = [regs EXCEPT ![call.target][field] = TRUE]

Cancel == /\ At("cancel") /\ Mark("cancel") /\ GoTo("wake")
          /\ UNCHANGED <<current, retained, stored, lock, stopping, released, commands, presses>>

Wake == /\ At("wake") /\ Mark("wake") /\ GoTo("disarm")
        /\ UNCHANGED <<current, retained, stored, lock, stopping, released, commands, presses>>

Disarm ==
  /\ At("disarm") /\ GoTo("native")
  /\ regs' = [regs EXCEPT ![call.target].native = IF @ = "live" THEN "mute" ELSE @]
  /\ UNCHANGED <<current, retained, stored, lock, stopping, released, commands, presses>>

\* What comes after the stop of a registration, whoever asked for it.
Stopped(ok) ==
  LET stop(r, why) == call' = [call EXCEPT !.at = "cancel", !.target = r, !.why = why] IN
  \/ /\ call.why \in {"retained", "stale", "last"}
     /\ retained' = IF ok /\ call.why = "retained" THEN Tail(retained) ELSE retained
     /\ current' = IF ok /\ call.why # "retained" THEN 0 ELSE current
     /\ IF ok THEN GoTo("drain") /\ UNCHANGED <<lock, released>> ELSE Return(FALSE)
  \/ /\ call.why = "old" /\ ok
     /\ current' = 0 /\ GoTo("store") /\ UNCHANGED <<retained, lock, released>>
  \/ /\ call.why = "old" /\ ~ok
     /\ IF call.next # 0 THEN stop(call.next, "next") /\ UNCHANGED <<lock, released>>
                         ELSE Return(FALSE)
     /\ UNCHANGED <<current, retained>>
  \/ /\ call.why = "next" /\ Return(FALSE)
     /\ retained' = IF ok THEN retained ELSE Append(retained, call.target)
     /\ UNCHANGED current

JoinNative ==
  LET native == regs[call.target].native IN
  /\ At("native")
  /\ IF native = "mute" THEN Stopped(FALSE) /\ UNCHANGED regs
     ELSE /\ regs' = [regs EXCEPT ![call.target].native = "joined"]
          /\ IF native = "failed" THEN Stopped(FALSE)
             ELSE GoTo("worker") /\ UNCHANGED <<current, retained, lock, released>>
  /\ UNCHANGED <<stored, stopping, commands, presses>>

JoinWorker ==
  LET worker == regs[call.target].worker IN
  /\ At("worker")
  /\ IF worker \in {"done", "joined"}
       THEN regs' = [regs EXCEPT ![call.target].worker = "joined"] /\ Stopped(TRUE)
       ELSE Stopped(FALSE) /\ UNCHANGED regs
  /\ UNCHANGED <<stored, stopping, commands, presses>>

-----------------------------------------------------------------------------
(* drain_retained.                                                         *)

Pending == {r \in DOMAIN regs : regs[r].pending /\ regs[r].native # "joined"}

Leftover == retained # <<>>

\* A current registration that an earlier stop cancelled and could not join is stopped first.
Stale == current # 0 /\ regs[current].cancel

\* drain_failed_registrations, which tries every one of them.
DrainFailed ==
  LET over == {r \in Pending : regs[r].native \in {"ended", "failed"}} IN
  /\ At("drain") /\ Pending # {}
  /\ regs' = [r \in DOMAIN regs |-> IF r \in over THEN [regs[r] EXCEPT !.native = "joined"]
                                                  ELSE regs[r]]
  /\ IF \A r \in Pending : regs[r].native = "ended"
       THEN UNCHANGED <<call, lock, released>> ELSE Return(FALSE)
  /\ UNCHANGED <<current, retained, stored, stopping, commands, presses>>

Drain ==
  /\ At("drain") /\ Pending = {}
  /\ \/ /\ Leftover
        /\ call' = [call EXCEPT !.at = "cancel", !.target = Head(retained), !.why = "retained"]
        /\ UNCHANGED <<lock, released>>
     \/ /\ ~Leftover /\ Stale
        /\ call' = [call EXCEPT !.at = "cancel", !.target = current, !.why = "stale"]
        /\ UNCHANGED <<lock, released>>
     \/ /\ ~Leftover /\ ~Stale
        /\ IF call.kind = "stop" THEN Return(TRUE)
           ELSE GoTo("check") /\ UNCHANGED <<lock, released>>
  /\ UNCHANGED <<regs, current, retained, stored, stopping, commands, presses>>

-----------------------------------------------------------------------------
(* Hotkey::set.                                                            *)

\* Refused: stopping, or a chord that is not one or that is reserved; or the same chord
\* again while the provider has a registration running.
CheckChord ==
  /\ At("check")
  /\ \/ (stopping \/ call.want # "") /\ Return(FALSE)
     \/ /\ ~stopping
        /\ IF current # 0 /\ regs[current].chord = call.want /\ Registered # {} THEN Return(TRUE)
           ELSE /\ GoTo(IF call.want = "" THEN "old" ELSE "register")
                /\ UNCHANGED <<lock, released>>
  /\ UNCHANGED <<regs, current, retained, stored, stopping, commands, presses>>

\* The grab is had, and armed; or it fails, and what was started is cancelled: the native
\* thread that does not end is the provider's, the worker that does not is left alone.
Register ==
  /\ At("register") /\ Len(regs) < MaxRegs
  /\ \/ /\ regs' = Append(regs, NewReg(call.want))
        /\ call' = [call EXCEPT !.at = "old", !.next = Len(regs) + 1]
        /\ UNCHANGED <<lock, released>>
     \/ /\ \E native \in {"mute", "joined"}, worker \in {"recv", "joined"} :
             regs' = Append(regs, [NewReg(call.want) EXCEPT !.native = native, !.pending = TRUE,
                                     !.cancel = TRUE, !.wake = TRUE, !.worker = worker])
        /\ Return(FALSE)
  /\ UNCHANGED <<current, retained, stored, stopping, commands, presses>>

StopOld ==
  /\ At("old")
  /\ call' = IF current = 0 THEN [call EXCEPT !.at = "store"]
             ELSE [call EXCEPT !.at = "cancel", !.target = current, !.why = "old"]
  /\ UNCHANGED <<regs, current, retained, stored, lock, stopping, released, commands, presses>>

\* Mutant: the registration becomes the current one before its chord is stored.
UnstoredKept == current' = call.next /\ Return(FALSE)
Unstored ==
  /\ current' = 0
  /\ IF call.next = 0 THEN Return(FALSE)
     ELSE /\ call' = [call EXCEPT !.at = "cancel", !.target = call.next, !.why = "next"]
          /\ UNCHANGED <<lock, released>>

Store ==
  /\ At("store")
  /\ \/ /\ stored' = call.want /\ current' = call.next
        /\ GoTo("publish") /\ UNCHANGED <<lock, released>>
     \/ Unstored /\ UNCHANGED stored
  /\ UNCHANGED <<regs, retained, stopping, commands, presses>>

Publish ==
  /\ At("publish") /\ \E ok \in BOOLEAN : Return(ok)
  /\ UNCHANGED <<regs, current, retained, stored, stopping, commands, presses>>

CallStep == \/ Cancel \/ Wake \/ Disarm \/ JoinNative \/ JoinWorker
            \/ DrainFailed \/ Drain \/ CheckChord \/ Register \/ StopOld \/ Store \/ Publish

-----------------------------------------------------------------------------
(* The threads of a registration, and other requests.                      *)

Others == UNCHANGED <<current, retained, stored, call, lock, stopping, released, commands>>

\* The chord is pressed: an armed registration calls back, and may be disarmed meanwhile.
PressChord(r) ==
  /\ regs[r].native = "live" /\ ~regs[r].ringing /\ presses < MaxPresses
  /\ presses' = presses + 1
  /\ regs' = [regs EXCEPT ![r].ringing = TRUE] /\ Others

Ring(r) ==
  /\ regs[r].ringing
  /\ regs' = [regs EXCEPT ![r].ringing = FALSE, ![r].wake = TRUE] /\ UNCHANGED presses /\ Others

\* The native thread ends: as it was told, or on an error of its own (a keyboard mapping
\* that changed, a connection that is gone).
NativeEnds(r) ==
  /\ regs[r].native \in {"live", "mute"} /\ ~regs[r].ringing
  /\ \E end \in {"ended", "failed"} :
       /\ end = "failed" \/ regs[r].native = "mute"
       /\ regs' = [regs EXCEPT ![r].native = end]
  /\ UNCHANGED presses /\ Others

Receive(r) ==
  /\ regs[r].worker = "recv" /\ regs[r].wake
  /\ regs' = [regs EXCEPT ![r].wake = FALSE,
                          ![r].worker = IF regs[r].cancel THEN "done" ELSE "try"]
  /\ UNCHANGED presses /\ Others

\* Mutant: the worker waits for the request lock.
TryEndsLocked(r) == lock = "free"
TryEnds(r) == lock = "free" \/ regs[r].cancel

\* try_toggle_privacy: the lock is free and the session is toggled (unless the Host is
\* stopping), or the worker is cancelled; or the lock is held until the deadline.
Try(r) ==
  /\ regs[r].worker = "try" /\ TryEnds(r)
  /\ regs' = [regs EXCEPT ![r].worker = "recv"]
  /\ UNCHANGED presses /\ Others

Expire(r) ==
  /\ regs[r].worker = "try" /\ lock # "free"
  /\ regs' = [regs EXCEPT ![r].worker = "recv"]
  /\ UNCHANGED presses /\ Others

OtherRequest ==
  /\ lock # "call" /\ commands > 0 /\ call.kind # "init"
  /\ lock' = IF lock = "free" THEN "other" ELSE "free"
  /\ UNCHANGED <<regs, current, retained, stored, call, stopping, released, commands, presses>>

ThreadStep(r) == PressChord(r) \/ Ring(r) \/ NativeEnds(r) \/ Receive(r) \/ Try(r) \/ Expire(r)

ShortcutNext == Initialize \/ BeginSet \/ BeginStop \/ CallStep \/ OtherRequest
        \/ \E r \in DOMAIN regs : ThreadStep(r)

\* The worker and the call's own thread run; nobody has to give up the request lock, and
\* no native thread has to end.
ShortcutFairness ==
  /\ WF_shortcutVars(Wake)
  /\ \A r \in 1 .. MaxRegs : WF_shortcutVars(r \in DOMAIN regs /\ (Receive(r) \/ Try(r)))

ShortcutSpec == ShortcutInit /\ [][ShortcutNext]_shortcutVars /\ ShortcutFairness

-----------------------------------------------------------------------------
\* Between calls the chord that toggles the session is the one in the settings: whatever
\* failed half way, no other registration is armed.
LiveIsStored ==
  call = NoCall =>
    \A r \in DOMAIN regs :
      regs[r].native = "live" => r = current /\ regs[r].chord = stored /\ ~regs[r].cancel

\* A worker that is cancelled ends, even if the request lock is never given up.
StoppedWorkerEnds ==
  \A r \in 1 .. MaxRegs :
    (r \in DOMAIN regs /\ regs[r].cancel)
      ~> (r \in DOMAIN regs /\ regs[r].worker \in {"done", "joined"})
=============================================================================
