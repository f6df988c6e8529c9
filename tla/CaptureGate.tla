----------------------------- MODULE CaptureGate -----------------------------
(***************************************************************************)
(* What the capture pipeline promises, with nothing of how: time is cut    *)
(* into eras, a session is active or not, a capture that begins outside a  *)
(* session holds the era it began in, and it gets through to the history   *)
(* only while that era lasts and no session is active.                     *)
(***************************************************************************)
EXTENDS Integers

CONSTANT Workers

VARIABLES era,      \* the current privacy epoch
          active,   \* a privacy session is active now
          hold      \* the era each capture in flight holds, Through once
                    \* the history has it, NoHold before and after

gateVars == <<era, active, hold>>

NoHold == -1
Through == -2

GateInit ==
  /\ era \in Nat
  /\ active \in BOOLEAN
  /\ hold = [w \in Workers |-> NoHold]

\* A capture begins outside a session.
Enter(w) ==
  /\ hold[w] = NoHold
  /\ ~active
  /\ hold' = [hold EXCEPT ![w] = era]
  /\ UNCHANGED <<era, active>>

\* A capture is given up, or is through and done.
Leave(w) ==
  /\ hold[w] # NoHold
  /\ hold' = [hold EXCEPT ![w] = NoHold]
  /\ UNCHANGED <<era, active>>

\* A capture reaches the history.  Protecting a visible record on the way
\* starts a new era.
Admit(w) ==
  /\ hold[w] = era
  /\ ~active
  /\ hold' = [hold EXCEPT ![w] = Through]
  /\ era' \in {era, era + 1}
  /\ UNCHANGED active

\* A command, a policy change or a stored expiry starts a new era.
Shift ==
  /\ era' = era + 1
  /\ active' \in BOOLEAN
  /\ UNCHANGED hold

\* A session runs out: the clock alone does this, in the same era.
Lapse ==
  /\ active
  /\ active' = FALSE
  /\ UNCHANGED <<era, hold>>

GateNext ==
  \/ \E w \in Workers : Enter(w) \/ Leave(w) \/ Admit(w)
  \/ Shift
  \/ Lapse

GateSpec == GateInit /\ [][GateNext]_gateVars
=============================================================================
