---------------------------- MODULE PrivacyState ----------------------------
(***************************************************************************)
(* The singleton row privacy_runtime_state and the transactions that       *)
(* crates/dzc-core/src/api/privacy_session.rs runs on it.  Every operator  *)
(* is a function of the row it reads inside its transaction and of the     *)
(* clock reading its caller took before it got there.                      *)
(*                                                                         *)
(* state_id is written once, by the migration, so it never tells two rows  *)
(* apart and is left out; history_revision belongs to HistoryVersion.      *)
(***************************************************************************)
EXTENDS Integers

\* session_expires_at_ms IS NULL: a session that only a command can end
NoEnd == -1

RowType == [epoch : Nat, enabled : BOOLEAN, expires : Nat \cup {NoEnd}]

\* The row a new database starts from, and the one a restart finds when an
\* indefinite session was left on.
OffRow == [epoch |-> 0, enabled |-> FALSE, expires |-> NoEnd]
OnRow  == [OffRow EXCEPT !.enabled = TRUE]

ActiveAt(row, now) == row.enabled /\ (row.expires = NoEnd \/ row.expires > now)

\* Enabled, but over: what status() turns into a stored transition.
ExpiredAt(row, now) == row.enabled /\ ~ActiveAt(row, now)

Bump(row) == [row EXCEPT !.epoch = @ + 1]

\* Mutant: the second half believes the first.
ExpireBlindly(row, now) ==
  IF row.enabled
  THEN [epoch |-> row.epoch + 1, enabled |-> FALSE, expires |-> NoEnd]
  ELSE row

\* status(), second half: the Immediate transaction decides again on the row
\* it finds, with the reading of the clock the first half used.
ExpireTx(row, now) ==
  IF ExpiredAt(row, now)
  THEN [epoch |-> row.epoch + 1, enabled |-> FALSE, expires |-> NoEnd]
  ELSE row

\* set_session(): the epoch moves only when the stored session does.
SetTx(row, on, end) ==
  IF row.enabled = on /\ row.expires = end
  THEN row
  ELSE [epoch |-> row.epoch + 1, enabled |-> on, expires |-> end]

\* toggle(): the opposite of what the row says at the caller's reading.
ToggleTx(row, now) ==
  [epoch |-> row.epoch + 1, enabled |-> ~ActiveAt(row, now), expires |-> NoEnd]

\* Mutant: only a session active at this moment refuses a capture.
CaptureAllowedNow(row, ticket, now) == ~ActiveAt(row, now)

\* check_capture_with_conn()
CaptureAllowed(row, ticket, now) == ~ActiveAt(row, now) /\ ticket = row.epoch
=============================================================================
