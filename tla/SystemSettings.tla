--------------------------- MODULE SystemSettings ---------------------------
(***************************************************************************)
(* The Windows settings DezirClip overrides and gives back (src-tauri      *)
(* infrastructure/windows_api/system_settings.rs): the receipt written     *)
(* ahead of every override, the journal of a change that waits for the     *)
(* user's confirmation, its rollback, the other commands that override or  *)
(* release the same settings, and the uninstaller's restoration.           *)
(*                                                                         *)
(* A named lock makes one operation follow another, whatever process they  *)
(* run in; every write of the registry may fail, and a process may be      *)
(* killed between two of them.  The user's own programs do not take the    *)
(* lock.  A value is a word; the hotkey setting's override appends to what *)
(* is there.                                                               *)
(***************************************************************************)
EXTENDS Integers, Sequences, FiniteSets

CONSTANTS
  Switches,    \* the settings that are switched off: the clipboard's history, its cloud
  MaxPending,  \* how many changes may wait for confirmation
  MaxOps,      \* bound on the operations
  MaxEdits,    \* bound on the user's own changes
  MaxFaults    \* bound on the writes that fail and the processes that die

WinV == "WinV"

ASSUME SettingsAssumption ==
  /\ Switches \in Seq(STRING)
  /\ \A i, j \in DOMAIN Switches : Switches[i] # WinV /\ (Switches[i] = Switches[j] => i = j)

Settings == {Switches[i] : i \in DOMAIN Switches} \cup {WinV}
Values(s) == IF s = WinV THEN {"none", "X", "V", "XV"} ELSE {"none", "on", "off"}

VARIABLES
  value,    \* the registry's value of each setting
  receipt,  \* its restoration receipt, or NoReceipt
  user,     \* what the user, or a program of theirs, has set last
  op,       \* the operation that has the lock, or Idle
  pending,  \* PENDING: the changes by token
  ops, edits, faults

vars == <<value, receipt, user, op, pending, ops, edits, faults>>

NoReceipt == [original |-> "", expected |-> ""]
NoState == [value |-> "", receipt |-> NoReceipt]
NoWrites == [before |-> NoState, expected |-> NoState, value |-> FALSE, receipt |-> FALSE]
Unwritten == [s \in Settings |-> NoWrites]
Idle == [kind |-> "idle"]

Init ==
  /\ value \in [Settings -> {"none", "on", "off", "X", "V", "XV"}]
  /\ \A s \in Settings : value[s] \in Values(s)
  /\ user = value /\ receipt = [s \in Settings |-> NoReceipt] /\ op = Idle
  /\ pending = << >> /\ ops = 0 /\ edits = 0 /\ faults = 0

-----------------------------------------------------------------------------
(* What the operations look at.                                            *)

Disabled(s, v) == v \in (IF s = WinV THEN {"V", "XV"} ELSE {"off"})
Override(s, v) == IF s = WinV THEN (IF v = "X" THEN "XV" ELSE "V") ELSE "off"

State(s) == [value |-> value[s], receipt |-> receipt[s]]
Owned(s) == receipt[s] # NoReceipt /\ value[s] = receipt[s].expected
AfterRelease(s) == IF Owned(s) THEN receipt[s].original ELSE value[s]

\* What must not stay disabled by a value nobody has a receipt for.
Released(kind) == IF kind = "release" THEN {WinV} ELSE IF kind = "enable" THEN Settings \ {WinV} ELSE {}
Blocked(kind) == \E s \in Released(kind) : Disabled(s, AfterRelease(s))

\* The order in which an operation takes the settings.
Todo(kind) == IF kind = "optimize" THEN <<WinV>> \o Switches
              ELSE IF kind \in {"disable", "enable"} THEN Switches ELSE Switches \o <<WinV>>
Applies == op.kind \in {"optimize", "disable"}

-----------------------------------------------------------------------------
(* The write an operation has to do next for the setting it is at: what is *)
(* written, the new content, and whether another may follow.               *)

Write(what, new, next) == {[what |-> what, new |-> new, next |-> next]}
Over == 9

\* Mutant: the override is written before its receipt.
ValueFirst(s) ==
  IF op.phase = 0
  THEN IF receipt[s] # NoReceipt \/ Disabled(s, value[s]) THEN {} ELSE Write("value", Override(s, value[s]), 1)
  ELSE Write("receipt", [original |-> value[s], expected |-> value[s]], Over)
\* apply_value
ApplyWrites(s) ==
  IF op.phase = 0
  THEN IF receipt[s] # NoReceipt \/ Disabled(s, value[s]) THEN {}
       ELSE Write("receipt", [original |-> value[s], expected |-> Override(s, value[s])], 1)
  ELSE Write("value", receipt[s].expected, Over)

Replaces(s) == Owned(s) /\ value[s] # receipt[s].original

\* restore_value
RestoreWrites(s) ==
  IF receipt[s] = NoReceipt THEN {}
  ELSE IF op.phase = 0 /\ Replaces(s) THEN Write("value", receipt[s].original, 1)
  ELSE Write("receipt", NoReceipt, Over)

Untouched(s, w) == State(s) = w.expected

\* rollback_change: an old receipt before its value, a new one after it.
RollbackWrites(s) ==
  LET w == op.change[s]
      old == w.receipt /\ w.before.receipt # NoReceipt /\ w.before.receipt # w.expected.receipt
      new == w.receipt /\ w.before.receipt = NoReceipt /\ w.before.receipt # w.expected.receipt
      back == w.value /\ w.before.value # w.expected.value
  IN IF w = NoWrites \/ w.before = w.expected \/ (op.phase = 0 /\ ~Untouched(s, w)) THEN {}
     ELSE IF op.phase = 0 /\ old THEN Write("receipt", w.before.receipt, 1)
     ELSE IF op.phase <= 1 /\ back THEN Write("value", w.before.value, 2)
     ELSE IF new THEN Write("receipt", NoReceipt, Over) ELSE {}

Due == LET s == Head(op.todo) IN
       IF op.kind = "rollback" THEN RollbackWrites(s)
       ELSE IF Applies THEN ApplyWrites(s) ELSE RestoreWrites(s)

\* RecordingStore: only a write that succeeded claims its field.
Recorded(s, w, new) ==
  LET was == IF w = NoWrites THEN State(s) ELSE w.before
      is == IF w = NoWrites THEN State(s) ELSE w.expected
  IN IF new.what = "value"
     THEN [before |-> [was EXCEPT !.value = IF w.value THEN @ ELSE value[s]],
           expected |-> [is EXCEPT !.value = new.new], value |-> TRUE, receipt |-> w.receipt]
     ELSE [before |-> [was EXCEPT !.receipt = IF w.receipt THEN @ ELSE receipt[s]],
           expected |-> [is EXCEPT !.receipt = new.new], value |-> w.value, receipt |-> TRUE]

\* Mutant: a rollback does not note how far it has come.
Forgotten(w, new) == w
\* A rollback notes how far it has come.
Noted(w, new) ==
  IF new.what = "value" THEN [w EXCEPT !.expected.value = new.new] ELSE [w EXCEPT !.expected.receipt = new.new]

-----------------------------------------------------------------------------
(* The operations.                                                         *)

Running(kind, by, staged, change, token) ==
  [kind |-> kind, by |-> by, staged |-> staged, change |-> change, token |-> token, phase |-> 0,
   todo |-> Todo(kind), from |-> [s \in Settings |-> State(s)], clean |-> TRUE]

\* set_clipboard_history, set_win_v_optimization, run_maintenance_command and, staged,
\* begin_win_v_change.
Start(kind, by, staged) ==
  /\ op = Idle /\ ops < MaxOps /\ ops' = ops + 1 /\ ~Blocked(kind)
  /\ staged => by = "gui" /\ kind \in {"optimize", "release"} /\ Cardinality(DOMAIN pending) < MaxPending
  /\ kind = "restore" => by = "cli"
  /\ op' = Running(kind, by, staged, Unwritten, 0)
  /\ UNCHANGED <<value, receipt, user, pending, edits, faults>>

\* finish_win_v_change.
Confirm(t) ==
  /\ op = Idle /\ pending' = [u \in DOMAIN pending \ {t} |-> pending[u]]
  /\ UNCHANGED <<value, receipt, user, op, ops, edits, faults>>
Rollback(t) ==
  /\ op = Idle /\ op' = [Running("rollback", "gui", TRUE, pending[t].change, t)
                           EXCEPT !.from = pending[t].from, !.clean = pending[t].clean]
  /\ UNCHANGED <<value, receipt, user, pending, ops, edits, faults>>

Keep(change) ==
  IF op # Idle /\ op.kind = "rollback" /\ op.token # 0
  THEN [t \in DOMAIN pending |-> IF t = op.token THEN [pending[t] EXCEPT !.change = change]
                                 ELSE [pending[t] EXCEPT !.clean = FALSE]]
  ELSE [t \in DOMAIN pending |-> [pending[t] EXCEPT !.clean = FALSE]]

Step ==
  /\ op # Idle /\ op.todo # << >>
  /\ \E new \in Due :
       LET s == Head(op.todo)
           change == [op.change EXCEPT ![s] = IF op.kind = "rollback" THEN Noted(@, new) ELSE Recorded(s, @, new)]
       IN /\ IF new.what = "value" THEN value' = [value EXCEPT ![s] = new.new] /\ UNCHANGED receipt
             ELSE receipt' = [receipt EXCEPT ![s] = new.new] /\ UNCHANGED value
          /\ op' = [op EXCEPT !.change = change, !.phase = IF new.next = Over THEN 0 ELSE new.next,
                              !.todo = IF new.next = Over THEN Tail(@) ELSE @]
          /\ pending' = Keep(change)
  /\ UNCHANGED <<user, ops, edits, faults>>

NextSetting ==
  /\ op # Idle /\ op.todo # << >> /\ Due = {}
  /\ op' = [op EXCEPT !.todo = Tail(@), !.phase = 0]
  /\ UNCHANGED <<value, receipt, user, pending, ops, edits, faults>>

\* A write fails: a staged change is rolled back, a rollback may be asked for again.
Fail ==
  /\ op # Idle /\ op.todo # << >> /\ Due # {} /\ faults < MaxFaults /\ faults' = faults + 1
  /\ op' = IF op.staged /\ op.kind # "rollback"
           THEN [Running("rollback", op.by, FALSE, op.change, 0) EXCEPT !.from = op.from, !.clean = op.clean] ELSE Idle
  /\ UNCHANGED <<value, receipt, user, pending, ops, edits>>

Done ==
  /\ op # Idle /\ op.todo = << >> /\ op' = Idle
  /\ pending' = IF op.kind = "rollback"
                THEN [u \in DOMAIN pending \ {op.token} |-> pending[u]]
                ELSE IF op.staged
                THEN [u \in DOMAIN pending \cup {ops} |->
                        IF u = ops THEN [change |-> op.change, from |-> op.from, clean |-> op.clean] ELSE pending[u]]
                ELSE pending
  /\ UNCHANGED <<value, receipt, user, ops, edits, faults>>

\* A process dies; the desktop's journal dies with it.
Die(by) ==
  /\ faults < MaxFaults /\ faults' = faults + 1
  /\ op' = IF op # Idle /\ op.by = by THEN Idle ELSE op
  /\ pending' = IF by = "gui" THEN << >> ELSE pending
  /\ UNCHANGED <<value, receipt, user, ops, edits>>

\* Not between an operation's read of a setting and its writes, and not the very value
\* the receipt expects, which nobody could tell from DezirClip's own.
Edit(s, v) ==
  /\ edits < MaxEdits /\ edits' = edits + 1 /\ v # value[s]
  /\ receipt[s] # NoReceipt => v # receipt[s].expected
  /\ ~(op # Idle /\ op.todo # << >> /\ s = Head(op.todo) /\ op.phase > 0)
  /\ value' = [value EXCEPT ![s] = v] /\ user' = [user EXCEPT ![s] = v]
  /\ pending' = [t \in DOMAIN pending |-> [pending[t] EXCEPT !.clean = FALSE]]
  /\ op' = IF op = Idle THEN Idle ELSE [op EXCEPT !.clean = FALSE]
  /\ UNCHANGED <<receipt, ops, faults>>

Next ==
  \/ Step \/ NextSetting \/ Fail \/ Done
  \/ \E by \in {"gui", "cli"} :
       \/ Die(by)
       \/ \E kind \in {"optimize", "release", "disable", "enable", "restore"}, staged \in BOOLEAN :
            Start(kind, by, staged)
  \/ \E t \in DOMAIN pending : Confirm(t) \/ Rollback(t)
  \/ \E s \in Settings : \E v \in Values(s) : Edit(s, v)

Spec == Init /\ [][Next]_vars

-----------------------------------------------------------------------------
Word == {"", "none", "X", "V", "XV", "on", "off"}
Receipt == [original : Word, expected : Word]
RegState == [value : Word, receipt : Receipt]
Writes == [before : RegState, expected : RegState, value : BOOLEAN, receipt : BOOLEAN]
Kinds == {"optimize", "release", "disable", "enable", "restore", "rollback"}
Operation ==
  [kind : Kinds, by : {"gui", "cli"}, staged : BOOLEAN, change : [Settings -> Writes], token : Nat,
   phase : {0, 1, 2}, todo : Seq(Settings), from : [Settings -> RegState], clean : BOOLEAN]
Change == [change : [Settings -> Writes], from : [Settings -> RegState], clean : BOOLEAN]

TypeOK ==
  /\ value \in [Settings -> Word] /\ user \in [Settings -> Word] /\ receipt \in [Settings -> Receipt]
  /\ op # Idle => op \in Operation
  /\ ops \in Nat /\ DOMAIN pending \subseteq Nat
  /\ \A t \in DOMAIN pending : pending[t] \in Change

\* What the user has set last is what the registry says, or what the receipt of the
\* override it says gives back: after every write, every failure and every crash.
UserValueKept ==
  \A s \in Settings : value[s] = user[s] \/ (Owned(s) /\ receipt[s].original = user[s])

\* What ends well has given back.  The uninstaller's restoration leaves the user's own
\* settings.  A rollback, of a change that failed or one that was not confirmed, at once or
\* after failures of its own, leaves values and receipts as they were before the change,
\* when nobody else has written one in between.
GivesBack ==
  [][(op # Idle /\ op' = Idle /\ faults' = faults) =>
       /\ op.kind = "restore" => value = user /\ \A s \in Settings : receipt[s] = NoReceipt
       /\ op.kind = "rollback" /\ op.clean => [s \in Settings |-> State(s)] = op.from]_vars
=============================================================================
