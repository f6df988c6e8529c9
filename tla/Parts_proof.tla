---------------------------- MODULE Parts_proof -----------------------------
(***************************************************************************)
(* Of four parts that share no state, for any settings, entries, chords,   *)
(* texts and bounds.                                                       *)
(*                                                                         *)
(* SystemSettings: the user's own value of every setting survives every    *)
(* operation, failed write, crash and rollback.  A receipt's two values    *)
(* differ and the user's value is not the one it expects, so that an owned *)
(* value is always DezirClip's.  What a change has written has one of      *)
(* three shapes, which a rollback walks back one write at a time without   *)
(* leaving them.  What it notes of them is enough for a rollback that      *)
(* nobody has written beside to end where the change began, whether it was *)
(* asked for, failed and asked for again.                                  *)
(*                                                                         *)
(* PasteQueue: nothing is pasted that was replaced, cleared or revoked     *)
(* before the last look, and an entry leaves the queue only for its own    *)
(* step.  Whatever happens to the queue moves its version, and to privacy  *)
(* the epoch; a step keeps both as they were, and looks.                   *)
(*                                                                         *)
(* PrivacyShortcut: between calls the armed chord is the stored one.  A    *)
(* call knows at each place which registration it may leave armed, the     *)
(* current one or the one that is to replace it, and a registration it     *)
(* stops is disarmed before its threads are waited for.                    *)
(*                                                                         *)
(* SurfacePanel: the rows are the beginning of one read, and what is       *)
(* pasted is one of them.  The model has rows only for the text and the    *)
(* revision it has now, and a ticket lets in only the page that goes on    *)
(* where they end.  That a search returns a sequence is proved from        *)
(* NatSet, induction over the naturals stated of a set.                    *)
(***************************************************************************)
EXTENDS SystemSettings, PasteQueue, PrivacyShortcut, SurfacePanel, SequenceTheorems,
        WellFoundedInduction, TLAPS

-----------------------------------------------------------------------------
(* The Windows settings.                                                   *)

\* What the registry says is the user's, or what its receipt gives back is, and nobody but
\* DezirClip has written the value a receipt expects.
Kept(s) ==
  /\ value[s] = user[s] \/ (Owned(s) /\ receipt[s].original = user[s])
  /\ receipt[s] # NoReceipt =>
       receipt[s].original # receipt[s].expected /\ user[s] # receipt[s].expected

\* How far an override of v by e has come, or its rollback; ...
Overriding(w, v, e) ==
  /\ v # e /\ [original |-> v, expected |-> e] # NoReceipt
  /\ w.before = [value |-> v, receipt |-> NoReceipt]
  /\ \/ w.expected = [value |-> v, receipt |-> NoReceipt]
     \/ w.expected = [value |-> v, receipt |-> [original |-> v, expected |-> e]]
     \/ w.expected = [value |-> e, receipt |-> [original |-> v, expected |-> e]]
\* ... a restoration of o, which e had replaced; ...
Restoring(w, o, e) ==
  /\ o # e /\ [original |-> o, expected |-> e] # NoReceipt
  /\ w.before = [value |-> e, receipt |-> [original |-> o, expected |-> e]]
  /\ \/ w.expected = [value |-> o, receipt |-> NoReceipt]
     \/ w.expected = [value |-> o, receipt |-> [original |-> o, expected |-> e]]
     \/ w.expected = [value |-> e, receipt |-> [original |-> o, expected |-> e]]
\* ... and the removal of a receipt whose value the user has changed to v.
Removing(w, v, o, e) ==
  /\ o # e /\ v # e /\ [original |-> o, expected |-> e] # NoReceipt
  /\ w.before = [value |-> v, receipt |-> [original |-> o, expected |-> e]]
  /\ \/ w.expected = [value |-> v, receipt |-> NoReceipt]
     \/ w.expected = [value |-> v, receipt |-> [original |-> o, expected |-> e]]

Sound(w) ==
  \/ w = NoWrites
  \/ /\ w.expected.value # w.before.value => w.value
     /\ w.expected.receipt # w.before.receipt => w.receipt
     /\ \E v, o, e \in Word : Overriding(w, v, e) \/ Restoring(w, o, e) \/ Removing(w, v, o, e)

Distinct(todo) == \A i, j \in 1..Len(todo) : todo[i] = todo[j] => i = j

\* What the writes the operation has done for the setting it is at say of the next.
AtHead(s) ==
  LET w == op.change[s] IN
  IF op.kind = "rollback"
  THEN op.phase # 0 =>
         /\ State(s) = w.expected /\ w # NoWrites
         /\ w.before.receipt = NoReceipt \/ w.expected.receipt = w.before.receipt
         /\ op.phase = 2 => w.expected.value = w.before.value
  ELSE /\ op.phase = 0 => w = NoWrites
       /\ op.phase # 0 =>
            /\ receipt[s] # NoReceipt /\ value[s] = receipt[s].original
            /\ w.expected = State(s)
            /\ w # NoWrites
            /\ IF Applies
               THEN /\ w.before = [value |-> value[s], receipt |-> NoReceipt]
                    /\ w.receipt /\ ~w.value
               ELSE /\ w.before = [value |-> receipt[s].expected, receipt |-> receipt[s]]
                    /\ w.value /\ ~w.receipt

Operating ==
  /\ \A s \in Settings : Sound(op.change[s])
  /\ Distinct(op.todo)
  /\ op.kind # "rollback" => \A i \in 2..Len(op.todo) : op.change[op.todo[i]] = NoWrites
  /\ \A s \in Settings : op.todo # << >> /\ s = Head(op.todo) => AtHead(s)

Inv ==
  /\ TypeOK
  /\ \A s \in Settings : Kept(s)
  /\ op # Idle => Operating
  /\ \A t \in DOMAIN pending : \A s \in Settings : Sound(pending[t].change[s])

-----------------------------------------------------------------------------
(* Data.                                                                   *)

LEMMA WritesTyped == NoReceipt \in Receipt /\ NoState \in RegState /\ NoWrites \in Writes
  BY DEF NoReceipt, Receipt, Word, NoState, RegState, NoWrites, Writes

LEMMA StatesDiffer ==
  ASSUME NEW x \in RegState, NEW y \in RegState, x # y
  PROVE  x.value # y.value \/ x.receipt # y.receipt
  BY DEF RegState

LEMMA StateTyped == ASSUME TypeOK, NEW s \in Settings PROVE State(s) \in RegState
  BY DEF TypeOK, State, RegState

\* A record of two fields with one of them changed.
LEMMA PairEdited ==
  ASSUME NEW a, NEW b, NEW x
  PROVE  /\ [[value |-> a, receipt |-> b] EXCEPT !.value = x] = [value |-> x, receipt |-> b]
         /\ [[value |-> a, receipt |-> b] EXCEPT !.receipt = x] = [value |-> a, receipt |-> x]
  OBVIOUS

LEMMA StateEdited ==
  ASSUME NEW s, NEW x
  PROVE  /\ [State(s) EXCEPT !.value = x] = [value |-> x, receipt |-> receipt[s]]
         /\ [State(s) EXCEPT !.receipt = x] = [value |-> value[s], receipt |-> x]
  BY PairEdited DEF State

\* The settings an operation takes, each once.
LEMMA TodoDistinct ==
  ASSUME NEW kind
  PROVE  Todo(kind) \in Seq(Settings) /\ Distinct(Todo(kind))
<1>1. Switches \in Seq(Settings) /\ <<WinV>> \in Seq(Settings)
  BY SettingsAssumption DEF Settings
<1>2. \A i, j \in 1..Len(Switches) : Switches[i] # WinV /\ (Switches[i] = Switches[j] => i = j)
  BY SettingsAssumption
<1>3. <<WinV>> \o Switches \in Seq(Settings) /\ Distinct(<<WinV>> \o Switches)
  BY <1>1, <1>2 DEF Distinct
<1>4. Switches \o <<WinV>> \in Seq(Settings) /\ Distinct(Switches \o <<WinV>>)
  BY <1>1, <1>2 DEF Distinct
<1>5. Distinct(Switches)
  BY <1>2 DEF Distinct
<1> QED
  BY <1>1, <1>3, <1>4, <1>5 DEF Todo

\* What is left when the first is done.
LEMMA TailLeft ==
  ASSUME NEW todo \in Seq(Settings), todo # << >>, Distinct(todo)
  PROVE  /\ Head(todo) \in Settings /\ Head(todo) = todo[1]
         /\ Tail(todo) \in Seq(Settings) /\ Distinct(Tail(todo)) /\ Len(Tail(todo)) = Len(todo) - 1
         /\ \A i \in 1..Len(Tail(todo)) : Tail(todo)[i] = todo[i + 1] /\ todo[i + 1] # Head(todo)
         /\ Tail(todo) # << >> => Head(Tail(todo)) = todo[2] /\ Len(todo) >= 2
  BY DEF Distinct

LEMMA OthersLater ==
  ASSUME NEW todo \in Seq(Settings), todo # << >>, Distinct(todo), NEW i \in 2..Len(todo)
  PROVE  todo[i] \in Settings /\ todo[i] # Head(todo)
<1>1. Len(todo) \in Nat /\ 1 \in 1..Len(todo) /\ i \in 1..Len(todo) /\ i # 1 /\ Head(todo) = todo[1]
  OBVIOUS
<1> QED
  BY <1>1 DEF Distinct

LEMMA Overrides ==
  ASSUME NEW s \in Settings, NEW v \in Word, ~Disabled(s, v)
  PROVE  Override(s, v) \in Word \ {"", v}
  BY DEF Disabled, Override, Word

-----------------------------------------------------------------------------
(* The first state, and the steps that write no setting.                   *)

LEMMA NothingWritten == NoWrites \in Writes /\ Sound(NoWrites)
  BY WritesTyped DEF Sound

LEMMA InitInv == Init => Inv
<1> SUFFICES ASSUME Init PROVE Inv
  OBVIOUS
<1>1. TypeOK
  <2>1. receipt \in [Settings -> Receipt]
    BY WritesTyped DEF Init
  <2>2. value \in [Settings -> Word]
    BY DEF Init, Word
  <2> QED
    BY <2>1, <2>2 DEF Init, TypeOK
<1>2. \A s \in Settings : Kept(s)
  BY DEF Init, Kept
<1> QED
  BY <1>1, <1>2 DEF Init, Inv

Beginning(kind, by, staged, change, token, from, clean) ==
  [kind |-> kind, by |-> by, staged |-> staged, change |-> change, token |-> token, phase |-> 0,
   todo |-> Todo(kind), from |-> from, clean |-> clean]

\* An operation that begins has written nothing yet.
LEMMA Begins ==
  ASSUME TypeOK, NEW kind \in Kinds, NEW by \in {"gui", "cli"}, NEW staged \in BOOLEAN,
         NEW change \in [Settings -> Writes], NEW token \in Nat,
         NEW from \in [Settings -> RegState], NEW clean \in BOOLEAN,
         op' = Beginning(kind, by, staged, change, token, from, clean),
         \A s \in Settings : Sound(change[s]),
         kind # "rollback" => change = Unwritten
  PROVE  op' \in Operation /\ Operating'
<1>1. Todo(kind) \in Seq(Settings) /\ Distinct(Todo(kind))
  BY TodoDistinct
<1>3. /\ op' \in Operation /\ op'.kind = kind /\ op'.change = change /\ op'.todo = Todo(kind)
      /\ op'.phase = 0
  BY <1>1 DEF Beginning, Operation
<1>4. \A s \in Settings : kind # "rollback" => change[s] = NoWrites
  BY DEF Unwritten
<1>5. \A i \in 1..Len(Todo(kind)) : Todo(kind)[i] \in Settings
  BY <1>1
<1>6. Todo(kind) # << >> => Head(Todo(kind)) \in Settings
  BY <1>1
<1> QED
  BY <1>1, <1>3, <1>4, <1>5, <1>6 DEF Operating, AtHead

LEMMA StartInv ==
  ASSUME Inv, NEW kind \in Kinds \ {"rollback"}, NEW by \in {"gui", "cli"}, NEW staged \in BOOLEAN,
         Start(kind, by, staged)
  PROVE  Inv'
<1>1. Unwritten \in [Settings -> Writes] /\ \A s \in Settings : Sound(Unwritten[s])
  BY NothingWritten DEF Unwritten
<1>2. op' = Beginning(kind, by, staged, Unwritten, 0, [s \in Settings |-> State(s)], TRUE)
  BY DEF Start, Running, Beginning
<1>3. [s \in Settings |-> State(s)] \in [Settings -> RegState]
  BY StateTyped DEF Inv
<1>4. op' \in Operation /\ Operating'
  BY <1>1, <1>2, <1>3, Begins DEF Inv
<1>5. TypeOK'
  BY <1>4 DEF Inv, TypeOK, Start
<1> QED
  BY <1>4, <1>5 DEF Inv, Start, Kept, Owned

LEMMA ConfirmInv == ASSUME Inv, NEW t \in DOMAIN pending, Confirm(t) PROVE Inv'
<1>1. DOMAIN pending' = DOMAIN pending \ {t} /\ \A u \in DOMAIN pending' : pending'[u] = pending[u]
  BY DEF Confirm
<1>2. TypeOK'
  BY <1>1 DEF Inv, TypeOK, Confirm
<1> QED
  BY <1>1, <1>2 DEF Inv, Confirm, Kept, Owned

LEMMA RollbackInv == ASSUME Inv, NEW t \in DOMAIN pending, Rollback(t) PROVE Inv'
<1>1. /\ pending[t] \in Change /\ t \in Nat
      /\ \A s \in Settings : Sound(pending[t].change[s])
  BY DEF Inv, TypeOK
<1>2. op' = Beginning("rollback", "gui", TRUE, pending[t].change, t, pending[t].from, pending[t].clean)
  BY DEF Rollback, Running, Beginning
<1>3. /\ pending[t].change \in [Settings -> Writes] /\ pending[t].from \in [Settings -> RegState]
      /\ pending[t].clean \in BOOLEAN
  BY <1>1 DEF Change
<1>4. op' \in Operation /\ Operating'
  BY <1>1, <1>2, <1>3, Begins DEF Inv, Kinds
<1>5. TypeOK'
  BY <1>4 DEF Inv, TypeOK, Rollback
<1> QED
  BY <1>4, <1>5 DEF Inv, Rollback, Kept, Owned

\* A staged operation that fails is rolled back from where it is.
LEMMA FailInv == ASSUME Inv, Fail PROVE Inv'
<1>1. op # Idle /\ op \in Operation /\ Operating
  BY DEF Inv, TypeOK, Fail
<1>2. CASE op.staged /\ op.kind # "rollback"
  <2>1. op' = Beginning("rollback", op.by, FALSE, op.change, 0, op.from, op.clean)
    BY <1>2 DEF Fail, Running, Beginning
  <2>2. /\ op.change \in [Settings -> Writes] /\ op.from \in [Settings -> RegState]
        /\ op.clean \in BOOLEAN /\ op.by \in {"gui", "cli"}
    BY <1>1 DEF Operation
  <2>3. op' \in Operation /\ Operating'
    BY <1>1, <2>1, <2>2, Begins DEF Inv, Kinds, Operating
  <2>4. TypeOK'
    BY <2>3 DEF Inv, TypeOK, Fail
  <2> QED
    BY <2>3, <2>4 DEF Inv, Fail, Kept, Owned
<1>3. CASE ~(op.staged /\ op.kind # "rollback")
  <2>1. op' = Idle
    BY <1>3 DEF Fail
  <2>2. TypeOK'
    BY <2>1 DEF Inv, TypeOK, Fail
  <2> QED
    BY <2>1, <2>2 DEF Inv, Fail, Kept, Owned
<1> QED
  BY <1>2, <1>3

\* What an operation leaves behind it can be rolled back soundly.
LEMMA DoneInv == ASSUME Inv, Done PROVE Inv'
<1>1. op # Idle /\ op \in Operation /\ Operating /\ op' = Idle /\ UNCHANGED <<value, receipt, user, ops>>
  BY DEF Inv, TypeOK, Done
<1>2. [change |-> op.change, from |-> op.from, clean |-> op.clean] \in Change
  BY <1>1 DEF Operation, Change
<1>3. /\ DOMAIN pending' \subseteq Nat
      /\ \A t \in DOMAIN pending' :
           pending'[t] \in Change /\ \A s \in Settings : Sound(pending'[t].change[s])
  <2>1. CASE op.kind = "rollback"
    BY <2>1 DEF Inv, TypeOK, Done
  <2>2. CASE op.kind # "rollback" /\ op.staged
    <3>1. pending' = [u \in DOMAIN pending \cup {ops} |->
            IF u = ops THEN [change |-> op.change, from |-> op.from, clean |-> op.clean] ELSE pending[u]]
      BY <2>2 DEF Done
    <3> QED
      BY <1>1, <1>2, <3>1 DEF Inv, TypeOK, Operating
  <2>3. CASE op.kind # "rollback" /\ ~op.staged
    BY <2>3 DEF Inv, TypeOK, Done
  <2> QED
    BY <2>1, <2>2, <2>3
<1>4. TypeOK'
  BY <1>1, <1>3 DEF Inv, TypeOK
<1> QED
  BY <1>1, <1>3, <1>4 DEF Inv, Kept, Owned

LEMMA DieInv == ASSUME Inv, NEW by \in {"gui", "cli"}, Die(by) PROVE Inv'
<1>1. UNCHANGED <<value, receipt, user, ops>> /\ (op' = Idle \/ op' = op)
  BY DEF Die
<1>2. /\ DOMAIN pending' \subseteq Nat
      /\ \A t \in DOMAIN pending' :
           pending'[t] \in Change /\ \A s \in Settings : Sound(pending'[t].change[s])
  BY DEF Inv, TypeOK, Die
<1>3. TypeOK'
  BY <1>1, <1>2 DEF Inv, TypeOK
<1>4. op' # Idle => Operating'
  BY <1>1 DEF Inv, Operating, AtHead, State, Applies
<1> QED
  BY <1>1, <1>2, <1>3, <1>4 DEF Inv, Kept, Owned

\* The next setting is one nothing was written of.
LEMMA NextSettingInv == ASSUME Inv, NextSetting PROVE Inv'
<1>1. op # Idle /\ op \in Operation /\ Operating /\ op.todo # << >>
  BY DEF Inv, TypeOK, NextSetting
<1>2. UNCHANGED <<value, receipt, user, ops, pending>> /\ op' = [op EXCEPT !.todo = Tail(@), !.phase = 0]
  BY DEF NextSetting
<1>3. op.todo \in Seq(Settings) /\ Distinct(op.todo)
  BY <1>1 DEF Operation, Operating
<1>4. /\ op' \in Operation /\ op'.todo = Tail(op.todo) /\ op'.phase = 0 /\ op'.change = op.change
      /\ op'.kind = op.kind
  BY <1>1, <1>2, <1>3, TailLeft DEF Operation
<1>5. Operating'
  <2>1. (\A q \in Settings : Sound(op'.change[q])) /\ Distinct(op'.todo)
    BY <1>1, <1>3, <1>4, TailLeft DEF Operating
  <2>2. ASSUME op.kind # "rollback", NEW i \in 1 .. Len(Tail(op.todo))
        PROVE  op.change[Tail(op.todo)[i]] = NoWrites
    <3>1. Tail(op.todo)[i] = op.todo[i + 1] /\ i + 1 \in 2 .. Len(op.todo)
      BY <1>1, <1>3, TailLeft
    <3> QED
      BY <1>1, <2>2, <3>1 DEF Operating
  <2>3. op'.kind # "rollback" => \A i \in 2 .. Len(op'.todo) : op'.change[op'.todo[i]] = NoWrites
    BY <1>4, <2>2
  <2>4. ASSUME NEW q \in Settings, op'.todo # << >>, q = Head(op'.todo) PROVE AtHead(q)'
    <3>1. q = Tail(op.todo)[1] /\ 1 \in 1 .. Len(Tail(op.todo))
      BY <1>1, <1>3, <1>4, <2>4, TailLeft
    <3>2. op'.kind # "rollback" => op'.change[q] = NoWrites
      BY <1>4, <2>2, <3>1
    <3> QED
      BY <1>4, <3>2 DEF AtHead
  <2> QED
    BY <2>1, <2>3, <2>4 DEF Operating
<1>6. TypeOK'
  BY <1>2, <1>4 DEF Inv, TypeOK
<1> QED
  BY <1>2, <1>5, <1>6 DEF Inv, Kept, Owned

\* The user's own change, of a setting whose receipt does not expect it.
LEMMA EditInv == ASSUME Inv, NEW s \in Settings, NEW v \in Values(s), Edit(s, v) PROVE Inv'
<1>1. v \in Word
  BY DEF Values, Word
<1>2. /\ value' = [value EXCEPT ![s] = v] /\ user' = [user EXCEPT ![s] = v]
      /\ UNCHANGED <<receipt, ops>> /\ (receipt[s] # NoReceipt => v # receipt[s].expected)
      /\ op' = IF op = Idle THEN Idle ELSE [op EXCEPT !.clean = FALSE]
  BY DEF Edit
<1>3. /\ DOMAIN pending' \subseteq Nat
      /\ \A t \in DOMAIN pending' :
           pending'[t] \in Change /\ \A r \in Settings : Sound(pending'[t].change[r])
  BY DEF Inv, TypeOK, Edit, Change
<1>4. op' # Idle =>
        /\ op # Idle /\ op' \in Operation /\ op'.kind = op.kind /\ op'.change = op.change
        /\ op'.todo = op.todo /\ op'.phase = op.phase
  BY <1>2 DEF Inv, TypeOK, Operation
<1>5. op # Idle /\ op.todo # << >> /\ op.phase > 0 => s # Head(op.todo)
  BY DEF Edit
<1>6. ASSUME op' # Idle, op.todo # << >>, NEW r \in Settings, r = Head(op.todo) PROVE AtHead(r)'
  <2>1. AtHead(r) /\ op.phase \in {0, 1, 2}
    BY <1>4, <1>6 DEF Inv, TypeOK, Operating, Operation
  <2>2. CASE op.phase = 0
    BY <1>4, <1>6, <2>1, <2>2 DEF AtHead
  <2>3. CASE op.phase # 0
    <3>1. r # s
      BY <1>4, <1>5, <1>6, <2>1, <2>3
    <3>2. UNCHANGED <<value[r], receipt[r]>>
      BY <1>2, <2>1, <3>1 DEF Inv, TypeOK
    <3> QED
      BY <1>4, <1>6, <2>1, <3>2 DEF AtHead, State, Applies
  <2> QED
    BY <2>2, <2>3
<1>7. op' # Idle => Operating'
  BY <1>4, <1>6 DEF Inv, Operating
<1>8. TypeOK'
  BY <1>1, <1>2, <1>3, <1>4 DEF Inv, TypeOK
<1>9. ASSUME NEW r \in Settings PROVE Kept(r)'
  BY <1>2 DEF Inv, TypeOK, Kept, Owned
<1> QED
  BY <1>3, <1>7, <1>8, <1>9 DEF Inv

-----------------------------------------------------------------------------
(* A write.                                                                *)

\* Whatever the write is: the setting it is of stays sound, and what the operation notes of
\* it says how to take it back.
LEMMA WriteKeeps ==
  ASSUME Inv, op # Idle, op.todo # << >>, NEW s \in Settings, s = Head(op.todo),
         NEW w \in Writes, Sound(w), NEW next \in {1, 2, Over},
         op' = [op EXCEPT !.change = [op.change EXCEPT ![s] = w], !.phase = IF next = Over THEN 0 ELSE next,
                          !.todo = IF next = Over THEN Tail(@) ELSE @],
         value' \in [Settings -> Word], receipt' \in [Settings -> Receipt],
         \A r \in Settings \ {s} : value'[r] = value[r] /\ receipt'[r] = receipt[r],
         Kept(s)', next # Over => AtHead(s)',
         pending' = Keep([op.change EXCEPT ![s] = w]), UNCHANGED <<user, ops>>
  PROVE  Inv'
<1>1. op \in Operation /\ Operating
  BY DEF Inv, TypeOK
<1>2. op.todo \in Seq(Settings) /\ Distinct(op.todo) /\ op.change \in [Settings -> Writes]
  BY <1>1 DEF Operation, Operating
<1> DEFINE change == [op.change EXCEPT ![s] = w]
<1>3. change \in [Settings -> Writes] /\ \A r \in Settings : change[r] = IF r = s THEN w ELSE op.change[r]
  BY <1>2
<1>4. \A r \in Settings : Sound(change[r])
  BY <1>1, <1>3 DEF Operating
<1> HIDE DEF change
<1>5. /\ op' \in Operation /\ op'.change = change /\ op'.kind = op.kind
      /\ next # Over => op'.todo = op.todo /\ op'.phase = next
      /\ next = Over => op'.todo = Tail(op.todo) /\ op'.phase = 0
  BY <1>1, <1>2, <1>3, TailLeft DEF change, Operation, Over
<1>6. Operating'
  <2>1. CASE next # Over
    <3>1. \A i \in 2..Len(op.todo) : op.todo[i] \in Settings /\ op.todo[i] # s
      BY <1>2, OthersLater
    <3> QED
      BY <1>1, <1>3, <1>4, <1>5, <2>1, <3>1 DEF Operating
  <2>2. CASE next = Over
    <3>1. \A i \in 2..Len(op.todo) : op.todo[i] \in Settings /\ op.todo[i] # s
      BY <1>2, OthersLater
    <3>2. op.kind # "rollback" => \A i \in 2..Len(op.todo) : change[op.todo[i]] = NoWrites
      BY <1>1, <1>3, <3>1 DEF Operating
    <3>3. /\ Distinct(Tail(op.todo)) /\ Len(Tail(op.todo)) = Len(op.todo) - 1 /\ Len(op.todo) \in Nat
          /\ \A i \in 1..Len(Tail(op.todo)) : Tail(op.todo)[i] = op.todo[i + 1]
          /\ Tail(op.todo) # << >> => Head(Tail(op.todo)) = op.todo[2] /\ Len(op.todo) >= 2
      BY <1>2, TailLeft
    <3>4. op.kind # "rollback" => \A i \in 1..Len(Tail(op.todo)) : change[Tail(op.todo)[i]] = NoWrites
      <4> SUFFICES ASSUME op.kind # "rollback", NEW i \in 1..Len(Tail(op.todo))
                   PROVE  change[Tail(op.todo)[i]] = NoWrites
        OBVIOUS
      <4>1. i + 1 \in 2..Len(op.todo) /\ Tail(op.todo)[i] = op.todo[i + 1]
        BY <3>3
      <4> QED
        BY <3>2, <4>1
    <3>5. \A i \in 2..Len(Tail(op.todo)) : i \in 1..Len(Tail(op.todo))
      BY <3>3
    <3>6. ASSUME NEW r \in Settings, Tail(op.todo) # << >>, r = Head(Tail(op.todo)) PROVE AtHead(r)'
      <4>1. 2 \in 2..Len(op.todo) /\ r = op.todo[2]
        BY <3>3, <3>6
      <4>2. op.kind # "rollback" => change[r] = NoWrites
        BY <3>2, <4>1
      <4> QED
        BY <1>5, <2>2, <4>2 DEF AtHead
    <3> QED
      BY <1>4, <1>5, <2>2, <3>3, <3>4, <3>5, <3>6 DEF Operating
  <2> QED
    BY <2>1, <2>2
<1>7. /\ DOMAIN pending' \subseteq Nat
      /\ \A t \in DOMAIN pending' :
           pending'[t] \in Change /\ \A r \in Settings : Sound(pending'[t].change[r])
  <2>1. pending' = Keep(change)
    BY DEF change
  <2>2. \A t \in DOMAIN pending : /\ [pending[t] EXCEPT !.clean = FALSE] \in Change
                                  /\ [pending[t] EXCEPT !.clean = FALSE].change = pending[t].change
                                  /\ [pending[t] EXCEPT !.change = change] \in Change
                                  /\ [pending[t] EXCEPT !.change = change].change = change
    BY <1>3 DEF Inv, TypeOK, Change
  <2>3. /\ DOMAIN pending' = DOMAIN pending
        /\ \A t \in DOMAIN pending : pending'[t] \in {[pending[t] EXCEPT !.clean = FALSE],
                                                    [pending[t] EXCEPT !.change = change]}
    BY <2>1 DEF Keep
  <2>4. ASSUME NEW t \in DOMAIN pending
        PROVE  pending'[t] \in Change /\ \A r \in Settings : Sound(pending'[t].change[r])
    <3>1. pending'[t] \in Change /\ (pending'[t].change = pending[t].change \/ pending'[t].change = change)
      BY <2>2, <2>3
    <3>2. \A r \in Settings : Sound(pending[t].change[r])
      BY DEF Inv
    <3> QED
      BY <1>4, <3>1, <3>2
  <2> QED
    BY <2>3, <2>4 DEF Inv, TypeOK
<1>8. TypeOK'
  BY <1>5, <1>7 DEF Inv, TypeOK
<1>9. ASSUME NEW r \in Settings \ {s} PROVE Kept(r)'
  BY DEF Inv, Kept, Owned
<1> QED
  BY <1>6, <1>7, <1>8, <1>9 DEF Inv


\* A step of the operation, with what it then notes of the setting it is at.
Wrote(s, new, w) ==
  /\ IF new.what = "value" THEN value' = [value EXCEPT ![s] = new.new] /\ UNCHANGED receipt
     ELSE receipt' = [receipt EXCEPT ![s] = new.new] /\ UNCHANGED value
  /\ op' = [op EXCEPT !.change = [op.change EXCEPT ![s] = w],
                      !.phase = IF new.next = Over THEN 0 ELSE new.next,
                      !.todo = IF new.next = Over THEN Tail(@) ELSE @]
  /\ pending' = Keep([op.change EXCEPT ![s] = w])
  /\ UNCHANGED <<user, ops>>

LEMMA StepWrote ==
  ASSUME Inv, Step
  PROVE  /\ op # Idle /\ op.todo # << >> /\ Head(op.todo) \in Settings
         /\ \E new \in Due :
              Wrote(Head(op.todo), new, IF op.kind = "rollback" THEN Noted(op.change[Head(op.todo)], new)
                                        ELSE Recorded(Head(op.todo), op.change[Head(op.todo)], new))
<1>1. op # Idle /\ op.todo # << >> /\ op \in Operation /\ Operating
  BY DEF Inv, TypeOK, Step
<1>2. Head(op.todo) \in Settings /\ op.change \in [Settings -> Writes]
  BY <1>1, TailLeft DEF Operation, Operating
<1> DEFINE s == Head(op.todo)
           w(new) == IF op.kind = "rollback" THEN Noted(op.change[s], new)
                     ELSE Recorded(s, op.change[s], new)
<1>3. PICK new \in Due :
        LET change == [op.change EXCEPT ![s] = IF op.kind = "rollback" THEN Noted(@, new) ELSE Recorded(s, @, new)]
        IN /\ IF new.what = "value" THEN value' = [value EXCEPT ![s] = new.new] /\ UNCHANGED receipt
              ELSE receipt' = [receipt EXCEPT ![s] = new.new] /\ UNCHANGED value
           /\ op' = [op EXCEPT !.change = change, !.phase = IF new.next = Over THEN 0 ELSE new.next,
                               !.todo = IF new.next = Over THEN Tail(@) ELSE @]
           /\ pending' = Keep(change)
  BY DEF Step
<1>4. Wrote(s, new, w(new))
  BY <1>3 DEF Wrote, Step
<1> QED
  BY <1>1, <1>2, <1>4

LEMMA AppliesInv ==
  ASSUME Inv, op # Idle, op.todo # << >>, NEW s \in Settings, s = Head(op.todo),
         op.kind \in {"optimize", "disable"}, NEW new \in ApplyWrites(s),
         Wrote(s, new, Recorded(s, op.change[s], new))
  PROVE  Inv'
<1> DEFINE v == value[s]
           e == Override(s, v)
<1>1. op \in Operation /\ Operating /\ AtHead(s) /\ Kept(s) /\ v \in Word /\ receipt[s] \in Receipt
  BY DEF Inv, TypeOK, Operating
\* First the receipt, ...
<1>2. CASE op.phase = 0
  <2>1. /\ receipt[s] = NoReceipt /\ ~Disabled(s, v)
        /\ new = [what |-> "receipt", new |-> [original |-> v, expected |-> e], next |-> 1]
    BY <1>2 DEF ApplyWrites, Write
  <2>2. e \in Word \ {"", v}
    BY <1>1, <2>1, Overrides
  <2>3. op.change[s] = NoWrites
    BY <1>1, <1>2 DEF AtHead
  <2> DEFINE r == [original |-> v, expected |-> e]
             w == [before |-> [value |-> v, receipt |-> NoReceipt], expected |-> [value |-> v, receipt |-> r],
                   value |-> FALSE, receipt |-> TRUE]
  <2>4. Recorded(s, op.change[s], new) = w
    <3>1. Recorded(s, NoWrites, new)
          = [before |-> [State(s) EXCEPT !.receipt = NoReceipt], expected |-> [State(s) EXCEPT !.receipt = r],
             value |-> FALSE, receipt |-> TRUE]
      BY <2>1 DEF Recorded, NoWrites
    <3>2. [State(s) EXCEPT !.receipt = NoReceipt] = [value |-> v, receipt |-> NoReceipt]
      BY StateEdited
    <3>3. [State(s) EXCEPT !.receipt = r] = [value |-> v, receipt |-> r]
      BY StateEdited
    <3> QED
      BY <2>3, <3>1, <3>2, <3>3
  <2>5. r \in Receipt /\ r # NoReceipt /\ w \in Writes /\ w # NoWrites
    BY <1>1, <2>1, <2>2, WritesTyped DEF Receipt, NoReceipt, Writes, RegState, NoWrites
  <2>6. Sound(w)
    BY <1>1, <2>2, <2>5 DEF Sound, Overriding
  <2>7. receipt' = [receipt EXCEPT ![s] = r] /\ UNCHANGED <<value, user>>
    BY <2>1 DEF Wrote
  <2>8. Kept(s)'
    BY <1>1, <2>1, <2>2, <2>7 DEF Kept, Owned, Inv, TypeOK
  <2> HIDE DEF w
  <2>9. /\ new.next = 1 /\ op' = [op EXCEPT !.change = [op.change EXCEPT ![s] = w],
                                           !.phase = IF 1 = Over THEN 0 ELSE 1,
                                           !.todo = IF 1 = Over THEN Tail(@) ELSE @]
    BY <2>1, <2>4 DEF Wrote
  <2>10. op'.kind = op.kind /\ op'.phase = 1 /\ op'.change[s] = w
    BY <1>1, <2>9 DEF Operation, Over
  <2>11. AtHead(s)'
    <3>1. receipt'[s] = r /\ value'[s] = v
      BY <2>7 DEF Inv, TypeOK
    <3>2. Applies'
      BY <2>10 DEF Applies
    <3>3. /\ w.before = [value |-> v, receipt |-> NoReceipt] /\ w.expected = [value |-> v, receipt |-> r]
          /\ w.receipt /\ ~w.value
      BY DEF w
    <3>4. State(s)' = w.expected /\ r.original = v
      BY <3>1, <3>3 DEF State
    <3> QED
      BY <2>5, <2>10, <3>1, <3>2, <3>3, <3>4 DEF AtHead
  <2>13. pending' = Keep([op.change EXCEPT ![s] = w]) /\ UNCHANGED <<user, ops>>
    BY <2>4 DEF Wrote
  <2>14. value' \in [Settings -> Word] /\ receipt' \in [Settings -> Receipt]
    BY <2>5, <2>7 DEF Inv, TypeOK
  <2>15. \A q \in Settings \ {s} : value'[q] = value[q] /\ receipt'[q] = receipt[q]
    BY <2>7 DEF Inv, TypeOK
  <2> QED
    BY <2>5, <2>6, <2>8, <2>9, <2>11, <2>13, <2>14, <2>15, WriteKeeps
\* ... then the value it expects.
<1>3. CASE op.phase # 0
  <2> DEFINE r == receipt[s]
             w == [before |-> [value |-> v, receipt |-> NoReceipt],
                   expected |-> [value |-> r.expected, receipt |-> r], value |-> TRUE, receipt |-> TRUE]
  <2>1. new = [what |-> "value", new |-> r.expected, next |-> Over]
    BY <1>3 DEF ApplyWrites, Write
  <2>2. LET c == op.change[s] IN
        /\ r # NoReceipt /\ v = r.original /\ c.expected = State(s) /\ c # NoWrites
        /\ c.before = [value |-> v, receipt |-> NoReceipt] /\ c.receipt /\ ~c.value
    BY <1>1, <1>3 DEF AtHead, Applies
  <2>3. Recorded(s, op.change[s], new) = w
    <3>1. Recorded(s, op.change[s], new)
          = [before |-> [op.change[s].before EXCEPT !.value = v],
             expected |-> [State(s) EXCEPT !.value = r.expected],
             value |-> TRUE, receipt |-> op.change[s].receipt]
      BY <2>1, <2>2 DEF Recorded
    <3>2. [op.change[s].before EXCEPT !.value = v] = [value |-> v, receipt |-> NoReceipt]
      BY <2>2, PairEdited
    <3>3. [State(s) EXCEPT !.value = r.expected] = [value |-> r.expected, receipt |-> r]
      BY StateEdited
    <3>4. op.change[s].receipt = TRUE
      BY <1>1, <2>2 DEF Operation, Writes
    <3> QED
      BY <3>1, <3>2, <3>3, <3>4
  <2>4. /\ r.expected \in Word /\ r.original \in Word /\ r.original # r.expected
        /\ r = [original |-> r.original, expected |-> r.expected]
    BY <1>1, <2>2 DEF Kept, Receipt
  <2>5. w \in Writes
    BY <1>1, <2>4, WritesTyped DEF Writes, RegState
  <2>6. Sound(w)
    <3>1. Overriding(w, v, r.expected)
      BY <2>2, <2>4 DEF Overriding
    <3> QED
      BY <1>1, <2>4, <3>1 DEF Sound
  <2>7. value' = [value EXCEPT ![s] = r.expected] /\ UNCHANGED <<receipt, user>>
    BY <2>1 DEF Wrote
  <2>8. Kept(s)'
    BY <1>1, <2>2, <2>4, <2>7 DEF Kept, Owned, Inv, TypeOK
  <2> HIDE DEF w, r
  <2>9. /\ new.next = Over /\ op' = [op EXCEPT !.change = [op.change EXCEPT ![s] = w],
                                              !.phase = IF Over = Over THEN 0 ELSE Over,
                                              !.todo = IF Over = Over THEN Tail(@) ELSE @]
    BY <2>1, <2>3 DEF Wrote
  <2>10. pending' = Keep([op.change EXCEPT ![s] = w]) /\ UNCHANGED <<user, ops>>
    BY <2>3 DEF Wrote
  <2>11. value' \in [Settings -> Word] /\ receipt' \in [Settings -> Receipt]
    BY <2>4, <2>7 DEF Inv, TypeOK
  <2>12. \A q \in Settings \ {s} : value'[q] = value[q] /\ receipt'[q] = receipt[q]
    BY <2>7 DEF Inv, TypeOK
  <2> QED
    BY <2>5, <2>6, <2>8, <2>9, <2>10, <2>11, <2>12, WriteKeeps
<1> QED
  BY <1>2, <1>3

LEMMA RestoresInv ==
  ASSUME Inv, op # Idle, op.todo # << >>, NEW s \in Settings, s = Head(op.todo),
         op.kind \notin {"optimize", "disable", "rollback"}, NEW new \in RestoreWrites(s),
         Wrote(s, new, Recorded(s, op.change[s], new))
  PROVE  Inv'
<1> DEFINE v == value[s]
           r == receipt[s]
<1>1. op \in Operation /\ Operating /\ AtHead(s) /\ Kept(s) /\ v \in Word /\ r \in Receipt
  BY DEF Inv, TypeOK, Operating
<1>2. r # NoReceipt
  BY DEF RestoreWrites
<1>3. /\ r.expected \in Word /\ r.original \in Word /\ r.original # r.expected
      /\ r = [original |-> r.original, expected |-> r.expected]
  BY <1>1, <1>2 DEF Kept, Receipt
\* First the value, if it is still DezirClip's, ...
<1>4. CASE op.phase = 0 /\ Replaces(s)
  <2> DEFINE w == [before |-> [value |-> r.expected, receipt |-> r],
                   expected |-> [value |-> r.original, receipt |-> r], value |-> TRUE, receipt |-> FALSE]
  <2>1. /\ v = r.expected
        /\ new = [what |-> "value", new |-> r.original, next |-> 1]
    BY <1>2, <1>4 DEF RestoreWrites, Write, Replaces, Owned
  <2>2. op.change[s] = NoWrites
    BY <1>1, <1>4 DEF AtHead
  <2>3. Recorded(s, op.change[s], new) = w
    <3>1. Recorded(s, NoWrites, new)
          = [before |-> [State(s) EXCEPT !.value = v], expected |-> [State(s) EXCEPT !.value = r.original],
             value |-> TRUE, receipt |-> FALSE]
      BY <2>1 DEF Recorded, NoWrites
    <3>2. [State(s) EXCEPT !.value = v] = [value |-> v, receipt |-> r]
      BY StateEdited
    <3>3. [State(s) EXCEPT !.value = r.original] = [value |-> r.original, receipt |-> r]
      BY StateEdited
    <3> QED
      BY <2>1, <2>2, <3>1, <3>2, <3>3
  <2>4. w \in Writes /\ w # NoWrites
    BY <1>1, <1>3 DEF Writes, RegState, NoWrites
  <2>5. Sound(w)
    <3>1. Restoring(w, r.original, r.expected)
      BY <1>2, <1>3 DEF Restoring
    <3> QED
      BY <1>3, <3>1 DEF Sound
  <2>6. value' = [value EXCEPT ![s] = r.original] /\ UNCHANGED <<receipt, user>>
    BY <2>1 DEF Wrote
  <2>7. Kept(s)'
    BY <1>1, <1>2, <1>3, <2>1, <2>6 DEF Kept, Owned, Inv, TypeOK
  <2> HIDE DEF w
  <2>8. /\ new.next = 1 /\ op' = [op EXCEPT !.change = [op.change EXCEPT ![s] = w],
                                           !.phase = IF 1 = Over THEN 0 ELSE 1,
                                           !.todo = IF 1 = Over THEN Tail(@) ELSE @]
    BY <2>1, <2>3 DEF Wrote
  <2>9. op'.kind = op.kind /\ op'.phase = 1 /\ op'.change[s] = w
    BY <1>1, <2>8 DEF Operation, Over
  <2>10. AtHead(s)'
    <3>1. receipt'[s] = r /\ value'[s] = r.original
      BY <2>6 DEF Inv, TypeOK
    <3>2. ~Applies'
      BY <2>9 DEF Applies
    <3>3. /\ w.before = [value |-> r.expected, receipt |-> r]
          /\ w.expected = [value |-> r.original, receipt |-> r] /\ w.value /\ ~w.receipt
      BY DEF w
    <3>4. State(s)' = w.expected
      BY <3>1, <3>3 DEF State
    <3> QED
      BY <1>2, <2>4, <2>9, <3>1, <3>2, <3>3, <3>4 DEF AtHead
  <2>11. pending' = Keep([op.change EXCEPT ![s] = w]) /\ UNCHANGED <<user, ops>>
    BY <2>3 DEF Wrote
  <2>12. value' \in [Settings -> Word] /\ receipt' \in [Settings -> Receipt]
    BY <1>3, <2>6 DEF Inv, TypeOK
  <2>13. \A q \in Settings \ {s} : value'[q] = value[q] /\ receipt'[q] = receipt[q]
    BY <2>6 DEF Inv, TypeOK
  <2> QED
    BY <2>4, <2>5, <2>7, <2>8, <2>10, <2>11, <2>12, <2>13, WriteKeeps
\* ... then the receipt, which nothing depends on any more.
<1>5. CASE ~(op.phase = 0 /\ Replaces(s))
  <2> DEFINE b == IF op.phase = 0 THEN v ELSE r.expected
             w == [before |-> [value |-> b, receipt |-> r],
                   expected |-> [value |-> v, receipt |-> NoReceipt],
                   value |-> op.phase # 0, receipt |-> TRUE]
  <2>1. new = [what |-> "receipt", new |-> NoReceipt, next |-> Over]
    BY <1>2, <1>5 DEF RestoreWrites, Write
  <2>2. op.phase = 0 => op.change[s] = NoWrites
    BY <1>1 DEF AtHead
  <2>3. op.phase # 0 =>
          LET c == op.change[s] IN
          /\ v = r.original /\ c.expected = State(s) /\ c # NoWrites
          /\ c.before = [value |-> r.expected, receipt |-> r] /\ c.value /\ ~c.receipt
    BY <1>1 DEF AtHead, Applies
  <2>4. Recorded(s, op.change[s], new) = w
    <3>1. CASE op.phase = 0
      <4>1. Recorded(s, NoWrites, new)
            = [before |-> [State(s) EXCEPT !.receipt = r], expected |-> [State(s) EXCEPT !.receipt = NoReceipt],
               value |-> FALSE, receipt |-> TRUE]
        BY <2>1 DEF Recorded, NoWrites
      <4>2. [State(s) EXCEPT !.receipt = r] = [value |-> b, receipt |-> r]
        BY <3>1, StateEdited
      <4>3. [State(s) EXCEPT !.receipt = NoReceipt] = [value |-> v, receipt |-> NoReceipt]
        BY StateEdited
      <4> QED
        BY <2>2, <3>1, <4>1, <4>2, <4>3
    <3>2. CASE op.phase # 0
      <4>1. Recorded(s, op.change[s], new)
            = [before |-> [op.change[s].before EXCEPT !.receipt = r],
               expected |-> [State(s) EXCEPT !.receipt = NoReceipt],
               value |-> op.change[s].value, receipt |-> TRUE]
        BY <2>1, <2>3, <3>2 DEF Recorded
      <4>2. [op.change[s].before EXCEPT !.receipt = r] = [value |-> b, receipt |-> r]
        BY <2>3, <3>2, PairEdited
      <4>3. [State(s) EXCEPT !.receipt = NoReceipt] = [value |-> v, receipt |-> NoReceipt]
        BY StateEdited
      <4>4. op.change[s].value = (op.phase # 0)
        BY <1>1, <2>3, <3>2 DEF Operation, Writes
      <4> QED
        BY <4>1, <4>2, <4>3, <4>4
    <3> QED
      BY <3>1, <3>2
  <2>5. w \in Writes
    BY <1>1, <1>3, WritesTyped DEF Writes, RegState
  \* At the first write the value is not DezirClip's, at the second it is not any more.
  <2>6. v = user[s]
    BY <1>1, <1>3, <1>5, <2>3 DEF Kept, Owned, Replaces
  <2>7. Sound(w)
    <3>1. CASE op.phase = 0
      <4>1. Removing(w, v, r.original, r.expected)
        BY <1>1, <1>2, <1>3, <2>6, <3>1 DEF Removing, Kept
      <4> QED
        BY <1>1, <1>3, <3>1, <4>1 DEF Sound
    <3>2. CASE op.phase # 0
      <4>1. Restoring(w, r.original, r.expected)
        BY <1>2, <1>3, <2>3, <3>2 DEF Restoring
      <4> QED
        BY <1>3, <3>2, <4>1 DEF Sound
    <3> QED
      BY <3>1, <3>2
  <2>8. receipt' = [receipt EXCEPT ![s] = NoReceipt] /\ UNCHANGED <<value, user>>
    BY <2>1 DEF Wrote
  <2>9. Kept(s)'
    BY <2>6, <2>8 DEF Kept, Owned, Inv, TypeOK
  <2> HIDE DEF w
  <2>10. /\ new.next = Over /\ op' = [op EXCEPT !.change = [op.change EXCEPT ![s] = w],
                                               !.phase = IF Over = Over THEN 0 ELSE Over,
                                               !.todo = IF Over = Over THEN Tail(@) ELSE @]
    BY <2>1, <2>4 DEF Wrote
  <2>11. pending' = Keep([op.change EXCEPT ![s] = w]) /\ UNCHANGED <<user, ops>>
    BY <2>4 DEF Wrote
  <2>12. value' \in [Settings -> Word] /\ receipt' \in [Settings -> Receipt]
    BY <2>8, WritesTyped DEF Inv, TypeOK
  <2>13. \A q \in Settings \ {s} : value'[q] = value[q] /\ receipt'[q] = receipt[q]
    BY <2>8 DEF Inv, TypeOK
  <2> QED
    BY <2>5, <2>7, <2>9, <2>10, <2>11, <2>12, <2>13, WriteKeeps
<1> QED
  BY <1>4, <1>5

LEMMA NotesValue ==
  ASSUME NEW c \in Writes, NEW new, new.what = "value", new.new \in Word
  PROVE  /\ Noted(c, new) \in Writes
         /\ Noted(c, new).before = c.before /\ Noted(c, new).value = c.value
         /\ Noted(c, new).receipt = c.receipt
         /\ Noted(c, new).expected = [value |-> new.new, receipt |-> c.expected.receipt]
  BY DEF Noted, Writes, RegState

LEMMA NotesReceipt ==
  ASSUME NEW c \in Writes, NEW new, new.what = "receipt", new.new \in Receipt
  PROVE  /\ Noted(c, new) \in Writes
         /\ Noted(c, new).before = c.before /\ Noted(c, new).value = c.value
         /\ Noted(c, new).receipt = c.receipt
         /\ Noted(c, new).expected = [value |-> c.expected.value, receipt |-> new.new]
  BY DEF Noted, Writes, RegState

\* One step back from where the change is, which is where the registry is.
LEMMA RollsBackInv ==
  ASSUME Inv, op # Idle, op.todo # << >>, NEW s \in Settings, s = Head(op.todo),
         op.kind = "rollback", NEW new \in RollbackWrites(s), Wrote(s, new, Noted(op.change[s], new))
  PROVE  Inv'
<1> DEFINE c == op.change[s]
           back == c.value /\ c.before.value # c.expected.value
           old == c.receipt /\ c.before.receipt # NoReceipt /\ c.before.receipt # c.expected.receipt
           w == Noted(c, new)
<1>1. /\ op \in Operation /\ Operating /\ AtHead(s) /\ Kept(s) /\ value[s] \in Word /\ receipt[s] \in Receipt
      /\ c \in Writes /\ Sound(c) /\ op.phase \in {0, 1, 2}
  BY DEF Inv, TypeOK, Operating, Operation
<1>2. c # NoWrites /\ c.before # c.expected /\ State(s) = c.expected
  BY <1>1 DEF RollbackWrites, AtHead, Untouched
<1>3. value[s] = c.expected.value /\ receipt[s] = c.expected.receipt
  BY <1>2 DEF State
<1>4. /\ c.before.value \in Word /\ c.before.receipt \in Receipt
      /\ c.expected.value \in Word /\ c.expected.receipt \in Receipt
      /\ c.expected.value # c.before.value => c.value
      /\ c.expected.receipt # c.before.receipt => c.receipt
  BY <1>1, <1>2 DEF Writes, RegState, Sound
<1>5. PICK v, o, e \in Word : Overriding(c, v, e) \/ Restoring(c, o, e) \/ Removing(c, v, o, e)
  BY <1>1, <1>2 DEF Sound
<1>6. \/ op.phase = 0 /\ old /\ new = [what |-> "receipt", new |-> c.before.receipt, next |-> 1]
      \/ /\ op.phase <= 1 /\ ~(op.phase = 0 /\ old) /\ back
         /\ new = [what |-> "value", new |-> c.before.value, next |-> 2]
      \/ /\ ~(op.phase = 0 /\ old) /\ ~(op.phase <= 1 /\ back)
         /\ c.receipt /\ c.before.receipt = NoReceipt /\ c.before.receipt # c.expected.receipt
         /\ new = [what |-> "receipt", new |-> NoReceipt, next |-> Over]
  BY <1>2 DEF RollbackWrites, Write
<1> HIDE DEF c, w
\* Whichever it is, it follows from these.
<1>7. ASSUME w \in Writes, Sound(w), Kept(s)', new.next \in {1, 2, Over},
             new.what = "value" => new.new \in Word, new.what # "value" => new.new \in Receipt,
             new.next # Over =>
               /\ State(s)' = w.expected /\ w # NoWrites
               /\ w.before.receipt = NoReceipt \/ w.expected.receipt = w.before.receipt
               /\ new.next = 2 => w.expected.value = w.before.value
      PROVE  Inv'
  <2>1. op' = [op EXCEPT !.change = [op.change EXCEPT ![s] = w],
                         !.phase = IF new.next = Over THEN 0 ELSE new.next,
                         !.todo = IF new.next = Over THEN Tail(@) ELSE @]
    BY DEF w, c, Wrote
  <2>2. pending' = Keep([op.change EXCEPT ![s] = w]) /\ UNCHANGED <<user, ops>>
    BY DEF w, c, Wrote
  <2>3. /\ value' \in [Settings -> Word] /\ receipt' \in [Settings -> Receipt]
        /\ \A q \in Settings \ {s} : value'[q] = value[q] /\ receipt'[q] = receipt[q]
    BY <1>7 DEF Wrote, Inv, TypeOK
  <2>4. op'.kind = op.kind /\ op'.change[s] = w /\ (new.next # Over => op'.phase = new.next)
    BY <1>1, <2>1 DEF Operation
  <2>5. new.next # Over => AtHead(s)'
    BY <1>7, <2>4 DEF AtHead
  <2> QED
    BY <1>7, <2>1, <2>2, <2>3, <2>5, WriteKeeps
<1>8. CASE op.phase = 0 /\ old /\ new = [what |-> "receipt", new |-> c.before.receipt, next |-> 1]
  <2>1. /\ w \in Writes /\ w.before = c.before /\ w.value = c.value /\ w.receipt = c.receipt
        /\ w.expected = [value |-> c.expected.value, receipt |-> c.before.receipt]
    <3>1. new.what = "receipt" /\ new.new = c.before.receipt /\ new.new \in Receipt
      BY <1>4, <1>8
    <3> QED
      BY <1>1, <3>1, NotesReceipt DEF w
  <2>2. receipt' = [receipt EXCEPT ![s] = c.before.receipt] /\ UNCHANGED <<value, user>>
    BY <1>8 DEF Wrote
  <2>3. Restoring(c, o, e) \/ Removing(c, v, o, e)
    BY <1>5, <1>8 DEF Overriding
  <2>4. \E x \in Word : /\ x # e /\ c.expected = [value |-> x, receipt |-> NoReceipt]
                        /\ c.before.receipt = [original |-> o, expected |-> e] /\ o # e
    BY <1>5, <1>8, <2>3 DEF Restoring, Removing
  <2>5. Restoring(w, o, e) \/ Removing(w, v, o, e)
    BY <1>8, <2>1, <2>3 DEF Restoring, Removing
  <2>6. Sound(w)
    BY <1>4, <2>1, <2>5 DEF Sound
  <2>7. value[s] = user[s] /\ value[s] # e
    BY <1>1, <1>3, <2>4 DEF Kept, Owned
  <2>8. Kept(s)'
    BY <2>2, <2>4, <2>7 DEF Kept, Owned, Inv, TypeOK
  <2>9. State(s)' = w.expected
    BY <1>3, <2>1, <2>2 DEF State, Inv, TypeOK
  <2>10. w # NoWrites
    <3>1. NoWrites.receipt = FALSE
      BY DEF NoWrites
    <3> QED
      BY <1>8, <2>1, <3>1
  <2> QED
    BY <1>4, <1>7, <1>8, <2>1, <2>6, <2>8, <2>9, <2>10
<1>9. CASE /\ op.phase <= 1 /\ ~(op.phase = 0 /\ old) /\ back
           /\ new = [what |-> "value", new |-> c.before.value, next |-> 2]
  <2>1. /\ w \in Writes /\ w.before = c.before /\ w.value = c.value /\ w.receipt = c.receipt
        /\ w.expected = [value |-> c.before.value, receipt |-> c.expected.receipt]
    <3>1. new.what = "value" /\ new.new = c.before.value /\ new.new \in Word
      BY <1>4, <1>9
    <3> QED
      BY <1>1, <3>1, NotesValue DEF w
  <2>2. value' = [value EXCEPT ![s] = c.before.value] /\ UNCHANGED <<receipt, user>>
    BY <1>9 DEF Wrote
  <2>3. Overriding(c, v, e) \/ Restoring(c, o, e)
    BY <1>5, <1>9 DEF Removing
  <2>4. c.before.receipt = NoReceipt \/ c.expected.receipt = c.before.receipt
    BY <1>1, <1>4, <1>9 DEF AtHead, c
  <2>5. CASE Overriding(c, v, e)
    <3>1. /\ v # e /\ c.before = [value |-> v, receipt |-> NoReceipt]
          /\ c.expected = [value |-> e, receipt |-> [original |-> v, expected |-> e]]
      BY <1>9, <2>5 DEF Overriding
    <3>2. Overriding(w, v, e)
      BY <2>1, <2>5, <3>1 DEF Overriding
    <3>3. user[s] = v
      BY <1>1, <1>3, <2>5, <3>1 DEF Kept, Owned, Overriding
    <3>4. Kept(s)'
      BY <1>1, <1>3, <2>2, <3>1, <3>3 DEF Kept, Owned, Inv, TypeOK
    <3>5. Sound(w)
      BY <1>4, <2>1, <3>2 DEF Sound
    <3>6. State(s)' = w.expected
      BY <1>3, <2>1, <2>2 DEF State, Inv, TypeOK
    <3>7. w # NoWrites
      <4>1. NoWrites.value = FALSE
        BY DEF NoWrites
      <4> QED
        BY <1>9, <2>1, <4>1
    <3> QED
      BY <1>4, <1>7, <1>9, <2>1, <3>1, <3>4, <3>5, <3>6, <3>7
  <2>6. CASE Restoring(c, o, e)
    <3>1. /\ o # e /\ c.before = [value |-> e, receipt |-> [original |-> o, expected |-> e]]
          /\ c.expected = [value |-> o, receipt |-> [original |-> o, expected |-> e]]
      BY <1>9, <2>4, <2>6 DEF Restoring
    <3>2. Restoring(w, o, e)
      BY <2>1, <2>6, <3>1 DEF Restoring
    <3>3. user[s] = o
      BY <1>1, <1>3, <2>6, <3>1 DEF Kept, Owned, Restoring
    <3>4. Kept(s)'
      BY <1>1, <1>3, <2>2, <2>6, <3>1, <3>3 DEF Kept, Owned, Inv, TypeOK, Restoring
    <3>5. Sound(w)
      BY <1>4, <2>1, <3>2 DEF Sound
    <3>6. State(s)' = w.expected
      BY <1>3, <2>1, <2>2 DEF State, Inv, TypeOK
    <3>7. w # NoWrites
      <4>1. NoWrites.value = FALSE
        BY DEF NoWrites
      <4> QED
        BY <1>9, <2>1, <4>1
    <3> QED
      BY <1>4, <1>7, <1>9, <2>1, <3>1, <3>4, <3>5, <3>6, <3>7
  <2> QED
    BY <2>3, <2>5, <2>6
<1>10. CASE /\ ~(op.phase = 0 /\ old) /\ ~(op.phase <= 1 /\ back)
            /\ c.receipt /\ c.before.receipt = NoReceipt /\ c.before.receipt # c.expected.receipt
            /\ new = [what |-> "receipt", new |-> NoReceipt, next |-> Over]
  <2>1. /\ w \in Writes /\ w.before = c.before /\ w.value = c.value /\ w.receipt = c.receipt
        /\ w.expected = [value |-> c.expected.value, receipt |-> NoReceipt]
    <3>1. new.what = "receipt" /\ new.new = NoReceipt /\ new.new \in Receipt
      BY <1>10, WritesTyped
    <3> QED
      BY <1>1, <3>1, NotesReceipt DEF w
  <2>2. receipt' = [receipt EXCEPT ![s] = NoReceipt] /\ UNCHANGED <<value, user>>
    BY <1>10 DEF Wrote
  <2>3. Overriding(c, v, e)
    BY <1>5, <1>10 DEF Restoring, Removing
  <2>4. c.expected.value = c.before.value
    <3>1. CASE op.phase = 2
      BY <1>1, <3>1 DEF AtHead, c
    <3>2. CASE op.phase <= 1
      BY <1>4, <1>10, <3>2
    <3> QED
      BY <1>1, <3>1, <3>2 DEF Operation
  <2>5. /\ v # e /\ c.before = [value |-> v, receipt |-> NoReceipt]
        /\ c.expected = [value |-> v, receipt |-> [original |-> v, expected |-> e]]
    BY <1>10, <2>3, <2>4 DEF Overriding
  <2>6. Overriding(w, v, e)
    BY <2>1, <2>3, <2>5 DEF Overriding
  <2>7. Sound(w)
    <3>1. w.expected.value = w.before.value /\ w.expected.receipt = w.before.receipt
      BY <1>10, <2>1, <2>4
    <3> QED
      BY <2>6, <3>1 DEF Sound
  <2>8. user[s] = v
    BY <1>1, <1>3, <2>5 DEF Kept, Owned
  <2>9. Kept(s)'
    BY <1>3, <2>2, <2>5, <2>8 DEF Kept, Owned, Inv, TypeOK
  <2> QED
    BY <1>7, <1>10, <2>1, <2>7, <2>9, WritesTyped
<1> QED
  BY <1>6, <1>8, <1>9, <1>10

LEMMA StepInv == ASSUME Inv, Step PROVE Inv'
<1> DEFINE s == Head(op.todo)
<1>1. /\ op # Idle /\ op.todo # << >> /\ s \in Settings
      /\ \E new \in Due : Wrote(s, new, IF op.kind = "rollback" THEN Noted(op.change[s], new)
                                        ELSE Recorded(s, op.change[s], new))
  BY StepWrote
<1>2. CASE op.kind = "rollback"
  BY <1>1, <1>2, RollsBackInv DEF Due
<1>3. CASE op.kind \in {"optimize", "disable"}
  BY <1>1, <1>3, AppliesInv DEF Due, Applies
<1>4. CASE op.kind \notin {"optimize", "disable", "rollback"}
  BY <1>1, <1>4, RestoresInv DEF Due, Applies
<1> QED
  BY <1>2, <1>3, <1>4

LEMMA NextInv == Inv /\ [Next]_vars => Inv'
<1> SUFFICES ASSUME Inv, [Next]_vars PROVE Inv'
  OBVIOUS
<1>1. CASE Step \/ NextSetting \/ Fail \/ Done
  BY <1>1, StepInv, NextSettingInv, FailInv, DoneInv
<1>2. ASSUME NEW by \in {"gui", "cli"},
             Die(by) \/ \E kind \in Kinds \ {"rollback"}, staged \in BOOLEAN : Start(kind, by, staged)
      PROVE  Inv'
  BY <1>2, DieInv, StartInv
<1>3. ASSUME NEW t \in DOMAIN pending, Confirm(t) \/ Rollback(t)
      PROVE  Inv'
  BY <1>3, ConfirmInv, RollbackInv
<1>4. ASSUME NEW s \in Settings, NEW v \in Values(s), Edit(s, v)
      PROVE  Inv'
  BY <1>4, EditInv
<1>5. CASE UNCHANGED vars
  BY <1>5 DEF vars, Inv, TypeOK, Kept, Owned, Operating, AtHead, State, Applies
<1> QED
  BY <1>1, <1>2, <1>3, <1>4, <1>5 DEF Next, Kinds

-----------------------------------------------------------------------------
\* What the user has set last is what the registry says, or what the receipt of an override
\* gives back, in every state: the receipt is written ahead of the value (apply_value), a
\* value that is not DezirClip's is left alone (restore_value), and a rollback puts a
\* receipt back before its value and takes one away after it (rollback_change).
THEOREM UserValueIsKept == Spec => []UserValueKept
<1>1. Inv => UserValueKept
  BY DEF Inv, Kept, UserValueKept
<1> QED
  BY InitInv, NextInv, <1>1, PTL DEF Spec

\* What is pending, what runs and what the registry holds stay well-formed.
THEOREM Typed == Spec => []TypeOK
<1>1. Inv => TypeOK
  BY DEF Inv
<1> QED
  BY InitInv, NextInv, <1>1, PTL DEF Spec

\* An owned value is never the user's own: what a restoration replaces is DezirClip's.
OwnedIsOurs == \A s \in Settings : Owned(s) => value[s] # user[s] /\ receipt[s].original = user[s]

\* RestoreWrites, with restore_value, never replaces what the user has written.
THEOREM OwnedIsAlwaysOurs == Spec => []OwnedIsOurs
<1>1. Inv => OwnedIsOurs
  BY DEF Inv, Kept, Owned, OwnedIsOurs
<1> QED
  BY InitInv, NextInv, <1>1, PTL DEF Spec

-----------------------------------------------------------------------------
\* What an operation gives back.  As long as nobody else writes, a change knows what it
\* found and what is there now, the journal knows it with the change, and a rollback
\* leaves each setting, in turn, as it was found.

\* What a change has written of a setting is what the registry holds, and what it found
\* there is what was there when it began.
Matches(change, from) ==
  \A s \in Settings :
    IF change[s] = NoWrites THEN State(s) = from[s]
    ELSE change[s].before = from[s] /\ change[s].expected = State(s)

Passed(s) == \A i \in 1 .. Len(op.todo) : op.todo[i] # s

\* The journal's entry is the one that is being rolled back.
OfToken ==
  op.kind = "rollback" /\ op.token # 0 /\ op.token \in DOMAIN pending =>
    /\ pending[op.token].from = op.from
    /\ pending[op.token].clean => op.clean

Returning ==
  /\ op.clean => Matches(op.change, op.from)
  /\ op.kind = "rollback" /\ op.clean => \A s \in Settings : Passed(s) => State(s) = op.from[s]
  /\ op.kind = "restore" => \A s \in Settings : Passed(s) => receipt[s] = NoReceipt
  /\ OfToken

Journal == \A t \in DOMAIN pending : pending[t].clean => Matches(pending[t].change, pending[t].from)

Returns == (op # Idle => Returning) /\ Journal

\* What is given back is everything: these two take every setting.
LEMMA TodoCovers ==
  ASSUME NEW kind \in {"restore", "rollback"}, NEW s \in Settings
  PROVE  \E i \in 1 .. Len(Todo(kind)) : Todo(kind)[i] = s
<1>1. Todo(kind) = Switches \o <<WinV>>
  BY DEF Todo
<1>2. Switches \in Seq(STRING)
  BY SettingsAssumption
<1>3. CASE s = WinV
  <2> DEFINE n == Len(Switches) + 1
  <2>1. n \in 1 .. Len(Switches \o <<WinV>>) /\ (Switches \o <<WinV>>)[n] = WinV
    BY <1>2 DEF WinV
  <2> QED
    BY <1>1, <1>3, <2>1
<1>4. CASE s # WinV
  <2>1. PICK i \in 1 .. Len(Switches) : Switches[i] = s
    BY <1>2, <1>4 DEF Settings
  <2>2. i \in 1 .. Len(Switches \o <<WinV>>) /\ (Switches \o <<WinV>>)[i] = s
    BY <1>2, <2>1 DEF WinV
  <2> QED
    BY <1>1, <2>2
<1> QED
  BY <1>3, <1>4

\* What a step leaves of everything but the setting it writes.
LEMMA WroteElse ==
  ASSUME op \in Operation, value \in [Settings -> Word], receipt \in [Settings -> Receipt],
         op.todo # << >>, NEW s \in Settings, NEW new, NEW w, Wrote(s, new, w)
  PROVE  /\ op'.kind = op.kind /\ op'.from = op.from /\ op'.clean = op.clean /\ op'.token = op.token
         /\ op'.change = [op.change EXCEPT ![s] = w]
         /\ op'.change[s] = w /\ \A q \in Settings \ {s} : op'.change[q] = op.change[q]
         /\ op'.todo = IF new.next = Over THEN Tail(op.todo) ELSE op.todo
         /\ \A q \in Settings \ {s} : State(q)' = State(q)
         /\ State(s)' = IF new.what = "value" THEN [value |-> new.new, receipt |-> receipt[s]]
                        ELSE [value |-> value[s], receipt |-> new.new]
<1>1. op' = [op EXCEPT !.change = [op.change EXCEPT ![s] = w],
                       !.phase = IF new.next = Over THEN 0 ELSE new.next,
                       !.todo = IF new.next = Over THEN Tail(@) ELSE @]
  BY DEF Wrote
<1>2. op.change \in [Settings -> Writes]
  BY DEF Operation
<1>3. /\ op'.kind = op.kind /\ op'.from = op.from /\ op'.clean = op.clean /\ op'.token = op.token
      /\ op'.change = [op.change EXCEPT ![s] = w]
      /\ op'.todo = IF new.next = Over THEN Tail(op.todo) ELSE op.todo
  BY <1>1 DEF Operation
<1>4. CASE new.what = "value"
  BY <1>2, <1>3, <1>4 DEF Wrote, State
<1>5. CASE new.what # "value"
  BY <1>2, <1>3, <1>5 DEF Wrote, State
<1> QED
  BY <1>4, <1>5

\* A setting is passed when it is taken off the list, and not before.
LEMMA PassedLater ==
  ASSUME op \in Operation, op.todo # << >>, Distinct(op.todo), NEW s, s = Head(op.todo), NEW q,
         op'.todo \in {op.todo, Tail(op.todo)}, Passed(q)'
  PROVE  /\ op'.todo = op.todo => Passed(q) /\ q # s
         /\ Passed(q) \/ q = s
<1>1. op.todo \in Seq(Settings)
  BY DEF Operation
<1>2. /\ s = op.todo[1] /\ 1 \in 1 .. Len(op.todo)
      /\ Len(Tail(op.todo)) = Len(op.todo) - 1
      /\ \A i \in 1 .. Len(Tail(op.todo)) : Tail(op.todo)[i] = op.todo[i + 1]
  BY <1>1, TailLeft
<1>3. CASE op'.todo = op.todo
  BY <1>2, <1>3 DEF Passed
<1>4. CASE op'.todo = Tail(op.todo) /\ op'.todo # op.todo
  <2> SUFFICES ASSUME q # s, NEW i \in 1 .. Len(op.todo) PROVE op.todo[i] # q
    BY <1>4 DEF Passed
  <2>1. CASE i = 1
    BY <1>2, <2>1
  <2>2. CASE i # 1
    <3>1. i - 1 \in 1 .. Len(Tail(op.todo)) /\ (i - 1) + 1 = i
      BY <1>1, <1>2, <2>2
    <3>2. Tail(op.todo)[i - 1] = op.todo[i]
      BY <1>2, <3>1
    <3> QED
      BY <1>4, <3>1, <3>2 DEF Passed
  <2> QED
    BY <2>1, <2>2
<1> QED
  BY <1>3, <1>4

-----------------------------------------------------------------------------
\* The steps

\* w is what was written of s, which was at from.
Since(s, w, from) ==
  /\ w \in Writes /\ from \in RegState /\ State(s) \in RegState
  /\ w = NoWrites => State(s) = from
  /\ w # NoWrites =>
       /\ w.before = from /\ w.expected = State(s)
       /\ w.expected.value # w.before.value => w.value
       /\ w.expected.receipt # w.before.receipt => w.receipt

\* The first write of each field notes what it replaces.
LEMMA RecordedMatches ==
  ASSUME NEW s, NEW w, NEW from, NEW new, Since(s, w, from)
  PROVE  /\ Recorded(s, w, new) # NoWrites
         /\ Recorded(s, w, new).before = from
         /\ Recorded(s, w, new).expected =
              IF new.what = "value" THEN [value |-> new.new, receipt |-> receipt[s]]
              ELSE [value |-> value[s], receipt |-> new.new]
<1> DEFINE was == IF w = NoWrites THEN State(s) ELSE w.before
           is == IF w = NoWrites THEN State(s) ELSE w.expected
<1>1. was = from /\ is = State(s)
  BY DEF Since
<1>2. w = NoWrites => ~w.value /\ ~w.receipt
  BY DEF NoWrites
<1>3. /\ ~w.value => from.value = value[s]
      /\ ~w.receipt => from.receipt = receipt[s]
  BY DEF State, Since
<1>4. /\ [from EXCEPT !.value = IF w.value THEN @ ELSE value[s]] = from
      /\ [from EXCEPT !.receipt = IF w.receipt THEN @ ELSE receipt[s]] = from
  BY <1>3 DEF RegState, Since
<1>5. /\ [is EXCEPT !.value = new.new] = [value |-> new.new, receipt |-> receipt[s]]
      /\ [is EXCEPT !.receipt = new.new] = [value |-> value[s], receipt |-> new.new]
  BY <1>1, StateEdited
<1> HIDE DEF was, is
<1>6. Recorded(s, w, new) =
        IF new.what = "value"
        THEN [before |-> [was EXCEPT !.value = IF w.value THEN @ ELSE value[s]],
              expected |-> [is EXCEPT !.value = new.new], value |-> TRUE, receipt |-> w.receipt]
        ELSE [before |-> [was EXCEPT !.receipt = IF w.receipt THEN @ ELSE receipt[s]],
              expected |-> [is EXCEPT !.receipt = new.new], value |-> w.value, receipt |-> TRUE]
  BY DEF Recorded, was, is
<1>7. NoWrites.value = FALSE /\ NoWrites.receipt = FALSE
  BY DEF NoWrites
<1>8. CASE new.what = "value"
  BY <1>1, <1>4, <1>5, <1>6, <1>7, <1>8
<1>9. CASE new.what # "value"
  BY <1>1, <1>4, <1>5, <1>6, <1>7, <1>9
<1> QED
  BY <1>8, <1>9

\* The step of an operation keeps what its change and the journal say, whichever it is.
LEMMA WriteReturns ==
  ASSUME Inv, Returns, op # Idle, op.todo # << >>, NEW s \in Settings, s = Head(op.todo),
         NEW new, NEW w, Wrote(s, new, w), w # NoWrites,
         op.clean => w.before = op.from[s] /\ w.expected = State(s)',
         op.kind = "rollback" /\ op.clean /\ new.next = Over => State(s)' = op.from[s],
         op.kind = "restore" /\ new.next = Over => receipt'[s] = NoReceipt
  PROVE  Returns'
<1>1. /\ op \in Operation /\ Distinct(op.todo) /\ Returning /\ Journal
      /\ value \in [Settings -> Word] /\ receipt \in [Settings -> Receipt]
  BY DEF Inv, TypeOK, Operating, Returns
<1>2. /\ op'.kind = op.kind /\ op'.from = op.from /\ op'.clean = op.clean /\ op'.token = op.token
      /\ op'.change = [op.change EXCEPT ![s] = w]
      /\ op'.change[s] = w /\ \A q \in Settings \ {s} : op'.change[q] = op.change[q]
      /\ op'.todo = IF new.next = Over THEN Tail(op.todo) ELSE op.todo
      /\ \A q \in Settings \ {s} : State(q)' = State(q)
  BY <1>1, WroteElse
<1>3. op'.clean => Matches(op.change, op.from)'
  <2> SUFFICES ASSUME op.clean, NEW q \in Settings
               PROVE  IF op'.change[q] = NoWrites THEN State(q)' = op.from[q]
                      ELSE op'.change[q].before = op.from[q] /\ op'.change[q].expected = State(q)'
    BY <1>2 DEF Matches
  <2>1. CASE q = s
    BY <1>2, <2>1
  <2>2. CASE q # s
    BY <1>1, <1>2, <2>2 DEF Returning, Matches
  <2> QED
    BY <2>1, <2>2
<1>4. \A q \in Settings : Passed(q)' => (Passed(q) /\ q # s) \/ (q = s /\ new.next = Over)
  <2> SUFFICES ASSUME NEW q \in Settings, Passed(q)'
               PROVE  (Passed(q) /\ q # s) \/ (q = s /\ new.next = Over)
    OBVIOUS
  <2>1. /\ op'.todo \in {op.todo, Tail(op.todo)}
        /\ new.next # Over => op'.todo = op.todo
    BY <1>2
  <2> QED
    BY <1>1, <2>1, PassedLater
<1>5. op'.kind = "rollback" /\ op'.clean => \A q \in Settings : Passed(q)' => State(q)' = op'.from[q]
  BY <1>1, <1>2, <1>4 DEF Returning
<1>6. op'.kind = "restore" => \A q \in Settings : Passed(q)' => receipt'[q] = NoReceipt
  <2> SUFFICES ASSUME op.kind = "restore", NEW q \in Settings, Passed(q)' PROVE receipt'[q] = NoReceipt
    BY <1>2
  <2>1. CASE q # s
    <3>1. receipt[q] = NoReceipt /\ State(q)' = State(q)
      BY <1>1, <1>2, <1>4, <2>1 DEF Returning
    <3> QED
      BY <3>1 DEF State
  <2> QED
    BY <1>4, <2>1
<1> DEFINE change == [op.change EXCEPT ![s] = w]
<1>7. pending' = Keep(change)
  BY DEF Wrote
<1>8. ASSUME NEW t \in DOMAIN pending', pending'[t].clean
      PROVE  /\ op.kind = "rollback" /\ op.token # 0 /\ t = op.token /\ op.token \in DOMAIN pending
             /\ pending[t].clean
             /\ pending'[t].change = change /\ pending'[t].from = pending[t].from
  <2> HIDE DEF change
  <2>1. DOMAIN pending' = DOMAIN pending /\ \A u \in DOMAIN pending : pending[u] \in Change
    BY <1>7 DEF Keep, Inv, TypeOK
  <2>2. CASE op.kind = "rollback" /\ op.token # 0
    <3>1. pending'[t] = IF t = op.token THEN [pending[t] EXCEPT !.change = change]
                        ELSE [pending[t] EXCEPT !.clean = FALSE]
      BY <1>7, <1>8, <2>1, <2>2 DEF Keep
    <3> QED
      BY <1>8, <2>1, <2>2, <3>1 DEF Change
  <2>3. CASE ~(op.kind = "rollback" /\ op.token # 0)
    <3>1. pending'[t] = [pending[t] EXCEPT !.clean = FALSE]
      BY <1>7, <1>8, <2>1, <2>3 DEF Keep
    <3> QED
      BY <1>8, <2>1, <3>1 DEF Change
  <2> QED
    BY <2>2, <2>3
<1>9. DOMAIN pending' = DOMAIN pending
  BY <1>7 DEF Keep
<1>10. OfToken'
  <2> SUFFICES ASSUME op.kind = "rollback", op.token # 0, op.token \in DOMAIN pending
               PROVE  pending'[op.token].from = op.from /\ (pending'[op.token].clean => op.clean)
    BY <1>2, <1>9 DEF OfToken
  <2>1. pending[op.token] \in Change
    BY DEF Inv, TypeOK
  <2>2. pending'[op.token] = [pending[op.token] EXCEPT !.change = change]
    BY <1>7 DEF Keep
  <2> HIDE DEF change
  <2>3. pending'[op.token].from = pending[op.token].from /\ pending'[op.token].clean = pending[op.token].clean
    BY <2>1, <2>2 DEF Change
  <2> QED
    BY <1>1, <2>3 DEF Returning, OfToken
<1>11. Journal'
  <2> SUFFICES ASSUME NEW t \in DOMAIN pending', pending'[t].clean
               PROVE  Matches(pending[t].change, pending[t].from)'
    BY DEF Journal, Matches
  <2>1. pending'[t].change = op'.change /\ pending'[t].from = op'.from /\ op'.clean
    BY <1>1, <1>2, <1>8 DEF Returning, OfToken
  <2> QED
    BY <1>3, <2>1 DEF Matches
<1>12. Returning'
  BY <1>3, <1>5, <1>6, <1>10 DEF Returning, Matches
<1> QED
  BY <1>11, <1>12 DEF Returns

\* A rollback's last write of a setting leaves what the change had found.
LEMMA RollsBackReturns ==
  ASSUME Inv, Returns, op # Idle, op.todo # << >>, NEW s \in Settings, s = Head(op.todo),
         op.kind = "rollback", NEW new \in RollbackWrites(s), Wrote(s, new, Noted(op.change[s], new))
  PROVE  Returns'
<1> DEFINE c == op.change[s]
           w == Noted(c, new)
<1>1. /\ op \in Operation /\ AtHead(s) /\ Returning /\ c \in Writes /\ Sound(c)
      /\ value \in [Settings -> Word] /\ receipt \in [Settings -> Receipt]
      /\ op.phase \in {0, 1, 2}
  BY DEF Inv, TypeOK, Operating, Operation, Returns
<1>2. c # NoWrites /\ c.before # c.expected /\ State(s) = c.expected
  BY <1>1 DEF RollbackWrites, AtHead, Untouched
<1>3. value[s] = c.expected.value /\ receipt[s] = c.expected.receipt
  BY <1>2 DEF State
<1>4. /\ c.before \in RegState /\ c.expected \in RegState
      /\ c.expected.value # c.before.value => c.value
      /\ c.expected.receipt # c.before.receipt => c.receipt
  BY <1>1, <1>2 DEF Writes, Sound
<1>5. \/ /\ new.what = "receipt" /\ new.new = c.before.receipt /\ new.next = 1
      \/ /\ new.what = "value" /\ new.new = c.before.value /\ new.next = 2
      \/ /\ new.what = "receipt" /\ new.new = NoReceipt /\ new.next = Over
         /\ c.before.receipt = NoReceipt /\ c.expected.value = c.before.value
  <2>1. \/ new = [what |-> "receipt", new |-> c.before.receipt, next |-> 1]
        \/ new = [what |-> "value", new |-> c.before.value, next |-> 2]
        \/ /\ new = [what |-> "receipt", new |-> NoReceipt, next |-> Over]
           /\ c.before.receipt = NoReceipt
           /\ op.phase = 2 \/ c.expected.value = c.before.value
    <3> DEFINE was == c.receipt /\ c.before.receipt # NoReceipt /\ c.before.receipt # c.expected.receipt
               made == c.receipt /\ c.before.receipt = NoReceipt /\ c.before.receipt # c.expected.receipt
               back == c.value /\ c.before.value # c.expected.value
    <3>1. RollbackWrites(s) =
            IF op.phase = 0 /\ was THEN {[what |-> "receipt", new |-> c.before.receipt, next |-> 1]}
            ELSE IF op.phase <= 1 /\ back THEN {[what |-> "value", new |-> c.before.value, next |-> 2]}
            ELSE IF made THEN {[what |-> "receipt", new |-> NoReceipt, next |-> Over]} ELSE {}
      BY <1>2 DEF RollbackWrites, Write, Untouched
    <3>2. ~(op.phase <= 1 /\ back) => op.phase = 2 \/ c.expected.value = c.before.value
      BY <1>1, <1>4
    <3> QED
      BY <3>1, <3>2
  <2>2. op.phase = 2 => c.expected.value = c.before.value
    BY <1>1 DEF AtHead
  <2> QED
    BY <2>1, <2>2
<1>6. State(s)' = IF new.what = "value" THEN [value |-> new.new, receipt |-> receipt[s]]
                  ELSE [value |-> value[s], receipt |-> new.new]
  BY <1>1 DEF Wrote, State
<1>7. /\ w.before = c.before /\ w.expected = State(s)' /\ w.value = c.value /\ w.receipt = c.receipt
  <2>1. new.what = "value" => new.new \in Word
    BY <1>4, <1>5 DEF RegState
  <2>2. new.what = "receipt" => new.new \in Receipt
    BY <1>4, <1>5, WritesTyped DEF RegState
  <2>3. CASE new.what = "value"
    <3>1. /\ w.before = c.before /\ w.value = c.value /\ w.receipt = c.receipt
          /\ w.expected = [value |-> new.new, receipt |-> c.expected.receipt]
      BY <1>1, <2>1, <2>3, NotesValue
    <3> QED
      BY <1>3, <1>6, <2>3, <3>1
  <2>4. CASE new.what = "receipt"
    <3>1. /\ w.before = c.before /\ w.value = c.value /\ w.receipt = c.receipt
          /\ w.expected = [value |-> c.expected.value, receipt |-> new.new]
      BY <1>1, <2>2, <2>4, NotesReceipt
    <3> QED
      BY <1>3, <1>6, <2>4, <3>1
  <2> QED
    BY <1>5, <2>3, <2>4
<1>8. w # NoWrites
  <2>1. NoWrites.value = FALSE /\ NoWrites.receipt = FALSE
    BY DEF NoWrites
  <2>2. c.value \/ c.receipt
    <3>1. c.before.value # c.expected.value \/ c.before.receipt # c.expected.receipt
      BY <1>2, <1>4, StatesDiffer
    <3> QED
      BY <1>4, <3>1
  <2> QED
    BY <1>7, <2>1, <2>2
<1>9. op.clean => c.before = op.from[s]
  BY <1>1, <1>2 DEF Returning, Matches
<1>10. op.clean /\ new.next = Over => State(s)' = op.from[s]
  <2> SUFFICES ASSUME op.clean, new.next = Over PROVE State(s)' = op.from[s]
    OBVIOUS
  <2>1. /\ new.what = "receipt" /\ new.new = NoReceipt
        /\ c.before.receipt = NoReceipt /\ c.expected.value = c.before.value
    BY <1>5 DEF Over
  <2>2. State(s)' = [value |-> c.before.value, receipt |-> c.before.receipt]
    BY <1>3, <1>6, <2>1
  <2> QED
    BY <1>4, <1>9, <2>2 DEF RegState
<1> HIDE DEF c, w
<1> QED
  BY <1>7, <1>8, <1>9, <1>10, WriteReturns DEF w, c

LEMMA RecordsReturns ==
  ASSUME Inv, Returns, op # Idle, op.todo # << >>, NEW s \in Settings, s = Head(op.todo),
         op.kind # "rollback", NEW new \in Due,
         Wrote(s, new, Recorded(s, op.change[s], new))
  PROVE  Returns'
<1> DEFINE c == op.change[s]
           w == Recorded(s, c, new)
<1>1. /\ op \in Operation /\ Returning /\ c \in Writes /\ Sound(c)
      /\ op.from \in [Settings -> RegState] /\ State(s) \in RegState
      /\ value \in [Settings -> Word] /\ receipt \in [Settings -> Receipt]
  BY StateTyped DEF Inv, TypeOK, Operating, Operation, Returns
<1>2. State(s)' = IF new.what = "value" THEN [value |-> new.new, receipt |-> receipt[s]]
                  ELSE [value |-> value[s], receipt |-> new.new]
  BY <1>1 DEF Wrote, State
<1>3. w # NoWrites
  <2>1. NoWrites.value = FALSE /\ NoWrites.receipt = FALSE
    BY DEF NoWrites
  <2>2. (new.what = "value" /\ w.value = TRUE) \/ (new.what # "value" /\ w.receipt = TRUE)
    BY DEF Recorded
  <2> QED
    BY <2>1, <2>2
<1>4. op.clean => w.before = op.from[s] /\ w.expected = State(s)'
  <2> SUFFICES ASSUME op.clean PROVE w.before = op.from[s] /\ w.expected = State(s)'
    OBVIOUS
  <2>1. /\ c = NoWrites => State(s) = op.from[s]
        /\ c # NoWrites => c.before = op.from[s] /\ c.expected = State(s)
    BY <1>1 DEF Returning, Matches
  <2>2. c # NoWrites => /\ c.expected.value # c.before.value => c.value
                        /\ c.expected.receipt # c.before.receipt => c.receipt
    BY <1>1 DEF Sound
  <2>3. op.from[s] \in RegState /\ c \in Writes
    BY <1>1
  <2>4. Since(s, op.change[s], op.from[s])
    BY <1>1, <2>1, <2>2, <2>3 DEF Since
  <2>5. /\ w.before = op.from[s]
        /\ w.expected = IF new.what = "value" THEN [value |-> new.new, receipt |-> receipt[s]]
                        ELSE [value |-> value[s], receipt |-> new.new]
    BY <2>4, RecordedMatches
  <2> QED
    BY <1>2, <2>5
<1>5. op.kind = "restore" /\ new.next = Over => receipt'[s] = NoReceipt
  <2> SUFFICES ASSUME op.kind = "restore", new.next = Over PROVE receipt'[s] = NoReceipt
    OBVIOUS
  <2>1. new \in RestoreWrites(s)
    BY DEF Due, Applies
  <2>2. new = [what |-> "receipt", new |-> NoReceipt, next |-> Over]
    BY <2>1 DEF RestoreWrites, Write, Over
  <2> QED
    BY <1>1, <2>2 DEF Wrote
<1> HIDE DEF c, w
<1> QED
  BY <1>3, <1>4, <1>5, WriteReturns DEF w, c

LEMMA StepReturns == ASSUME Inv, Returns, Step PROVE Returns'
<1> DEFINE s == Head(op.todo)
<1>1. /\ op # Idle /\ op.todo # << >> /\ s \in Settings
      /\ \E new \in Due : Wrote(s, new, IF op.kind = "rollback" THEN Noted(op.change[s], new)
                                        ELSE Recorded(s, op.change[s], new))
  BY StepWrote
<1>2. CASE op.kind = "rollback"
  BY <1>1, <1>2, RollsBackReturns DEF Due
<1>3. CASE op.kind # "rollback"
  BY <1>1, <1>3, RecordsReturns
<1> QED
  BY <1>2, <1>3

\* There is nothing to do of a setting that is as it was, or has no receipt.
LEMMA NextSettingReturns == ASSUME Inv, Returns, NextSetting PROVE Returns'
<1> DEFINE s == Head(op.todo)
           c == op.change[s]
<1>1. /\ op # Idle /\ op \in Operation /\ op.todo # << >> /\ Distinct(op.todo) /\ Returning
      /\ op.todo \in Seq(Settings)
      /\ UNCHANGED <<value, receipt, pending>> /\ op' = [op EXCEPT !.todo = Tail(@), !.phase = 0]
      /\ Due = {}
  BY DEF Inv, TypeOK, NextSetting, Operating, Operation, Returns
<1>2. s \in Settings /\ AtHead(s) /\ c \in Writes /\ Sound(c) /\ op.phase \in {0, 1, 2}
  BY <1>1, TailLeft DEF Inv, Operating, Operation
<1>3. /\ op'.todo = Tail(op.todo) /\ op'.change = op.change /\ op'.kind = op.kind
      /\ op'.from = op.from /\ op'.clean = op.clean /\ op'.token = op.token
  BY <1>1 DEF Operation
<1>4. op.kind = "rollback" /\ op.clean => State(s) = op.from[s]
  <2> SUFFICES ASSUME op.kind = "rollback", op.clean, c # NoWrites PROVE State(s) = op.from[s]
    BY <1>1, <1>2 DEF Returning, Matches
  <2>1. c.before = op.from[s] /\ c.expected = State(s)
    BY <1>1, <1>2 DEF Returning, Matches
  <2>2. RollbackWrites(s) = {}
    BY <1>1 DEF Due
  <2>3. /\ c.before \in RegState /\ c.expected \in RegState
        /\ c.expected.value # c.before.value => c.value
        /\ c.expected.receipt # c.before.receipt => c.receipt
    BY <1>2 DEF Writes, Sound
  <2>4. /\ op.phase # 0 => c.before.receipt = NoReceipt \/ c.expected.receipt = c.before.receipt
        /\ op.phase = 2 => c.expected.value = c.before.value
    BY <1>2 DEF AtHead
  <2>5. CASE c.before # c.expected
    <3> DEFINE old == c.receipt /\ c.before.receipt # NoReceipt /\ c.before.receipt # c.expected.receipt
               new == c.receipt /\ c.before.receipt = NoReceipt /\ c.before.receipt # c.expected.receipt
               back == c.value /\ c.before.value # c.expected.value
    <3>1. ~(op.phase = 0 /\ old) /\ ~(op.phase <= 1 /\ back) /\ ~new
      BY <2>1, <2>2, <2>5 DEF RollbackWrites, Write, Untouched
    <3>2. c.expected.value = c.before.value
      <4>1. CASE op.phase = 2
        BY <2>4, <4>1
      <4>2. CASE op.phase <= 1
        BY <2>3, <3>1, <4>2
      <4> QED
        BY <1>2, <4>1, <4>2
    <3>3. c.expected.receipt = c.before.receipt
      BY <1>2, <2>3, <2>4, <3>1
    <3> QED
      BY <2>3, <2>5, <3>2, <3>3 DEF RegState
  <2> QED
    BY <2>1, <2>5
<1>5. op.kind = "restore" => receipt[s] = NoReceipt
  BY <1>1 DEF Due, Applies, RestoreWrites, Write
<1>6. \A q \in Settings : Passed(q)' => Passed(q) \/ q = s
  BY <1>1, <1>3, PassedLater
<1> HIDE DEF s, c
<1>7. \A q \in Settings : State(q)' = State(q)
  BY <1>1 DEF State
<1>8. Returning'
  BY <1>1, <1>3, <1>4, <1>5, <1>6, <1>7 DEF Returning, Matches, OfToken
<1> QED
  BY <1>1, <1>7, <1>8 DEF Returns, Journal, Matches

LEMMA StartReturns ==
  ASSUME Inv, Returns, NEW kind \in Kinds \ {"rollback"}, NEW by \in {"gui", "cli"},
         NEW staged \in BOOLEAN, Start(kind, by, staged)
  PROVE  Returns'
<1>1. /\ op' = Running(kind, by, staged, Unwritten, 0) /\ UNCHANGED <<value, receipt, pending>>
  BY DEF Start
<1>2. /\ op'.kind = kind /\ op'.change = Unwritten /\ op'.todo = Todo(kind)
      /\ op'.from = [s \in Settings |-> State(s)]
  BY <1>1 DEF Running
<1>3. \A s \in Settings : State(s)' = State(s)
  BY <1>1 DEF State
<1>4. Matches(op.change, op.from)'
  BY <1>2, <1>3 DEF Matches, Unwritten
<1>5. ASSUME kind = "restore", NEW s \in Settings PROVE ~Passed(s)'
  BY <1>2, <1>5, TodoCovers DEF Passed
<1>6. Returning'
  BY <1>2, <1>4, <1>5 DEF Returning, OfToken
<1> QED
  BY <1>1, <1>3, <1>6 DEF Returns, Journal, Matches

LEMMA ConfirmReturns == ASSUME Inv, Returns, NEW t \in DOMAIN pending, Confirm(t) PROVE Returns'
<1>1. op' = Idle /\ UNCHANGED <<value, receipt>> /\ pending' = [u \in DOMAIN pending \ {t} |-> pending[u]]
  BY DEF Confirm
<1>2. \A s \in Settings : State(s)' = State(s)
  BY <1>1 DEF State
<1> QED
  BY <1>1, <1>2 DEF Returns, Journal, Matches

\* A rollback begins with what the journal has of the change.
LEMMA RollbackReturns == ASSUME Inv, Returns, NEW t \in DOMAIN pending, Rollback(t) PROVE Returns'
<1>1. /\ op' = [Running("rollback", "gui", TRUE, pending[t].change, t)
                  EXCEPT !.from = pending[t].from, !.clean = pending[t].clean]
      /\ UNCHANGED <<value, receipt, pending>>
  BY DEF Rollback
<1>2. /\ op'.kind = "rollback" /\ op'.change = pending[t].change /\ op'.todo = Todo("rollback")
      /\ op'.from = pending[t].from /\ op'.clean = pending[t].clean /\ op'.token = t
  BY <1>1 DEF Running
<1>3. \A s \in Settings : State(s)' = State(s)
  BY <1>1 DEF State
<1>4. op'.clean => Matches(op.change, op.from)'
  <2>1. pending[t].clean => Matches(pending[t].change, pending[t].from)
    BY DEF Returns, Journal
  <2>2. /\ op'.change = pending[t].change /\ op'.from = pending[t].from
        /\ op'.clean = pending[t].clean
    BY <1>2
  <2> HIDE <1>2
  <2> QED
    BY <1>3, <2>1, <2>2 DEF Matches
<1>5. ASSUME NEW s \in Settings PROVE ~Passed(s)'
  BY <1>2, TodoCovers DEF Passed
<1>6. Returning'
  BY <1>1, <1>2, <1>4, <1>5 DEF Returning, OfToken
<1> QED
  BY <1>1, <1>3, <1>6 DEF Returns, Journal, Matches

LEMMA FailReturns == ASSUME Inv, Returns, Fail PROVE Returns'
<1>1. UNCHANGED <<value, receipt, pending>> /\ op # Idle /\ Returning
  BY DEF Fail, Returns
<1>2. \A s \in Settings : State(s)' = State(s)
  BY <1>1 DEF State
<1>3. CASE op.staged /\ op.kind # "rollback"
  <2>1. op' = [Running("rollback", op.by, FALSE, op.change, 0) EXCEPT !.from = op.from, !.clean = op.clean]
    BY <1>3 DEF Fail
  <2>2. /\ op'.kind = "rollback" /\ op'.change = op.change /\ op'.todo = Todo("rollback")
        /\ op'.from = op.from /\ op'.clean = op.clean /\ op'.token = 0
    BY <2>1 DEF Running
  <2>3. ASSUME NEW s \in Settings PROVE ~Passed(s)'
    BY <2>2, TodoCovers DEF Passed
  <2>4. Returning'
    BY <1>1, <1>2, <2>2, <2>3 DEF Returning, OfToken, Matches
  <2> QED
    BY <1>1, <1>2, <2>4 DEF Returns, Journal, Matches
<1>4. CASE ~(op.staged /\ op.kind # "rollback")
  <2>1. op' = Idle
    BY <1>4 DEF Fail
  <2> QED
    BY <1>1, <1>2, <2>1 DEF Returns, Journal, Matches
<1> QED
  BY <1>3, <1>4

LEMMA DoneReturns == ASSUME Inv, Returns, Done PROVE Returns'
<1>1. UNCHANGED <<value, receipt>> /\ op # Idle /\ op' = Idle /\ Returning
  BY DEF Done, Returns
<1>2. \A s \in Settings : State(s)' = State(s)
  BY <1>1 DEF State
<1>3. \A t \in DOMAIN pending' :
        \/ t \in DOMAIN pending /\ pending'[t] = pending[t]
        \/ pending'[t] = [change |-> op.change, from |-> op.from, clean |-> op.clean]
  BY DEF Done
<1>4. ASSUME NEW t \in DOMAIN pending', pending'[t].clean
      PROVE  Matches(pending[t].change, pending[t].from)'
  <2>1. CASE t \in DOMAIN pending /\ pending'[t] = pending[t]
    BY <1>2, <1>4, <2>1 DEF Returns, Journal, Matches
  <2>2. CASE pending'[t] = [change |-> op.change, from |-> op.from, clean |-> op.clean]
    BY <1>1, <1>2, <1>4, <2>2 DEF Returning, Matches
  <2> QED
    BY <1>3, <2>1, <2>2
<1> QED
  BY <1>1, <1>4 DEF Returns, Journal

LEMMA DieReturns == ASSUME Inv, Returns, NEW by \in {"gui", "cli"}, Die(by) PROVE Returns'
<1>1. /\ UNCHANGED <<value, receipt>> /\ op' \in {Idle, op}
      /\ pending' = pending \/ pending' = << >>
  BY DEF Die
<1>2. \A s \in Settings : State(s)' = State(s)
  BY <1>1 DEF State
<1>3. Journal'
  BY <1>1, <1>2 DEF Returns, Journal, Matches
<1>4. op' # Idle => Returning'
  BY <1>1, <1>2 DEF Returns, Returning, Matches, OfToken, Passed
<1> QED
  BY <1>3, <1>4 DEF Returns

\* Whoever's values the user has changed is no longer clean, and receipts are not the user's.
LEMMA EditReturns == ASSUME Inv, Returns, NEW s \in Settings, NEW v \in Values(s), Edit(s, v) PROVE Returns'
<1>1. /\ receipt' = receipt
      /\ op' = IF op = Idle THEN Idle ELSE [op EXCEPT !.clean = FALSE]
      /\ pending' = [t \in DOMAIN pending |-> [pending[t] EXCEPT !.clean = FALSE]]
  BY DEF Edit
<1>2. \A t \in DOMAIN pending : pending[t] \in Change
  BY DEF Inv, TypeOK
<1>3. /\ DOMAIN pending' = DOMAIN pending
      /\ \A t \in DOMAIN pending : ~pending'[t].clean /\ pending'[t].from = pending[t].from
  BY <1>1, <1>2 DEF Change
<1>4. ASSUME op' # Idle PROVE Returning'
  <2>1. /\ op # Idle /\ op \in Operation /\ op' = [op EXCEPT !.clean = FALSE] /\ Returning
    BY <1>1, <1>4 DEF Inv, TypeOK, Returns
  <2>2. /\ ~op'.clean /\ op'.kind = op.kind /\ op'.todo = op.todo /\ op'.token = op.token
        /\ op'.from = op.from
    BY <2>1 DEF Operation
  <2> QED
    BY <1>1, <1>3, <2>1, <2>2 DEF Returning, OfToken, Passed
<1> QED
  BY <1>3, <1>4 DEF Returns, Journal

LEMMA InitReturns == Init => Returns
  BY DEF Init, Returns, Journal

LEMMA NextReturns == Inv /\ Returns /\ [Next]_vars => Returns'
<1> SUFFICES ASSUME Inv, Returns, [Next]_vars PROVE Returns'
  OBVIOUS
<1>1. CASE Step \/ NextSetting \/ Fail \/ Done
  BY <1>1, StepReturns, NextSettingReturns, FailReturns, DoneReturns
<1>2. ASSUME NEW by \in {"gui", "cli"},
             Die(by) \/ \E kind \in Kinds \ {"rollback"}, staged \in BOOLEAN : Start(kind, by, staged)
      PROVE  Returns'
  BY <1>2, DieReturns, StartReturns
<1>3. ASSUME NEW t \in DOMAIN pending, Confirm(t) \/ Rollback(t)
      PROVE  Returns'
  BY <1>3, ConfirmReturns, RollbackReturns
<1>4. ASSUME NEW s \in Settings, NEW v \in Values(s), Edit(s, v)
      PROVE  Returns'
  BY <1>4, EditReturns
<1>5. CASE UNCHANGED vars
  <2>1. UNCHANGED <<value, receipt, op, pending>>
    BY <1>5 DEF vars
  <2> QED
    BY <2>1 DEF Returns, Returning, Journal, Matches, OfToken, Passed, State
<1> QED
  BY <1>1, <1>2, <1>3, <1>4, <1>5 DEF Next, Kinds

\* The step that ends an operation well is Done, with every setting passed.
LEMMA EndsGivenBack ==
  ASSUME Inv, Returns, faults \in Nat, [Next]_vars, op # Idle, op' = Idle, faults' = faults
  PROVE  /\ op.kind = "restore" => value = user /\ \A s \in Settings : receipt[s] = NoReceipt
         /\ op.kind = "rollback" /\ op.clean => [s \in Settings |-> State(s)] = op.from
<1>1. op \in Operation /\ Returning
  BY DEF Inv, TypeOK, Returns
<1>2. op.kind # "idle" /\ op'.kind = "idle"
  BY <1>1 DEF Operation, Kinds, Idle
<1>3. ~Step /\ ~NextSetting
  <2>1. ASSUME Step PROVE FALSE
    <3>1. op'.kind = op.kind
      BY <1>1, <2>1 DEF Step, Operation
    <3> QED
      BY <1>2, <3>1
  <2>2. ASSUME NextSetting PROVE FALSE
    <3>1. op'.kind = op.kind
      BY <1>1, <2>2 DEF NextSetting, Operation
    <3> QED
      BY <1>2, <3>1
  <2> QED
    BY <2>1, <2>2
<1>4. ~Fail /\ \A by \in {"gui", "cli"} : ~Die(by)
  BY DEF Fail, Die
<1>5. ASSUME NEW s \in Settings, NEW v \in Values(s), Edit(s, v) PROVE FALSE
  <2>1. op' = [op EXCEPT !.clean = FALSE]
    BY <1>5 DEF Edit
  <2>2. op'.kind = op.kind
    BY <1>1, <2>1 DEF Operation
  <2> QED
    BY <1>2, <2>2
<1>6. op.todo = << >>
  BY <1>3, <1>4, <1>5 DEF Next, Start, Confirm, Rollback, Done, vars
<1>7. \A s \in Settings : Passed(s)
  BY <1>6 DEF Passed
<1>8. ASSUME op.kind = "restore"
      PROVE  value = user /\ \A s \in Settings : receipt[s] = NoReceipt
  <2>1. \A s \in Settings : receipt[s] = NoReceipt
    BY <1>1, <1>7, <1>8 DEF Returning
  <2>2. \A s \in Settings : value[s] = user[s]
    BY <2>1 DEF Inv, Kept, Owned
  <2>3. value \in [Settings -> Word] /\ user \in [Settings -> Word]
    BY DEF Inv, TypeOK
  <2> QED
    BY <2>1, <2>2, <2>3
<1>9. ASSUME op.kind = "rollback", op.clean
      PROVE  [s \in Settings |-> State(s)] = op.from
  <2>1. op.from \in [Settings -> RegState]
    BY <1>1 DEF Operation
  <2>2. \A s \in Settings : State(s) = op.from[s]
    BY <1>1, <1>7, <1>9 DEF Returning
  <2> QED
    BY <2>1, <2>2
<1> QED
  BY <1>8, <1>9

LEMMA NextFaults == faults \in Nat /\ [Next]_vars => (faults \in Nat)'
<1>1. [Next]_vars => faults' = faults \/ faults' = faults + 1
  BY DEF Next, Step, NextSetting, Fail, Done, Die, Start, Confirm, Rollback, Edit, vars
<1> QED
  BY <1>1

\* What ends well has given back: a restoration leaves the user's own settings
\* (restore_all), a rollback nobody has written beside leaves values and receipts as they
\* were before the change (rollback_change), at once or after failures of its own.
THEOREM WhatEndsGivesBack == Spec => GivesBack
<1>1. Init => faults \in Nat
  BY DEF Init
<1>2. Inv /\ Returns /\ faults \in Nat /\ [Next]_vars =>
        [(op # Idle /\ op' = Idle /\ faults' = faults) =>
           /\ op.kind = "restore" => value = user /\ \A s \in Settings : receipt[s] = NoReceipt
           /\ op.kind = "rollback" /\ op.clean => [s \in Settings |-> State(s)] = op.from]_vars
  BY EndsGivenBack
<1> QED
  BY InitInv, NextInv, InitReturns, NextReturns, NextFaults, <1>1, <1>2, PTL DEF Spec, GivesBack

-----------------------------------------------------------------------------
(* The paste queue.                                                        *)

QueuePlaces == {"target", "prepare", "track", "copy", "check", "validate", "send", "consume",
                "complete", "finish", "drop", "over"}
Unsent == {"target", "prepare", "track", "copy", "check", "validate", "send"}
StepType ==
  [id : Ids, version : Nat, batch : Nat, epoch : Nat, at : QueuePlaces, sent : BOOLEAN,
   missing : BOOLEAN, last : BOOLEAN, void : BOOLEAN]

QueueTyped ==
  /\ items \in Seq(Ids) /\ version \in Nat /\ inFlight \in Nat /\ tracked \in BOOLEAN
  /\ steps \in Seq(StepType) /\ epoch \in Nat /\ batch \in Nat /\ moves \in Nat
  /\ store \subseteq Ids

\* What has happened to a step's queue since it began has moved the version, and what has
\* happened to the privacy state since it asked, the epoch.
Dated(step, v, e, b) ==
  /\ step.version <= v /\ step.epoch <= e
  /\ step.version = v => step.batch = b
  /\ step.void => \/ step.version < v
                  \/ step.at # "target" /\ step.epoch < e
\* The keystroke comes after the last look.
Ordered(step) ==
  /\ step.at \in Unsent => ~step.sent
  /\ step.at = "consume" => step.sent
  /\ (step.sent \/ step.at = "send") => ~step.void

QueueInv ==
  QueueTyped /\ \A s \in DOMAIN steps :
                  Dated(steps[s], version, epoch, batch) /\ Ordered(steps[s])

LEMMA StepsAreTyped ==
  ASSUME QueueInv, NEW s \in DOMAIN steps
  PROVE  /\ steps[s] \in StepType
         /\ steps[s].id \in Ids /\ steps[s].version \in Nat /\ steps[s].batch \in Nat
         /\ steps[s].epoch \in Nat /\ steps[s].at \in QueuePlaces /\ steps[s].sent \in BOOLEAN
         /\ steps[s].void \in BOOLEAN
<1>1. steps[s] \in StepType
  BY DEF QueueInv, QueueTyped
<1> QED BY <1>1 DEF StepType

LEMMA OneStepMoves ==
  ASSUME QueueInv, NEW s \in DOMAIN steps, NEW n \in StepType, steps' = [steps EXCEPT ![s] = n]
  PROVE  /\ steps' \in Seq(StepType) /\ DOMAIN steps' = DOMAIN steps
         /\ steps'[s] = n /\ \A u \in DOMAIN steps : u # s => steps'[u] = steps[u]
  BY DEF QueueInv, QueueTyped

\* What a step leaves of itself when it moves on.
Onward(s) ==
  /\ steps' \in Seq(StepType) /\ DOMAIN steps' = DOMAIN steps
  /\ \A u \in DOMAIN steps : u # s => steps'[u] = steps[u]
  /\ steps'[s].id = steps[s].id /\ steps'[s].version = steps[s].version
  /\ steps'[s].batch = steps[s].batch /\ steps'[s].void = steps[s].void

LEMMA Goes ==
  ASSUME QueueInv, NEW s \in DOMAIN steps, NEW place \in QueuePlaces, To(s, place)
  PROVE  /\ Onward(s) /\ steps'[s].epoch = steps[s].epoch /\ steps'[s].sent = steps[s].sent
         /\ steps'[s].at = place
<1> PICK old \in StepType : old = steps[s]
  BY StepsAreTyped
<1> DEFINE n == [old EXCEPT !.at = place]
<1>1. steps' = [steps EXCEPT ![s] = n]
  BY DEF To
<1>2. /\ n \in StepType /\ n.id = old.id /\ n.version = old.version /\ n.batch = old.batch
      /\ n.void = old.void /\ n.epoch = old.epoch /\ n.sent = old.sent /\ n.at = place
  BY Zenon DEF StepType
<1> HIDE DEF n
<1> QED BY <1>1, <1>2, OneStepMoves DEF Onward

\* The rest of the state, while a step moves on.
Around ==
  /\ items' \in Seq(Ids) /\ version' \in {version, version + 1} /\ inFlight' \in Nat
  /\ tracked' \in BOOLEAN /\ store' \subseteq Ids /\ UNCHANGED <<epoch, batch, moves>>

\* It asks once for the epoch, and keeps to the order.
InOrder(s) ==
  /\ \/ steps'[s].epoch = steps[s].epoch
     \/ steps[s].at = "target" /\ steps'[s].epoch = epoch
  /\ steps'[s].at # "target" /\ (steps'[s].at \in Unsent => ~steps'[s].sent)
  /\ steps'[s].at = "consume" => steps'[s].sent
  /\ steps'[s].sent \/ steps'[s].at = "send" => ~steps[s].void

LEMMA OnwardKeeps ==
  ASSUME QueueInv, NEW s \in DOMAIN steps, Onward(s), Around, InOrder(s)
  PROVE  QueueInv'
<1>1. QueueTyped'
  BY DEF QueueInv, QueueTyped, Onward, Around
<1>2. ASSUME NEW u \in DOMAIN steps
      PROVE  Dated(steps'[u], version', epoch', batch') /\ Ordered(steps'[u])
  <2>1. /\ version \in Nat /\ version' \in Nat /\ version <= version'
        /\ epoch \in Nat /\ epoch' = epoch /\ batch' = batch
    BY DEF QueueInv, QueueTyped, Around
  <2>2. /\ Dated(steps[u], version, epoch, batch) /\ Ordered(steps[u])
        /\ steps[u].version \in Nat /\ steps[u].epoch \in Nat
    BY StepsAreTyped DEF QueueInv
  <2>3. CASE u # s
    <3>1. steps'[u] = steps[u]
      BY <2>3 DEF Onward
    <3> QED BY <2>1, <2>2, <3>1 DEF Dated
  <2>4. CASE u = s
    <3> PICK n, old : n = steps'[s] /\ old = steps[s]
      OBVIOUS
    <3>1. n.version = old.version /\ n.batch = old.batch /\ n.void = old.void
      BY DEF Onward
    <3>2. /\ n.epoch = old.epoch \/ (old.at = "target" /\ n.epoch = epoch)
          /\ n.at # "target" /\ (n.at \in Unsent => ~n.sent) /\ (n.at = "consume" => n.sent)
          /\ (n.sent \/ n.at = "send" => ~old.void)
      BY DEF InOrder
    <3>3. Dated(n, version', epoch', batch')
      BY <2>1, <2>2, <2>4, <3>1, <3>2 DEF Dated
    <3>4. Ordered(n)
      BY <3>1, <3>2 DEF Ordered
    <3> QED BY <2>4, <3>3, <3>4
  <2> QED BY <2>3, <2>4
<1>3. DOMAIN steps' = DOMAIN steps
  BY DEF Onward
<1> QED BY <1>1, <1>2, <1>3 DEF QueueInv

\* Where the order is kept.
LEMMA Orders ==
  ASSUME QueueInv, NEW s \in DOMAIN steps
  PROVE  Ordered(steps[s])
  BY DEF QueueInv

LEMMA FailingKeeps ==
  ASSUME QueueInv, NEW s \in DOMAIN steps, FailStep(s), steps[s].at \in Unsent,
         items' \in Seq(Ids), UNCHANGED <<inFlight, store, epoch, batch, moves>>
  PROVE  QueueInv'
<1>1. Onward(s) /\ steps'[s].epoch = steps[s].epoch /\ steps'[s].sent = steps[s].sent
      /\ steps'[s].at = "drop"
  BY Goes DEF FailStep, QueuePlaces
<1>2. Around
  BY DEF FailStep, ResetTracking, Around, QueueInv, QueueTyped
<1>3. InOrder(s)
  BY <1>1, Orders DEF InOrder, Ordered, Unsent
<1> QED BY <1>1, <1>2, <1>3, OnwardKeeps

\* A step that goes on without a keystroke.
LEMMA GoingKeeps ==
  ASSUME QueueInv, NEW s \in DOMAIN steps, NEW place \in QueuePlaces \ {"target", "consume"},
         To(s, place), place \in Unsent => steps[s].at \in Unsent,
         place = "send" => ~steps[s].void,
         items' \in Seq(Ids), version' \in {version, version + 1}, tracked' \in BOOLEAN,
         inFlight' \in Nat, store' \subseteq Ids, UNCHANGED <<epoch, batch, moves>>
  PROVE  QueueInv'
<1>1. Onward(s) /\ steps'[s].epoch = steps[s].epoch /\ steps'[s].sent = steps[s].sent
      /\ steps'[s].at = place
  BY Goes
<1>2. Around
  BY DEF Around
<1>3. InOrder(s)
  BY <1>1, Orders DEF InOrder, Ordered
<1> QED BY <1>1, <1>2, <1>3, OnwardKeeps

LEMMA RestOfQueue ==
  ASSUME QueueInv, items # <<>>
  PROVE  Tail(items) \in Seq(Ids) /\ Len(Tail(items)) = Len(items) - 1
  BY HeadTailProperties DEF QueueInv, QueueTyped

LEMMA StepKeeps ==
  ASSUME QueueInv, NEW s \in DOMAIN steps, StepOf(s)
  PROVE  QueueInv'
<1> USE DEF QueuePlaces, Unsent
<1>0. QueueTyped
  BY DEF QueueInv
<1>1. CASE Target(s)
  <2>1. CASE steps' = [steps EXCEPT ![s].at = "prepare", ![s].epoch = epoch]
             /\ UNCHANGED <<version, tracked>>
    <3> PICK old \in StepType : old = steps[s]
      BY StepsAreTyped
    <3> DEFINE n == [old EXCEPT !.at = "prepare", !.epoch = epoch]
    <3>1. steps' = [steps EXCEPT ![s] = n]
      BY <2>1
    <3>2. /\ n \in StepType /\ n.id = old.id /\ n.version = old.version /\ n.batch = old.batch
          /\ n.void = old.void /\ n.epoch = epoch /\ n.sent = old.sent /\ n.at = "prepare"
      <4>1. "prepare" \in QueuePlaces /\ epoch \in Nat
        BY <1>0 DEF QueueTyped
      <4> HIDE DEF QueuePlaces
      <4> QED BY <4>1, Zenon DEF StepType
    <3> HIDE DEF n
    <3>3. Onward(s) /\ steps'[s] = n
      BY <3>1, <3>2, OneStepMoves DEF Onward
    <3>4. InOrder(s)
      BY <1>1, <3>2, <3>3, Orders DEF InOrder, Ordered, Target
    <3>5. Around
      BY <1>0, <1>1, <2>1 DEF Target, Around, QueueTyped
    <3> QED BY <3>3, <3>4, <3>5, OnwardKeeps
  <2>2. CASE FailStep(s)
    BY <1>0, <1>1, <2>2, FailingKeeps DEF Target, QueueTyped
  <2> QED BY <1>1, <2>1, <2>2 DEF Target
<1>2. CASE Prepare(s)
  <2>1. steps[s].at = "prepare" /\ UNCHANGED <<inFlight, store, epoch, batch, moves>>
    BY <1>2 DEF Prepare
  <2>2. ASSUME NEW place \in {"track", "drop"}, To(s, place),
               UNCHANGED <<items, version, tracked>>
        PROVE  QueueInv'
    BY <1>0, <2>1, <2>2, GoingKeeps DEF QueueTyped
  <2>3. CASE /\ steps' = [steps EXCEPT ![s].at = "drop", ![s].missing = TRUE]
             /\ IF Current(s) THEN items' = Tail(items) /\ ResetTracking
                              ELSE UNCHANGED <<items, version, tracked>>
    <3> PICK old \in StepType : old = steps[s]
      BY StepsAreTyped
    <3> DEFINE n == [old EXCEPT !.at = "drop", !.missing = TRUE]
    <3>1. steps' = [steps EXCEPT ![s] = n]
      BY <2>3
    <3>2. /\ n \in StepType /\ n.id = old.id /\ n.version = old.version /\ n.batch = old.batch
          /\ n.void = old.void /\ n.epoch = old.epoch /\ n.sent = old.sent /\ n.at = "drop"
      <4>1. "drop" \in QueuePlaces /\ TRUE \in BOOLEAN
        OBVIOUS
      <4> HIDE DEF QueuePlaces
      <4> QED BY <4>1, Zenon DEF StepType
    <3> HIDE DEF n
    <3>3. Onward(s) /\ steps'[s] = n
      BY <3>1, <3>2, OneStepMoves DEF Onward
    <3>4. InOrder(s)
      BY <2>1, <3>2, <3>3, Orders DEF InOrder, Ordered
    <3>5. Around
      BY <1>0, <2>1, <2>3, RestOfQueue DEF Current, ResetTracking, Around, QueueTyped
    <3> QED BY <3>3, <3>4, <3>5, OnwardKeeps
  <2>4. CASE FailStep(s) /\ UNCHANGED items
    BY <1>0, <2>1, <2>4, FailingKeeps DEF QueueTyped
  <2> QED BY <1>2, <2>2, <2>3, <2>4 DEF Prepare
<1>3. CASE Track(s)
  BY <1>0, <1>3, GoingKeeps DEF Track, QueueTyped
<1>4. ASSUME NEW place \in {"copy", "check"}, NEW next \in {"check", "validate"},
             Ask(s, place, next)
      PROVE  QueueInv'
  <2>1. CASE FailStep(s)
    BY <1>0, <1>4, <2>1, FailingKeeps DEF Ask, QueueTyped
  <2>2. CASE To(s, next) /\ UNCHANGED <<version, tracked>>
    BY <1>0, <1>4, <2>2, GoingKeeps DEF Ask, QueueTyped
  <2> QED BY <1>4, <2>1, <2>2 DEF Ask
<1>5. CASE Validate(s)
  <2>1. CASE Valid(s)
    <3>1. ~steps[s].void
      <4>1. Dated(steps[s], version, epoch, batch)
        BY DEF QueueInv
      <4>2. version = steps[s].version /\ epoch = steps[s].epoch /\ version \in Nat
            /\ epoch \in Nat
        BY <1>0, <2>1 DEF Valid, Current, QueueTyped
      <4> QED BY <4>1, <4>2 DEF Dated
    <3> QED BY <1>0, <1>5, <2>1, <3>1, GoingKeeps DEF Validate, QueueTyped
  <2>2. CASE FailStep(s)
    BY <1>0, <1>5, <2>2, FailingKeeps DEF Validate, QueueTyped
  <2> QED BY <1>5, <2>1, <2>2 DEF Validate
<1>6. CASE Send(s)
  <2>1. steps[s].at = "send" /\ UNCHANGED <<items, inFlight, store, epoch, batch, moves>>
    BY <1>6 DEF Send
  <2>2. ASSUME NEW place \in {"consume", "drop"}, version' \in {version, version + 1},
               tracked' \in BOOLEAN,
               steps' = [steps EXCEPT ![s].at = place, ![s].sent = TRUE]
        PROVE  QueueInv'
    <3> PICK old \in StepType : old = steps[s]
      BY StepsAreTyped
    <3> DEFINE n == [old EXCEPT !.at = place, !.sent = TRUE]
    <3>1. steps' = [steps EXCEPT ![s] = n]
      BY <2>2
    <3>2. /\ n \in StepType /\ n.id = old.id /\ n.version = old.version /\ n.batch = old.batch
          /\ n.void = old.void /\ n.epoch = old.epoch /\ n.sent = TRUE /\ n.at = place
      <4>1. place \in QueuePlaces /\ TRUE \in BOOLEAN
        OBVIOUS
      <4> HIDE DEF QueuePlaces
      <4> QED BY <4>1, Zenon DEF StepType
    <3> HIDE DEF n
    <3>3. Onward(s) /\ steps'[s] = n
      BY <3>1, <3>2, OneStepMoves DEF Onward
    <3>4. InOrder(s)
      BY <2>1, <3>2, <3>3, Orders DEF InOrder, Ordered
    <3>5. Around
      BY <1>0, <2>1, <2>2 DEF Around, QueueTyped
    <3> QED BY <3>3, <3>4, <3>5, OnwardKeeps
  <2>3. CASE FailStep(s)
    BY <1>0, <2>1, <2>3, FailingKeeps DEF QueueTyped
  <2> QED BY <1>0, <1>6, <2>2, <2>3 DEF Send, ResetTracking, QueueTyped
<1>7. CASE Consume(s)
  <2> PICK old \in StepType : old = steps[s]
    BY StepsAreTyped
  <2> PICK last \in BOOLEAN : last = (Current(s) /\ items' = <<>>)
    BY DEF Current
  <2> DEFINE n == [old EXCEPT !.at = "complete", !.last = last]
  <2>1. steps' = [steps EXCEPT ![s] = n]
    BY <1>7 DEF Consume
  <2>2. /\ n \in StepType /\ n.id = old.id /\ n.version = old.version /\ n.batch = old.batch
        /\ n.void = old.void /\ n.epoch = old.epoch /\ n.sent = old.sent /\ n.at = "complete"
    <3>1. "complete" \in QueuePlaces
      OBVIOUS
    <3> HIDE DEF QueuePlaces
    <3> QED BY <3>1, Zenon DEF StepType
  <2> HIDE DEF n
  <2>3. Onward(s) /\ steps'[s] = n
    BY <2>1, <2>2, OneStepMoves DEF Onward
  <2>4. InOrder(s)
    BY <2>2, <2>3, Orders DEF InOrder, Ordered
  <2>5. Around
    BY <1>0, <1>7, RestOfQueue DEF Consume, Current, Around, QueueTyped
  <2> QED BY <2>3, <2>4, <2>5, OnwardKeeps
<1>8. CASE Complete(s)
  BY <1>0, <1>8, GoingKeeps DEF Complete, QueueTyped
<1>9. CASE Finish(s)
  BY <1>0, <1>9, GoingKeeps DEF Finish, ResetTracking, QueueTyped
<1>10. CASE Drop(s)
  BY <1>0, <1>10, GoingKeeps DEF Drop, Release, QueueTyped
<1> QED
  BY <1>1, <1>2, <1>3, <1>4, <1>5, <1>6, <1>7, <1>8, <1>9, <1>10 DEF StepOf, Copy, Check

LEMMA QueuesAreLists == Queues \subseteq Seq(Ids)
<1> SUFFICES ASSUME NEW n \in 0 .. MaxItems, NEW q \in [1 .. n -> Ids] PROVE q \in Seq(Ids)
  BY DEF Queues
<1>1. n \in Nat
  BY QueueAssumption
<1> QED BY <1>1

LEMMA PressKeeps ==
  ASSUME QueueInv, Press
  PROVE  QueueInv'
<1>0. QueueTyped
  BY DEF QueueInv
<1>1. CASE items = <<>>
  <2>1. /\ tracked' = FALSE /\ version' = version + 1
        /\ UNCHANGED <<items, inFlight, steps, store, epoch, batch, moves>>
    BY <1>1 DEF Press, ResetTracking
  <2>3. QueueTyped'
    <3>1. tracked' \in BOOLEAN
      BY <2>1
    <3>2. version' \in Nat
      BY <1>0, <2>1 DEF QueueTyped
    <3> QED BY <1>0, <2>1, <3>1, <3>2 DEF QueueTyped
  <2>2. ASSUME NEW s \in DOMAIN steps
        PROVE  Dated(steps[s], version + 1, epoch, batch) /\ Ordered(steps[s])
    <3>1. Dated(steps[s], version, epoch, batch) /\ Ordered(steps[s])
      BY DEF QueueInv
    <3>2. version \in Nat /\ steps[s].version \in Nat
      BY <1>0, StepsAreTyped DEF QueueTyped
    <3> QED BY <3>1, <3>2 DEF Dated
  <2> QED BY <2>1, <2>2, <2>3 DEF QueueInv
<1>2. CASE items # <<>>
  <2> PICK n : n = NewStep
    OBVIOUS
  <2>1. /\ steps' = Append(steps, n) /\ inFlight' = Len(steps) + 1
        /\ UNCHANGED <<items, version, tracked, store, epoch, batch, moves>>
    BY <1>2 DEF Press
  <2>2. Head(items) \in Ids
    BY <1>0, <1>2, HeadTailProperties DEF QueueTyped
  <2>3. /\ n \in StepType /\ n.version = version /\ n.batch = batch /\ n.epoch = 0
        /\ n.at = "target" /\ n.sent = FALSE /\ n.void = FALSE
    BY <1>0, <2>2 DEF NewStep, StepType, QueueTyped, QueuePlaces
  <2>4. /\ steps' \in Seq(StepType) /\ inFlight' \in Nat
        /\ DOMAIN steps' = 1 .. Len(steps) + 1 /\ DOMAIN steps = 1 .. Len(steps)
        /\ steps'[Len(steps) + 1] = n /\ \A s \in DOMAIN steps : steps'[s] = steps[s]
    BY <1>0, <2>1, <2>3, AppendProperties DEF QueueTyped
  <2>5. Dated(n, version, epoch, batch) /\ Ordered(n)
    BY <1>0, <2>3 DEF Dated, Ordered, QueueTyped
  <2>6. ASSUME NEW s \in DOMAIN steps'
        PROVE  Dated(steps'[s], version, epoch, batch) /\ Ordered(steps'[s])
    <3>1. s \in DOMAIN steps \/ s = Len(steps) + 1
      BY <1>0, <2>4 DEF QueueTyped
    <3> QED BY <2>4, <2>5, <3>1 DEF QueueInv
  <2> QED BY <1>0, <2>1, <2>4, <2>6 DEF QueueInv, QueueTyped
<1> QED BY <1>1, <1>2

\* What others do to the queue moves its version, and to privacy the epoch: the steps they
\* make void are behind.
LEMMA WorldKeeps ==
  ASSUME QueueInv, SetQueue \/ Capture \/ PrivacyMoves \/ Delete
  PROVE  QueueInv'
<1>0. QueueTyped /\ moves' \in Nat
  BY DEF QueueInv, QueueTyped, SetQueue, Capture, PrivacyMoves, Delete, Move
<1>1. ASSUME NEW s \in DOMAIN steps
      PROVE  /\ Dated(steps[s], version, epoch, batch) /\ Ordered(steps[s])
             /\ steps[s].version \in Nat /\ steps[s].epoch \in Nat
  BY StepsAreTyped DEF QueueInv
<1>2. ASSUME NEW places \in {{}, {"target"}}, steps' = Voided(places)
      PROVE  /\ steps' \in Seq(StepType) /\ DOMAIN steps' = DOMAIN steps
             /\ \A s \in DOMAIN steps :
                  \/ steps'[s] = steps[s]
                  \/ /\ steps[s].at \in Unsent \ ({"send"} \cup places)
                     /\ steps'[s] = [steps[s] EXCEPT !.void = TRUE]
  <2>1. ASSUME NEW s \in DOMAIN steps
        PROVE  [steps[s] EXCEPT !.void = TRUE] \in StepType
    <3> PICK old \in StepType : old = steps[s]
      BY StepsAreTyped
    <3>1. [old EXCEPT !.void = TRUE] \in StepType
      BY Zenon DEF StepType
    <3> QED BY <3>1
  <2>2. DOMAIN steps' = DOMAIN steps
    BY <1>2 DEF Voided
  <2>3. \A s \in DOMAIN steps :
          \/ steps'[s] = steps[s]
          \/ /\ steps[s].at \in Unsent \ ({"send"} \cup places)
             /\ steps'[s] = [steps[s] EXCEPT !.void = TRUE]
    BY <1>2 DEF Voided, Unvalidated, Unsent
  <2>4. \A s \in DOMAIN steps : steps'[s] \in StepType
    BY <2>1, <2>3, StepsAreTyped
  <2>5. steps' \in Seq(StepType)
    <3>1. DOMAIN steps = 1 .. Len(steps) /\ Len(steps) \in Nat
      BY <1>0, LenProperties DEF QueueTyped
    <3>2. steps' = [s \in 1 .. Len(steps) |-> steps'[s]]
      BY <1>2, <3>1 DEF Voided
    <3>3. steps' \in [1 .. Len(steps) -> StepType]
      BY <2>4, <3>1, <3>2
    <3> QED BY <3>1, <3>3
  <2> QED BY <2>2, <2>3, <2>5
\* A step of which only the mark changes.
<1>3. ASSUME NEW s \in DOMAIN steps, NEW n, NEW v \in Nat, NEW e \in Nat, NEW b \in Nat,
             n = [steps[s] EXCEPT !.void = TRUE], steps[s].at \in Unsent \ {"send"},
             (v > version /\ e = epoch) \/ (e > epoch /\ v = version /\ b = batch /\ steps[s].at # "target")
      PROVE  Dated(n, v, e, b) /\ Ordered(n)
  <2> PICK old \in StepType : old = steps[s]
    BY StepsAreTyped
  <2>1. /\ n.id = old.id /\ n.version = old.version /\ n.batch = old.batch /\ n.at = old.at
        /\ n.epoch = old.epoch /\ n.sent = old.sent /\ n.void
    BY <1>3, Zenon DEF StepType
  <2>2. version \in Nat /\ epoch \in Nat
    BY <1>0 DEF QueueTyped
  <2> QED BY <1>1, <1>3, <2>1, <2>2 DEF Dated, Ordered, Unsent
\* And one that stays as it is.
<1>4. ASSUME NEW s \in DOMAIN steps, NEW v \in Nat, NEW e \in Nat, NEW b \in Nat,
             (v > version /\ e = epoch) \/ (e >= epoch /\ v = version /\ b = batch)
      PROVE  Dated(steps[s], v, e, b) /\ Ordered(steps[s])
  <2>1. version \in Nat /\ epoch \in Nat
    BY <1>0 DEF QueueTyped
  <2> QED BY <1>1, <1>4, <2>1 DEF Dated
<1>5. ASSUME items' \in Seq(Ids), tracked' \in BOOLEAN, version' = version + 1,
             batch' = batch + 1, steps' = Voided({}), UNCHANGED <<inFlight, store, epoch>>
      PROVE  QueueInv'
  <2>1. QueueTyped'
    BY <1>0, <1>2, <1>5 DEF QueueTyped
  <2>2. version' > version /\ version' \in Nat /\ batch' \in Nat /\ epoch' \in Nat
        /\ epoch' = epoch
    BY <1>0, <1>5 DEF QueueTyped
  <2>3. \A s \in DOMAIN steps : Dated(steps'[s], version', epoch', batch') /\ Ordered(steps'[s])
    <3> SUFFICES ASSUME NEW s \in DOMAIN steps
                 PROVE  Dated(steps'[s], version', epoch', batch') /\ Ordered(steps'[s])
      OBVIOUS
    <3>1. CASE steps'[s] = steps[s]
      BY <1>4, <2>2, <3>1
    <3>2. CASE steps'[s] = [steps[s] EXCEPT !.void = TRUE] /\ steps[s].at \in Unsent \ {"send"}
      BY <1>3, <2>2, <3>2
    <3> QED BY <1>2, <1>5, <3>1, <3>2
  <2> QED BY <1>2, <1>5, <2>1, <2>3 DEF QueueInv
<1>6. CASE SetQueue
  BY <1>0, <1>5, <1>6, QueuesAreLists DEF SetQueue, ResetTracking
<1>7. CASE Capture
  <2> PICK id \in store :
        IF tracked THEN /\ items' = <<id>> /\ ResetTracking
                        /\ batch' = batch + 1 /\ steps' = Voided({})
                   ELSE items' = Append(items, id) /\ UNCHANGED <<version, tracked, batch, steps>>
    BY <1>7 DEF Capture
  <2>1. id \in Ids
    BY <1>0 DEF QueueTyped
  <2>2. UNCHANGED <<inFlight, store, epoch>>
    BY <1>7 DEF Capture
  <2>3. CASE tracked
    <3>1. items' = <<id>> /\ ResetTracking /\ batch' = batch + 1 /\ steps' = Voided({})
      BY <2>3
    <3>2. <<id>> \in Seq(Ids)
      BY <2>1
    <3> QED BY <1>5, <2>2, <3>1, <3>2 DEF ResetTracking
  <2>4. CASE ~tracked
    <3>1. items' = Append(items, id) /\ UNCHANGED <<version, tracked, batch, steps>>
      BY <2>4
    <3>2. items' \in Seq(Ids)
      BY <1>0, <2>1, <3>1, AppendProperties DEF QueueTyped
    <3> QED BY <1>0, <2>2, <3>1, <3>2 DEF QueueInv, QueueTyped
  <2> QED BY <2>3, <2>4
<1>8. CASE PrivacyMoves
  <2>1. /\ epoch' = epoch + 1 /\ steps' = Voided({"target"})
        /\ UNCHANGED <<items, version, inFlight, tracked, store, batch>>
    BY <1>8 DEF PrivacyMoves
  <2>2. QueueTyped'
    BY <1>0, <1>2, <2>1 DEF QueueTyped
  <2>3. epoch' > epoch /\ epoch' \in Nat /\ version' = version /\ batch' = batch
        /\ version \in Nat /\ batch \in Nat
    BY <1>0, <2>1 DEF QueueTyped
  <2>4. ASSUME NEW s \in DOMAIN steps
        PROVE  Dated(steps'[s], version, epoch', batch) /\ Ordered(steps'[s])
    <3>1. CASE steps'[s] = steps[s]
      <4>1. epoch \in Nat /\ epoch' >= epoch
        BY <1>0, <2>1 DEF QueueTyped
      <4> QED BY <1>4, <2>3, <3>1, <4>1
    <3>2. CASE /\ steps'[s] = [steps[s] EXCEPT !.void = TRUE]
               /\ steps[s].at \in Unsent \ {"send", "target"}
      BY <1>3, <2>3, <3>2
    <3>3. "target" \in {"target"}
      OBVIOUS
    <3> QED BY <1>2, <2>1, <3>1, <3>2
  <2> QED BY <1>2, <2>1, <2>2, <2>3, <2>4 DEF QueueInv
<1>9. CASE Delete
  BY <1>0, <1>9 DEF Delete, QueueInv, QueueTyped
<1> QED BY <1>6, <1>7, <1>8, <1>9

LEMMA QueueStarts == QueueInit => QueueInv
<1> SUFFICES ASSUME QueueInit PROVE QueueInv
  OBVIOUS
<1>1. QueueTyped
  BY QueuesAreLists, EmptySeq DEF QueueInit, QueueTyped
<1>2. DOMAIN steps = {}
  BY DEF QueueInit
<1> QED BY <1>1, <1>2 DEF QueueInv

LEMMA QueueStays == QueueInv /\ [QueueNext]_queueVars => QueueInv'
<1> SUFFICES ASSUME QueueInv, [QueueNext]_queueVars PROVE QueueInv'
  OBVIOUS
<1>1. CASE UNCHANGED queueVars
  BY <1>1 DEF queueVars, QueueInv, QueueTyped
<1> QED BY <1>1, PressKeeps, StepKeeps, WorldKeeps DEF QueueNext

THEOREM QueueInvariant == QueueSpec => []QueueInv
<1> QED BY QueueStarts, QueueStays, PTL DEF QueueSpec

\* What was replaced, cleared or revoked before the last look at the queue is not pasted.
THEOREM ClearedStaysUnpasted == QueueSpec => []ClearedIsNotPasted
<1>1. QueueInv => ClearedIsNotPasted
  BY DEF QueueInv, Ordered, ClearedIsNotPasted
<1> QED BY <1>1, QueueInvariant, PTL

\* An entry leaves its queue only for the step that reserved it there.
THEOREM StepsConsumeTheirOwn == QueueSpec => ConsumesItsOwn
<1>1. ASSUME QueueInv, QueueNext, batch' = batch, Len(items') < Len(items)
      PROVE  \E s \in DOMAIN steps :
               /\ Active(s) /\ steps[s].batch = batch /\ steps[s].id = Head(items)
               /\ steps[s].sent \/ steps'[s].missing
  <2> USE <1>1
  <2>0. QueueTyped
    BY DEF QueueInv
  <2>1. ~Press /\ ~SetQueue /\ ~PrivacyMoves /\ ~Delete
    BY <2>0 DEF Press, SetQueue, PrivacyMoves, Delete, QueueTyped
  <2>2. ~Capture
    <3> SUFFICES ASSUME NEW id \in store, items' = Append(items, id) PROVE FALSE
      BY <2>0 DEF Capture, QueueTyped
    <3>1. Len(items') = Len(items) + 1 /\ Len(items) \in Nat
      BY <2>0, AppendProperties DEF QueueTyped
    <3> QED BY <3>1
  <2>3. PICK s \in DOMAIN steps : StepOf(s)
    BY <2>1, <2>2 DEF QueueNext
  <2>4. items' # items
    OBVIOUS
  <2>5. Prepare(s) \/ Consume(s)
    BY <2>3, <2>4 DEF StepOf, Target, Track, Copy, Check, Ask, Validate, Send, Complete, Finish, Drop
  <2>6. Current(s) /\ steps[s].at # "over" /\ (steps[s].sent \/ steps'[s].missing)
    <3>1. CASE Consume(s)
      <4>1. Ordered(steps[s])
        BY Orders
      <4> QED BY <2>4, <3>1, <4>1 DEF Consume, Ordered
    <3>2. CASE Prepare(s)
      <4>1. /\ steps' = [steps EXCEPT ![s].at = "drop", ![s].missing = TRUE] /\ Current(s)
            /\ steps[s].at = "prepare"
        BY <2>4, <3>2 DEF Prepare
      <4> PICK old \in StepType : old = steps[s]
        BY StepsAreTyped
      <4> DEFINE n == [old EXCEPT !.at = "drop", !.missing = TRUE]
      <4>2. steps' = [steps EXCEPT ![s] = n]
        BY <4>1
      <4>3. n.missing
        BY Zenon DEF StepType
      <4> HIDE DEF n
      <4>4. steps'[s] = n
        BY <2>0, <4>2 DEF QueueTyped
      <4> QED BY <4>1, <4>3, <4>4
    <3> QED BY <2>5, <3>1, <3>2
  <2>7. steps[s].batch = batch /\ steps[s].id = Head(items)
    BY <2>6 DEF Current, QueueInv, Dated
  <2> QED BY <2>6, <2>7 DEF Active
<1> QED BY <1>1, QueueInvariant, PTL DEF QueueSpec, ConsumesItsOwn

-----------------------------------------------------------------------------
(* The privacy shortcut.                                                   *)

ChordOrNone == Chords \cup {""}
Natives == {"live", "mute", "ended", "failed", "joined"}
Workings == {"recv", "try", "done", "joined"}
RegType ==
  [chord : ChordOrNone, native : Natives, ringing : BOOLEAN, cancel : BOOLEAN, wake : BOOLEAN,
   worker : Workings, pending : BOOLEAN]
Stopping == {"cancel", "wake", "disarm", "native", "worker"}
CallPlaces == {"none", "drain", "check", "register", "old", "store", "publish"} \cup Stopping
CallKinds == {"none", "init", "set", "stop"}
Whys == {"", "retained", "stale", "last", "old", "next"}
CallType ==
  [kind : CallKinds, at : CallPlaces, want : ChordOrNone, next : Nat, target : Nat, why : Whys]

ShortcutTyped ==
  /\ regs \in Seq(RegType) /\ current \in Nat /\ retained \in Seq(Nat)
  /\ stored \in ChordOrNone /\ call \in CallType

\* An armed registration is the one of the settings or the one that is to replace it; it
\* is cancelled only on the way to its end, and disarmed before its threads are joined.
ArmedKnown(r) ==
  regs[r].native = "live" =>
    /\ \/ r = current /\ regs[r].chord = stored
       \/ r = call.next /\ regs[r].chord = call.want
    /\ regs[r].cancel => call.at \in {"wake", "disarm"} /\ r = call.target
    /\ call.at \in {"native", "worker"} => r # call.target

\* What a call that has come so far knows of the two.
CallKnows ==
  /\ call.at \in {"none", "drain", "check", "register"} => call.next = 0
  /\ call.at \in Stopping =>
       \/ call.why \in {"retained", "stale", "last"} /\ call.next = 0
       \/ call.why = "old"
       \/ call.why = "next" /\ call.target = call.next
  /\ call.at \in Stopping /\ call.why \in {"stale", "last", "old"} => call.target = current
  /\ call.at \in Stopping /\ call.why = "retained" => retained # <<>>
  /\ call.at = "store" => current = 0
  /\ call.at = "publish" => current = call.next /\ stored = call.want

\* The first call is the Host's start.
Started == commands \in Nat /\ (commands = 0 => call = NoCall)

ShortcutInv ==
  ShortcutTyped /\ CallKnows /\ \A r \in DOMAIN regs : ArmedKnown(r)

\* What the threads do, and what a stop does to the registration it is at, arms nothing.
NothingArmed ==
  /\ regs' \in Seq(RegType) /\ DOMAIN regs' = DOMAIN regs
  /\ \A r \in DOMAIN regs : regs'[r].native = "live" =>
       /\ regs[r].native = "live" /\ regs'[r].chord = regs[r].chord
       /\ regs'[r].cancel => regs[r].cancel \/ (call.at = "cancel" /\ r = call.target)

LEMMA RegIsTyped ==
  ASSUME ShortcutInv, NEW r \in DOMAIN regs
  PROVE  /\ regs[r] \in RegType
         /\ regs[r].chord \in ChordOrNone /\ regs[r].ringing \in BOOLEAN
         /\ regs[r].native \in Natives
         /\ regs[r].cancel \in BOOLEAN /\ regs[r].wake \in BOOLEAN
         /\ regs[r].worker \in Workings /\ regs[r].pending \in BOOLEAN
<1>1. regs \in Seq(RegType)
  BY DEF ShortcutInv, ShortcutTyped
<1>2. regs[r] \in RegType
  BY <1>1
<1> QED BY <1>2 DEF RegType

LEMMA OneRegChanges ==
  ASSUME ShortcutInv, NEW r \in DOMAIN regs, NEW n \in RegType, regs' = [regs EXCEPT ![r] = n],
         n.native = "live" =>
           /\ regs[r].native = "live" /\ n.chord = regs[r].chord
           /\ n.cancel => regs[r].cancel \/ (call.at = "cancel" /\ r = call.target)
  PROVE  NothingArmed
<1>1. regs \in Seq(RegType)
  BY DEF ShortcutInv, ShortcutTyped
<1>2. /\ regs' \in Seq(RegType) /\ DOMAIN regs' = DOMAIN regs
      /\ regs'[r] = n /\ \A u \in DOMAIN regs : u # r => regs'[u] = regs[u]
  BY <1>1
<1> QED BY <1>2 DEF NothingArmed

LEMMA ThreadsArmNothing ==
  ASSUME ShortcutInv, NEW r \in DOMAIN regs, ThreadStep(r)
  PROVE  NothingArmed /\ \A u \in DOMAIN regs : regs'[u].cancel = regs[u].cancel
<1> PICK o \in RegType : o = regs[r]
  BY RegIsTyped
<1>2. ASSUME NEW n, NEW x \in BOOLEAN, NEW y \in BOOLEAN, NEW w \in Workings, NEW v \in Natives,
             n = [o EXCEPT !.ringing = x, !.wake = y, !.worker = w, !.native = v],
             regs' = [regs EXCEPT ![r] = n], v = "live" => o.native = "live"
      PROVE  NothingArmed /\ \A u \in DOMAIN regs : regs'[u].cancel = regs[u].cancel
  <2>1. /\ n.chord = o.chord /\ n.cancel = o.cancel /\ n.native = v
        /\ n.ringing = x /\ n.wake = y /\ n.worker = w /\ n.pending = o.pending
    BY <1>2, Zenon DEF RegType
  <2>2. n \in RegType
    BY <1>2, <2>1 DEF RegType
  <2>3. n.native = "live" => regs[r].native = "live" /\ n.chord = regs[r].chord
                               /\ n.cancel = regs[r].cancel
    BY <2>1, <1>2
  <2>4. regs' = [regs EXCEPT ![r] = n]
    BY <1>2
  <2> HIDE <1>2
  <2>5. NothingArmed
    BY <2>2, <2>3, <2>4, OneRegChanges
  <2>6. regs \in Seq(RegType)
    BY DEF ShortcutInv, ShortcutTyped
  <2>7. \A u \in DOMAIN regs : regs'[u] = IF u = r THEN n ELSE regs[u]
    BY <2>4, <2>6
  <2> QED BY <2>1, <2>5, <2>7
<1> USE RegIsTyped
<1>3. o = [o EXCEPT !.ringing = o.ringing, !.wake = o.wake, !.worker = o.worker, !.native = o.native]
  BY DEF RegType
<1>4. CASE PressChord(r)
  <2>1. regs' = [regs EXCEPT ![r] = [o EXCEPT !.ringing = TRUE, !.wake = o.wake, !.worker = o.worker,
                                              !.native = o.native]]
    BY <1>4 DEF PressChord, RegType
  <2> QED BY <2>1, <1>2 DEF Natives, Workings
<1>5. CASE Ring(r)
  <2>1. regs' = [regs EXCEPT ![r] = [o EXCEPT !.ringing = FALSE, !.wake = TRUE, !.worker = o.worker,
                                              !.native = o.native]]
    BY <1>5 DEF Ring, RegType
  <2> QED BY <2>1, <1>2 DEF Natives, Workings
<1>6. CASE NativeEnds(r)
  <2>1. PICK end \in {"ended", "failed"} : regs' = [regs EXCEPT ![r].native = end]
    BY <1>6 DEF NativeEnds
  <2>2. regs' = [regs EXCEPT ![r] = [o EXCEPT !.ringing = o.ringing, !.wake = o.wake,
                                              !.worker = o.worker, !.native = end]]
    BY <2>1 DEF RegType
  <2> QED BY <2>2, <1>2 DEF Natives, Workings
<1>7. CASE Receive(r)
  <2>1. PICK w \in {"done", "try"} : regs' = [regs EXCEPT ![r].wake = FALSE, ![r].worker = w]
    BY <1>7 DEF Receive
  <2>2. regs' = [regs EXCEPT ![r] = [o EXCEPT !.ringing = o.ringing, !.wake = FALSE,
                                              !.worker = w, !.native = o.native]]
    BY <2>1 DEF RegType
  <2> QED BY <2>2, <1>2 DEF Natives, Workings
<1>8. CASE Try(r) \/ Expire(r)
  <2>1. regs' = [regs EXCEPT ![r].worker = "recv"]
    BY <1>8 DEF Try, Expire
  <2>2. regs' = [regs EXCEPT ![r] = [o EXCEPT !.ringing = o.ringing, !.wake = o.wake,
                                              !.worker = "recv", !.native = o.native]]
    BY <2>1 DEF RegType
  <2> QED BY <2>2, <1>2 DEF Natives, Workings
<1> QED BY <1>4, <1>5, <1>6, <1>7, <1>8 DEF ThreadStep

\* Nothing that is not there is armed, and what may be armed is still known.
LEMMA CallKeeps ==
  ASSUME ShortcutInv, NothingArmed, current' \in Nat, retained' \in Seq(Nat),
         stored' \in ChordOrNone, call' \in CallType, CallKnows',
         \A r \in DOMAIN regs : ArmedKnown(r) /\ regs'[r].native = "live" => ArmedKnown(r)'
  PROVE  ShortcutInv'
<1>1. \A r \in DOMAIN regs' : ArmedKnown(r)'
  <2> SUFFICES ASSUME NEW r \in DOMAIN regs PROVE ArmedKnown(r)'
    BY DEF NothingArmed
  <2>1. CASE regs'[r].native = "live"
    BY <2>1 DEF ShortcutInv
  <2>2. CASE regs'[r].native # "live"
    BY <2>2 DEF ArmedKnown
  <2> QED BY <2>1, <2>2
<1> QED BY <1>1 DEF ShortcutInv, ShortcutTyped, NothingArmed

LEMMA CallIsTyped ==
  ASSUME ShortcutInv
  PROVE  /\ call \in CallType /\ call.kind \in CallKinds /\ call.at \in CallPlaces
         /\ call.want \in ChordOrNone /\ call.next \in Nat /\ call.target \in Nat
         /\ call.why \in Whys
<1>1. call \in CallType
  BY DEF ShortcutInv, ShortcutTyped
<1> QED BY <1>1 DEF CallType

LEMMA Going ==
  ASSUME ShortcutInv, NEW place \in CallPlaces, GoTo(place)
  PROVE  /\ call' \in CallType /\ call'.at = place /\ call'.want = call.want
         /\ call'.next = call.next /\ call'.target = call.target /\ call'.why = call.why
<1> PICK o \in CallType : o = call
  BY CallIsTyped
<1> DEFINE n == [o EXCEPT !.at = place]
<1>1. /\ n.at = place /\ n.want = o.want /\ n.next = o.next /\ n.target = o.target
      /\ n.why = o.why /\ n.kind = o.kind
  BY Zenon DEF CallType
<1>2. n \in CallType
  BY <1>1 DEF CallType
<1>3. call' = n
  BY DEF GoTo
<1> HIDE DEF n
<1> QED BY <1>1, <1>2, <1>3

LEMMA StopGoes ==
  ASSUME ShortcutInv, NEW r \in Nat, NEW why \in Whys,
         call' = [call EXCEPT !.at = "cancel", !.target = r, !.why = why]
  PROVE  /\ call' \in CallType /\ call'.at = "cancel" /\ call'.want = call.want
         /\ call'.next = call.next /\ call'.target = r /\ call'.why = why
<1> PICK o \in CallType : o = call
  BY CallIsTyped
<1> DEFINE n == [o EXCEPT !.at = "cancel", !.target = r, !.why = why]
<1>1. /\ n.at = "cancel" /\ n.want = o.want /\ n.next = o.next /\ n.target = r
      /\ n.why = why /\ n.kind = o.kind
  BY Zenon DEF CallType
<1>2. n \in CallType
  BY <1>1 DEF CallType, CallPlaces, Stopping
<1>3. call' = n
  OBVIOUS
<1> HIDE DEF n
<1> QED BY <1>1, <1>2, <1>3

LEMMA NobodyCalls == NoCall \in CallType /\ NoCall.at = "none" /\ NoCall.next = 0
  BY DEF NoCall, CallType, CallPlaces, CallKinds, ChordOrNone, Whys

\* A call returns when nothing is armed but the current registration.
LEMMA ReturnKeeps ==
  ASSUME ShortcutInv, NothingArmed, current' \in Nat, retained' \in Seq(Nat), stored' = stored,
         NEW ok, Return(ok), call.at \notin {"cancel", "wake", "disarm"},
         \A r \in DOMAIN regs : regs'[r].native = "live" => r = current' /\ regs'[r].chord = stored
  PROVE  ShortcutInv'
<1>1. call' = NoCall
  BY DEF Return
<1>2. CallKnows'
  BY <1>1, NobodyCalls DEF CallKnows, Stopping
<1>3. ASSUME NEW r \in DOMAIN regs, ArmedKnown(r), regs'[r].native = "live"
      PROVE  ArmedKnown(r)'
  BY <1>1, <1>3, NobodyCalls DEF ArmedKnown, NothingArmed
<1> QED BY <1>1, <1>2, <1>3, NobodyCalls, CallKeeps DEF ShortcutInv, ShortcutTyped

LEMMA ShortcutBegins == ShortcutInit => ShortcutInv
<1> SUFFICES ASSUME ShortcutInit PROVE ShortcutInv
  OBVIOUS
<1>1. regs = <<>> /\ current = 0 /\ retained = <<>> /\ call = NoCall /\ stored \in ChordOrNone
  BY DEF ShortcutInit, ChordOrNone
<1>2. CallKnows
  BY <1>1, NobodyCalls DEF CallKnows, Stopping
<1> QED BY <1>1, <1>2, NobodyCalls DEF ShortcutInv, ShortcutTyped

\* The registrations are as they were.
LEMMA SameRegs == ASSUME ShortcutInv, UNCHANGED regs PROVE NothingArmed
  BY DEF NothingArmed, ShortcutInv, ShortcutTyped

LEMMA CallBegins ==
  ASSUME ShortcutInv, call = NoCall, UNCHANGED <<regs, current, retained, stored>>,
         NEW kind \in CallKinds, NEW place \in {"drain", "cancel"}, NEW want \in ChordOrNone,
         NEW target \in Nat, NEW why \in Whys,
         place = "cancel" => target = current /\ why = "last",
         call' = [kind |-> kind, at |-> place, want |-> want, next |-> 0, target |-> target,
                  why |-> why]
  PROVE  ShortcutInv'
<1>1. /\ call' \in CallType /\ call'.at = place /\ call'.next = 0
      /\ place = "cancel" => call'.target = current /\ call'.why = "last"
  BY DEF CallType, CallPlaces, Stopping
<1>2. CallKnows'
  BY <1>1 DEF CallKnows, Stopping
<1>3. ASSUME NEW r \in DOMAIN regs, ArmedKnown(r), regs'[r].native = "live"
      PROVE  ArmedKnown(r)'
  BY <1>1, <1>3, NobodyCalls DEF ArmedKnown, ShortcutInv, ShortcutTyped
<1> QED BY <1>1, <1>2, <1>3, CallKeeps, SameRegs DEF ShortcutInv, ShortcutTyped

LEMMA ShortcutStarts ==
  ASSUME ShortcutInv, Started, Initialize \/ BeginSet \/ BeginStop
  PROVE  ShortcutInv'
<1>1. stored \in ChordOrNone /\ current \in Nat
  BY DEF ShortcutInv, ShortcutTyped
<1>2. CASE Initialize
  <2>1. CASE stored = ""
    <3>1. UNCHANGED <<regs, current, retained, stored, call>>
      BY <1>2, <2>1 DEF Initialize
    <3> QED BY <3>1 DEF ShortcutInv, ShortcutTyped, CallKnows, ArmedKnown
  <2>2. CASE stored # ""
    <3>1. /\ UNCHANGED <<regs, current, retained, stored>> /\ call = NoCall
          /\ call' = [kind |-> "init", at |-> "drain", want |-> stored, next |-> 0, target |-> 0,
                      why |-> ""]
      BY <1>2, <2>2 DEF Initialize, NoCall, Started
    <3> QED BY <3>1, <1>1, CallBegins DEF CallKinds, Whys
  <2> QED BY <2>1, <2>2
<1>3. CASE BeginSet
  <2>1. PICK want \in ChordOrNone : BeginCall("set", want, "drain", 0)
    BY <1>3 DEF BeginSet, ChordOrNone
  <2>2. /\ UNCHANGED <<regs, current, retained, stored>> /\ call = NoCall
        /\ call' = [kind |-> "set", at |-> "drain", want |-> want, next |-> 0, target |-> 0,
                    why |-> ""]
    BY <1>3, <2>1 DEF BeginSet, BeginCall, NoCall
  <2> QED BY <2>2, CallBegins DEF CallKinds, Whys
<1>4. CASE BeginStop
  <2>1. UNCHANGED <<regs, current, retained, stored>> /\ call = NoCall
    BY <1>4 DEF BeginStop, BeginCall
  <2>2. "" \in ChordOrNone
    BY DEF ChordOrNone
  <2>3. CASE current # 0
    <3>1. call' = [kind |-> "stop", at |-> "cancel", want |-> "", next |-> 0, target |-> current,
                   why |-> "last"]
      BY <1>4, <2>3 DEF BeginStop, BeginCall, NoCall
    <3> QED BY <3>1, <2>1, <2>2, <1>1, CallBegins DEF CallKinds, Whys
  <2>4. CASE current = 0
    <3>1. call' = [kind |-> "stop", at |-> "drain", want |-> "", next |-> 0, target |-> current,
                   why |-> ""]
      BY <1>4, <2>4 DEF BeginStop, BeginCall, NoCall
    <3> QED BY <3>1, <2>1, <2>2, <1>1, CallBegins DEF CallKinds, Whys
  <2> QED BY <2>3, <2>4
<1> QED BY <1>2, <1>3, <1>4

LEMMA StartedKept == Started /\ ShortcutNext => Started'
<1> SUFFICES ASSUME Started, ShortcutNext PROVE Started'
  OBVIOUS
<1>1. CASE Initialize \/ BeginSet \/ BeginStop
  <2>1. commands' \in {1, commands + 1}
    BY <1>1 DEF Initialize, BeginSet, BeginStop, BeginCall
  <2> QED BY <2>1 DEF Started
<1>2. CASE CallStep
  <2>1. UNCHANGED commands /\ call.at # "none"
    BY <1>2 DEF CallStep, At, Cancel, Wake, Disarm, JoinNative, JoinWorker, DrainFailed, Drain,
      CheckChord, Register, StopOld, Store, Publish
  <2> QED BY <2>1, NobodyCalls DEF Started
<1>3. CASE OtherRequest \/ \E r \in DOMAIN regs : ThreadStep(r)
  BY <1>3 DEF OtherRequest, ThreadStep, PressChord, Ring, NativeEnds, Receive, Try, Expire, Others,
    Started
<1> QED BY <1>1, <1>2, <1>3 DEF ShortcutNext

\* What a stop does to the registration it is at.
LEMMA TargetChanges ==
  ASSUME ShortcutInv, NEW o, NEW n, o = regs[call.target], regs' = [regs EXCEPT ![call.target] = n],
         o \in RegType =>
           /\ n \in RegType
           /\ n.native = "live" => /\ o.native = "live" /\ n.chord = o.chord
                                   /\ n.cancel => o.cancel \/ call.at = "cancel"
  PROVE  NothingArmed
<1>1. CASE call.target \in DOMAIN regs
  <2>1. o \in RegType
    BY <1>1, RegIsTyped
  <2> QED BY <1>1, <2>1, OneRegChanges
<1>2. CASE call.target \notin DOMAIN regs
  <2>1. regs \in Seq(RegType)
    BY DEF ShortcutInv, ShortcutTyped
  <2>2. regs' = regs
    BY <1>2, <2>1
  <2> QED BY <2>2, SameRegs
<1> QED BY <1>1, <1>2

LEMMA OnTheWay ==
  ASSUME ShortcutInv, Cancel \/ Wake \/ Disarm
  PROVE  ShortcutInv'
<1> DEFINE o == regs[call.target]
<1>1. UNCHANGED <<current, retained, stored>>
  BY DEF Cancel, Wake, Disarm
<1>2. CallKnows /\ current \in Nat /\ retained \in Seq(Nat) /\ stored \in ChordOrNone
  BY DEF ShortcutInv, ShortcutTyped
<1>3. CASE Cancel
  <2> DEFINE n == [o EXCEPT !.cancel = TRUE]
  <2>1. call.at = "cancel" /\ GoTo("wake") /\ regs' = [regs EXCEPT ![call.target] = n]
    BY <1>3 DEF Cancel, At, Mark
  <2>2. o \in RegType => n \in RegType /\ n.native = o.native /\ n.chord = o.chord
    BY DEF RegType
  <2>3. NothingArmed
    <3> HIDE DEF n
    <3> QED BY <2>1, <2>2, TargetChanges
  <2>4. /\ call' \in CallType /\ call'.at = "wake" /\ call'.want = call.want
        /\ call'.next = call.next /\ call'.target = call.target /\ call'.why = call.why
    BY <2>1, Going DEF CallPlaces, Stopping
  <2>5. CallKnows'
    BY <1>1, <1>2, <2>1, <2>4 DEF CallKnows, Stopping
  <2>6. ASSUME NEW r \in DOMAIN regs, ArmedKnown(r), regs'[r].native = "live"
        PROVE  ArmedKnown(r)'
    BY <1>1, <2>1, <2>3, <2>4, <2>6 DEF ArmedKnown, NothingArmed
  <2> QED BY <1>1, <1>2, <2>3, <2>4, <2>5, <2>6, CallKeeps
<1>4. CASE Wake
  <2> DEFINE n == [o EXCEPT !.wake = TRUE]
  <2>1. call.at = "wake" /\ GoTo("disarm") /\ regs' = [regs EXCEPT ![call.target] = n]
    BY <1>4 DEF Wake, At, Mark
  <2>2. o \in RegType =>
          n \in RegType /\ n.native = o.native /\ n.chord = o.chord /\ n.cancel = o.cancel
    BY DEF RegType
  <2>3. NothingArmed
    <3> HIDE DEF n
    <3> QED BY <2>1, <2>2, TargetChanges
  <2>4. /\ call' \in CallType /\ call'.at = "disarm" /\ call'.want = call.want
        /\ call'.next = call.next /\ call'.target = call.target /\ call'.why = call.why
    BY <2>1, Going DEF CallPlaces, Stopping
  <2>5. CallKnows'
    BY <1>1, <1>2, <2>1, <2>4 DEF CallKnows, Stopping
  <2>6. ASSUME NEW r \in DOMAIN regs, ArmedKnown(r), regs'[r].native = "live"
        PROVE  ArmedKnown(r)'
    BY <1>1, <2>1, <2>3, <2>4, <2>6 DEF ArmedKnown, NothingArmed
  <2> QED BY <1>1, <1>2, <2>3, <2>4, <2>5, <2>6, CallKeeps
<1>5. CASE Disarm
  <2> DEFINE n == [o EXCEPT !.native = IF @ = "live" THEN "mute" ELSE @]
  <2>1. call.at = "disarm" /\ GoTo("native") /\ regs' = [regs EXCEPT ![call.target] = n]
    BY <1>5 DEF Disarm, At
  <2>2. o \in RegType => n \in RegType /\ n.native # "live"
    BY DEF RegType, Natives
  <2>3. NothingArmed
    <3> HIDE DEF n
    <3> QED BY <2>1, <2>2, TargetChanges
  <2>4. /\ call' \in CallType /\ call'.at = "native" /\ call'.want = call.want
        /\ call'.next = call.next /\ call'.target = call.target /\ call'.why = call.why
    BY <2>1, Going DEF CallPlaces, Stopping
  <2>5. CallKnows'
    BY <1>1, <1>2, <2>1, <2>4 DEF CallKnows, Stopping
  <2>6. ASSUME NEW r \in DOMAIN regs, ArmedKnown(r), regs'[r].native = "live"
        PROVE  ArmedKnown(r)'
    <3>1. r # call.target
      <4>1. SUFFICES ASSUME r = call.target PROVE FALSE
        OBVIOUS
      <4>2. o \in RegType
        BY <4>1, RegIsTyped
      <4>3. regs \in Seq(RegType)
        BY DEF ShortcutInv, ShortcutTyped
      <4>4. regs'[r] = n
        BY <4>1, <4>3, <2>1
      <4> HIDE DEF n
      <4> QED BY <4>2, <4>4, <2>2, <2>6
    <3> QED BY <1>1, <2>1, <2>3, <2>4, <2>6, <3>1 DEF ArmedKnown, NothingArmed
  <2> QED BY <1>1, <1>2, <2>3, <2>4, <2>5, <2>6, CallKeeps
<1> QED BY <1>3, <1>4, <1>5

\* The stop of a registration is over, with both threads joined or without.
LEMMA StoppedKeeps ==
  ASSUME ShortcutInv, NothingArmed, NEW ok \in BOOLEAN, Stopped(ok), stored' = stored,
         call.at \in {"native", "worker"}
  PROVE  ShortcutInv'
<1>1. CallKnows /\ current \in Nat /\ retained \in Seq(Nat) /\ stored \in ChordOrNone
  BY DEF ShortcutInv, ShortcutTyped
<1>2. ASSUME NEW r \in DOMAIN regs, regs'[r].native = "live"
      PROVE  /\ regs[r].native = "live" /\ regs'[r].chord = regs[r].chord /\ ~regs'[r].cancel
             /\ r # call.target
             /\ \/ r = current /\ regs[r].chord = stored
                \/ r = call.next /\ regs[r].chord = call.want
  BY <1>2 DEF ShortcutInv, ArmedKnown, NothingArmed
<1>3. DOMAIN regs = 1 .. Len(regs) /\ 0 \notin DOMAIN regs
  BY DEF ShortcutInv, ShortcutTyped
<1>4. call.target \in Nat /\ call.next \in Nat
  BY CallIsTyped
<1>5. CASE call.why \in {"retained", "stale", "last"}
  <2>1. call.next = 0
    BY <1>1, <1>5 DEF CallKnows, Stopping
  <2>2. /\ retained' = IF ok /\ call.why = "retained" THEN Tail(retained) ELSE retained
        /\ current' = IF ok /\ call.why # "retained" THEN 0 ELSE current
        /\ IF ok THEN GoTo("drain") ELSE Return(FALSE)
    BY <1>5 DEF Stopped
  <2>3. retained' \in Seq(Nat) /\ current' \in Nat
    <3>1. call.why = "retained" => Tail(retained) \in Seq(Nat)
      BY <1>1, HeadTailProperties DEF CallKnows, Stopping
    <3> QED BY <3>1, <2>2, <1>1
  <2>4. ASSUME NEW r \in DOMAIN regs, regs'[r].native = "live"
        PROVE  r = current' /\ regs'[r].chord = stored
    <3>1. r = current
      BY <1>2, <2>4, <2>1, <1>3
    <3>2. ok => call.why = "retained"
      BY <1>1, <1>2, <1>5, <2>4, <3>1 DEF CallKnows, Stopping
    <3> QED BY <3>1, <3>2, <1>2, <2>1, <2>2, <2>4, <1>3
  <2>5. CASE ok
    <3>1. /\ call' \in CallType /\ call'.at = "drain" /\ call'.want = call.want
          /\ call'.next = call.next /\ call'.target = call.target /\ call'.why = call.why
      BY <2>2, <2>5, Going DEF CallPlaces
    <3>2. CallKnows'
      BY <2>1, <3>1 DEF CallKnows, Stopping
    <3>3. ASSUME NEW r \in DOMAIN regs, ArmedKnown(r), regs'[r].native = "live"
          PROVE  ArmedKnown(r)'
      <4>1. r = current' /\ regs'[r].chord = stored /\ ~regs'[r].cancel
        BY <1>2, <2>4, <3>3
      <4> QED BY <4>1, <3>1 DEF ArmedKnown
    <3> QED BY <1>1, <2>3, <3>1, <3>2, <3>3, CallKeeps
  <2>6. CASE ~ok
    <3>1. Return(FALSE)
      BY <2>2, <2>6
    <3> QED BY <1>1, <2>3, <2>4, <3>1, ReturnKeeps
  <2> QED BY <2>5, <2>6
<1>6. CASE call.why = "old" /\ ok
  <2>1. current' = 0 /\ GoTo("store") /\ UNCHANGED retained
    BY <1>6 DEF Stopped
  <2>2. /\ call' \in CallType /\ call'.at = "store" /\ call'.want = call.want
        /\ call'.next = call.next /\ call'.target = call.target /\ call'.why = call.why
    BY <2>1, Going DEF CallPlaces
  <2>3. CallKnows'
    BY <2>1, <2>2 DEF CallKnows, Stopping
  <2>4. call.target = current
    BY <1>1, <1>6 DEF CallKnows, Stopping
  <2>5. ASSUME NEW r \in DOMAIN regs, ArmedKnown(r), regs'[r].native = "live"
        PROVE  ArmedKnown(r)'
    <3>1. r = call.next /\ regs'[r].chord = call.want /\ ~regs'[r].cancel
      BY <1>2, <2>4, <2>5
    <3> QED BY <3>1, <2>2 DEF ArmedKnown
  <2> QED BY <1>1, <2>1, <2>2, <2>3, <2>5, CallKeeps
<1>7. CASE call.why = "old" /\ ~ok
  <2>1. UNCHANGED <<current, retained>>
    BY <1>7 DEF Stopped
  <2>2. CASE call.next # 0
    <3>1. call' = [call EXCEPT !.at = "cancel", !.target = call.next, !.why = "next"]
      BY <1>7, <2>2 DEF Stopped
    <3>2. /\ call' \in CallType /\ call'.at = "cancel" /\ call'.want = call.want
          /\ call'.next = call.next /\ call'.target = call.next /\ call'.why = "next"
      BY <1>4, <3>1, StopGoes DEF Whys
    <3>3. CallKnows'
      BY <3>2 DEF CallKnows, Stopping
    <3>4. ASSUME NEW r \in DOMAIN regs, ArmedKnown(r), regs'[r].native = "live"
          PROVE  ArmedKnown(r)'
      BY <1>2, <2>1, <3>2, <3>4 DEF ArmedKnown
    <3> QED BY <1>1, <2>1, <3>2, <3>3, <3>4, CallKeeps
  <2>3. CASE call.next = 0
    <3>1. Return(FALSE)
      BY <1>7, <2>3 DEF Stopped
    <3>2. \A r \in DOMAIN regs : regs'[r].native = "live" => r = current' /\ regs'[r].chord = stored
      BY <1>2, <1>3, <2>1, <2>3
    <3> QED BY <1>1, <2>1, <3>1, <3>2, ReturnKeeps
  <2> QED BY <2>2, <2>3
<1>8. CASE call.why = "next"
  <2>1. /\ Return(FALSE) /\ UNCHANGED current
        /\ retained' = IF ok THEN retained ELSE Append(retained, call.target)
    BY <1>8 DEF Stopped
  <2>2. retained' \in Seq(Nat)
    BY <1>1, <1>4, <2>1
  <2>3. call.target = call.next
    BY <1>1, <1>8 DEF CallKnows, Stopping
  <2>4. \A r \in DOMAIN regs : regs'[r].native = "live" => r = current' /\ regs'[r].chord = stored
    BY <1>2, <2>1, <2>3
  <2> QED BY <1>1, <2>1, <2>2, <2>4, ReturnKeeps
<1> QED BY <1>5, <1>6, <1>7, <1>8 DEF Stopped

LEMMA Joining ==
  ASSUME ShortcutInv, JoinNative \/ JoinWorker
  PROVE  ShortcutInv'
<1> DEFINE o == regs[call.target]
<1>1. stored' = stored
  BY DEF JoinNative, JoinWorker
<1>2. CallKnows /\ current \in Nat /\ retained \in Seq(Nat) /\ stored \in ChordOrNone
  BY DEF ShortcutInv, ShortcutTyped
<1>3. CASE JoinNative
  <2>1. call.at = "native"
    BY <1>3 DEF JoinNative, At
  <2>2. CASE o.native = "mute"
    <3>1. UNCHANGED regs /\ Stopped(FALSE)
      BY <1>3, <2>2 DEF JoinNative
    <3> QED BY <1>1, <2>1, <3>1, SameRegs, StoppedKeeps
  <2>3. CASE o.native # "mute"
    <3> DEFINE n == [o EXCEPT !.native = "joined"]
    <3>1. regs' = [regs EXCEPT ![call.target] = n]
      BY <1>3, <2>3 DEF JoinNative
    <3>2. o \in RegType => n \in RegType /\ n.native # "live"
      BY DEF RegType, Natives
    <3>3. NothingArmed
      <4> HIDE DEF n
      <4> QED BY <3>1, <3>2, TargetChanges
    <3>4. CASE o.native = "failed"
      <4>1. Stopped(FALSE)
        BY <1>3, <2>3, <3>4 DEF JoinNative
      <4> QED BY <1>1, <2>1, <3>3, <4>1, StoppedKeeps
    <3>5. CASE o.native # "failed"
      <4>1. GoTo("worker") /\ UNCHANGED <<current, retained>>
        BY <1>3, <2>3, <3>5 DEF JoinNative
      <4>2. /\ call' \in CallType /\ call'.at = "worker" /\ call'.want = call.want
            /\ call'.next = call.next /\ call'.target = call.target /\ call'.why = call.why
        BY <4>1, Going DEF CallPlaces, Stopping
      <4>3. CallKnows'
        BY <1>1, <1>2, <2>1, <4>1, <4>2 DEF CallKnows, Stopping
      <4>4. ASSUME NEW r \in DOMAIN regs, ArmedKnown(r), regs'[r].native = "live"
            PROVE  ArmedKnown(r)'
        BY <1>1, <2>1, <3>3, <4>1, <4>2, <4>4 DEF ArmedKnown, NothingArmed
      <4> QED BY <1>1, <1>2, <3>3, <4>1, <4>2, <4>3, <4>4, CallKeeps
    <3> QED BY <3>4, <3>5
  <2> QED BY <2>2, <2>3
<1>4. CASE JoinWorker
  <2>1. call.at = "worker"
    BY <1>4 DEF JoinWorker, At
  <2>2. CASE o.worker \in {"done", "joined"}
    <3> DEFINE n == [o EXCEPT !.worker = "joined"]
    <3>1. regs' = [regs EXCEPT ![call.target] = n] /\ Stopped(TRUE)
      BY <1>4, <2>2 DEF JoinWorker
    <3>2. o \in RegType =>
            n \in RegType /\ n.native = o.native /\ n.chord = o.chord /\ n.cancel = o.cancel
      BY DEF RegType, Workings
    <3>3. NothingArmed
      <4> HIDE DEF n
      <4> QED BY <3>1, <3>2, TargetChanges
    <3> QED BY <1>1, <2>1, <3>1, <3>3, StoppedKeeps
  <2>3. CASE o.worker \notin {"done", "joined"}
    <3>1. UNCHANGED regs /\ Stopped(FALSE)
      BY <1>4, <2>3 DEF JoinWorker
    <3> QED BY <1>1, <2>1, <3>1, SameRegs, StoppedKeeps
  <2> QED BY <2>2, <2>3
<1> QED BY <1>3, <1>4

\* What is armed when no registration is being stopped.
LEMMA WhatIsArmed ==
  ASSUME ShortcutInv, call.at \notin Stopping, NEW r \in DOMAIN regs, regs[r].native = "live"
  PROVE  /\ r # 0 /\ ~regs[r].cancel
         /\ \/ r = current /\ regs[r].chord = stored
            \/ r = call.next /\ regs[r].chord = call.want
<1>1. r # 0
  BY DEF ShortcutInv, ShortcutTyped
<1> QED BY <1>1 DEF ShortcutInv, ArmedKnown, Stopping

\* The call goes on without a change of the registrations.
LEMMA GoesOn ==
  ASSUME ShortcutInv, call.at \notin Stopping, UNCHANGED <<regs, retained>>,
         current' \in Nat, stored' \in ChordOrNone, call' \in CallType, CallKnows',
         call'.at \notin {"native", "worker"},
         \A r \in DOMAIN regs : regs[r].native = "live" =>
           \/ r = current' /\ regs[r].chord = stored'
           \/ r = call'.next /\ regs[r].chord = call'.want
  PROVE  ShortcutInv'
<1>1. ASSUME NEW r \in DOMAIN regs, ArmedKnown(r), regs'[r].native = "live"
      PROVE  ArmedKnown(r)'
  BY <1>1, WhatIsArmed DEF ArmedKnown
<1> QED BY <1>1, CallKeeps, SameRegs DEF ShortcutInv, ShortcutTyped

LEMMA ReturnHere ==
  ASSUME ShortcutInv, call.at \notin Stopping, UNCHANGED <<regs, retained, stored>>,
         current' \in Nat, NEW ok, Return(ok),
         \A r \in DOMAIN regs : regs[r].native = "live" => r = current' /\ regs[r].chord = stored
  PROVE  ShortcutInv'
BY ReturnKeeps, SameRegs DEF ShortcutInv, ShortcutTyped, Stopping

LEMMA Draining ==
  ASSUME ShortcutInv, DrainFailed \/ Drain
  PROVE  ShortcutInv'
<1>1. UNCHANGED <<current, retained, stored>> /\ call.at = "drain"
  BY DEF DrainFailed, Drain, At
<1>2. CallKnows /\ current \in Nat /\ retained \in Seq(Nat) /\ stored \in ChordOrNone
  BY DEF ShortcutInv, ShortcutTyped
<1>3. call.next = 0 /\ call.at \notin Stopping
  BY <1>1, <1>2 DEF CallKnows, Stopping
<1>4. \A r \in DOMAIN regs : regs[r].native = "live" => r = current /\ regs[r].chord = stored
  BY <1>3, WhatIsArmed
<1>5. CASE DrainFailed
  <2> DEFINE over == {r \in Pending : regs[r].native \in {"ended", "failed"}}
             new(r) == IF r \in over THEN [regs[r] EXCEPT !.native = "joined"] ELSE regs[r]
  <2>1. regs' = [r \in DOMAIN regs |-> new(r)] /\ (UNCHANGED call \/ Return(FALSE))
    BY <1>5 DEF DrainFailed
  <2>2. ASSUME NEW r \in DOMAIN regs
        PROVE  /\ new(r) \in RegType
               /\ new(r).native = "live" =>
                    regs[r].native = "live" /\ new(r).chord = regs[r].chord
                      /\ new(r).cancel = regs[r].cancel
    <3>1. PICK o \in RegType : o = regs[r]
      BY RegIsTyped
    <3> QED BY <3>1 DEF RegType, Natives
  <2>3. NothingArmed
    <3>1. regs \in Seq(RegType) /\ DOMAIN regs = 1 .. Len(regs) /\ Len(regs) \in Nat
      BY DEF ShortcutInv, ShortcutTyped
    <3> HIDE DEF new
    <3>2. regs' \in Seq(RegType)
      BY <3>1, <2>1, <2>2
    <3> QED BY <3>2, <2>1, <2>2 DEF NothingArmed
  <2>4. CASE UNCHANGED call
    <3>1. CallKnows'
      BY <1>1, <1>2, <1>3, <2>4 DEF CallKnows
    <3>2. ASSUME NEW r \in DOMAIN regs, ArmedKnown(r), regs'[r].native = "live"
          PROVE  ArmedKnown(r)'
      BY <1>1, <2>3, <2>4, <3>2 DEF ArmedKnown, NothingArmed
    <3> QED BY <1>1, <1>2, <2>3, <2>4, <3>1, <3>2, CallKeeps, CallIsTyped
  <2>5. CASE Return(FALSE)
    <3>1. \A r \in DOMAIN regs : regs'[r].native = "live" => r = current' /\ regs'[r].chord = stored
      BY <1>1, <1>4, <2>3 DEF NothingArmed
    <3> QED BY <1>1, <1>2, <2>3, <2>5, <3>1, ReturnKeeps
  <2> QED BY <2>1, <2>4, <2>5
<1>6. CASE Drain
  <2>1. UNCHANGED regs
    BY <1>6 DEF Drain
  <2>2. CASE Leftover
    <3>1. /\ retained # <<>>
          /\ call' = [call EXCEPT !.at = "cancel", !.target = Head(retained), !.why = "retained"]
      BY <1>6, <2>2 DEF Drain, Leftover
    <3>2. /\ call' \in CallType /\ call'.at = "cancel" /\ call'.want = call.want
          /\ call'.next = 0 /\ call'.why = "retained"
      <4>1. Head(retained) \in Nat
        BY <1>2, <3>1
      <4> QED BY <1>3, <3>1, <4>1, StopGoes DEF Whys
    <3>3. CallKnows'
      BY <1>1, <3>1, <3>2 DEF CallKnows, Stopping
    <3> QED BY <1>1, <1>2, <1>3, <1>4, <2>1, <3>2, <3>3, GoesOn
  <2>3. CASE ~Leftover /\ Stale
    <3>1. call' = [call EXCEPT !.at = "cancel", !.target = current, !.why = "stale"]
      BY <1>6, <2>3 DEF Drain
    <3>2. /\ call' \in CallType /\ call'.at = "cancel" /\ call'.want = call.want
          /\ call'.next = 0 /\ call'.target = current /\ call'.why = "stale"
      BY <1>2, <1>3, <3>1, StopGoes DEF Whys
    <3>3. CallKnows'
      BY <1>1, <3>2 DEF CallKnows, Stopping
    <3> QED BY <1>1, <1>2, <1>3, <1>4, <2>1, <3>2, <3>3, GoesOn
  <2>4. CASE ~Leftover /\ ~Stale /\ call.kind = "stop"
    <3>1. Return(TRUE)
      BY <1>6, <2>4 DEF Drain
    <3> QED BY <1>1, <1>2, <1>3, <1>4, <2>1, <3>1, ReturnHere
  <2>5. CASE ~Leftover /\ ~Stale /\ call.kind # "stop"
    <3>1. GoTo("check")
      BY <1>6, <2>5 DEF Drain
    <3>2. /\ call' \in CallType /\ call'.at = "check" /\ call'.want = call.want
          /\ call'.next = 0
      BY <1>3, <3>1, Going DEF CallPlaces
    <3>3. CallKnows'
      BY <3>2 DEF CallKnows, Stopping
    <3> QED BY <1>1, <1>2, <1>3, <1>4, <2>1, <3>2, <3>3, GoesOn
  <2> QED BY <2>2, <2>3, <2>4, <2>5
<1> QED BY <1>5, <1>6

LEMMA Checking ==
  ASSUME ShortcutInv, CheckChord
  PROVE  ShortcutInv'
<1>1. UNCHANGED <<regs, current, retained, stored>> /\ call.at = "check"
  BY DEF CheckChord, At
<1>2. CallKnows /\ current \in Nat /\ stored \in ChordOrNone
  BY DEF ShortcutInv, ShortcutTyped
<1>3. call.next = 0 /\ call.at \notin Stopping
  BY <1>1, <1>2 DEF CallKnows, Stopping
<1>4. \A r \in DOMAIN regs : regs[r].native = "live" => r = current /\ regs[r].chord = stored
  BY <1>3, WhatIsArmed
<1>5. ASSUME NEW ok \in BOOLEAN, Return(ok) PROVE ShortcutInv'
  BY <1>1, <1>2, <1>3, <1>4, <1>5, ReturnHere
<1>6. ASSUME NEW place \in {"old", "register"}, GoTo(place) PROVE ShortcutInv'
  <2>1. call' \in CallType /\ call'.at = place /\ call'.next = 0
    BY <1>3, <1>6, Going DEF CallPlaces
  <2>2. CallKnows'
    BY <2>1 DEF CallKnows, Stopping
  <2> QED BY <1>1, <1>2, <1>3, <1>4, <2>1, <2>2, GoesOn
<1>7. \/ Return(FALSE) \/ Return(TRUE) \/ GoTo("old") \/ GoTo("register")
  <2>1. CASE call.want = ""
    BY <2>1 DEF CheckChord
  <2>2. CASE call.want # ""
    BY <2>2 DEF CheckChord
  <2> QED BY <2>1, <2>2
<1> QED BY <1>5, <1>6, <1>7

LEMMA Registering ==
  ASSUME ShortcutInv, Register
  PROVE  ShortcutInv'
<1>1. UNCHANGED <<current, retained, stored>> /\ call.at = "register"
  BY DEF Register, At
<1>2. /\ CallKnows /\ current \in Nat /\ retained \in Seq(Nat) /\ stored \in ChordOrNone
      /\ regs \in Seq(RegType) /\ Len(regs) \in Nat /\ DOMAIN regs = 1 .. Len(regs)
  BY DEF ShortcutInv, ShortcutTyped
<1>3. call.next = 0 /\ call.at \notin Stopping
  BY <1>1, <1>2 DEF CallKnows, Stopping
<1>4. \A r \in DOMAIN regs : regs[r].native = "live" =>
        r = current /\ regs[r].chord = stored /\ ~regs[r].cancel
  BY <1>3, WhatIsArmed
<1>5. ASSUME NEW n \in RegType, regs' = Append(regs, n),
             \/ Return(FALSE) /\ n.native # "live"
             \/ /\ call' = [call EXCEPT !.at = "old", !.next = Len(regs) + 1]
                /\ n.chord = call.want /\ ~n.cancel
      PROVE  ShortcutInv'
  <2>1. /\ regs' \in Seq(RegType) /\ DOMAIN regs' = DOMAIN regs \cup {Len(regs) + 1}
        /\ regs'[Len(regs) + 1] = n /\ \A r \in DOMAIN regs : regs'[r] = regs[r]
    BY <1>2, <1>5
  <2>2. CASE Return(FALSE) /\ n.native # "live"
    <3>1. call' = NoCall
      BY <2>2 DEF Return
    <3>2. CallKnows'
      BY <3>1, NobodyCalls DEF CallKnows, Stopping
    <3>3. \A r \in DOMAIN regs' : ArmedKnown(r)'
      BY <1>1, <1>4, <2>1, <2>2, <3>1, NobodyCalls DEF ArmedKnown
    <3> QED BY <1>1, <1>2, <2>1, <3>1, <3>2, <3>3, NobodyCalls DEF ShortcutInv, ShortcutTyped
  <2>3. CASE /\ call' = [call EXCEPT !.at = "old", !.next = Len(regs) + 1]
             /\ n.chord = call.want /\ ~n.cancel
    <3>1. /\ call' \in CallType /\ call'.at = "old" /\ call'.want = call.want
          /\ call'.next = Len(regs) + 1
      <4> PICK o \in CallType : o = call
        BY CallIsTyped
      <4> DEFINE m == [o EXCEPT !.at = "old", !.next = Len(regs) + 1]
      <4>1. /\ m.at = "old" /\ m.want = o.want /\ m.next = Len(regs) + 1
            /\ m.target = o.target /\ m.why = o.why /\ m.kind = o.kind
        BY Zenon DEF CallType
      <4>2. m \in CallType
        <5>1. Len(regs) + 1 \in Nat
          BY <1>2
        <5> HIDE <1>2
        <5> QED BY <4>1, <5>1 DEF CallType, CallPlaces
      <4>3. call' = m
        BY <2>3
      <4> HIDE DEF m
      <4> QED BY <4>1, <4>2, <4>3
    <3>2. CallKnows'
      BY <3>1 DEF CallKnows, Stopping
    <3>3. ASSUME NEW r \in DOMAIN regs' PROVE ArmedKnown(r)'
      <4>1. CASE r \in DOMAIN regs
        <5>1. regs'[r] = regs[r]
          BY <2>1, <4>1
        <5> QED BY <1>1, <1>4, <3>1, <4>1, <5>1 DEF ArmedKnown
      <4>2. CASE r = Len(regs) + 1
        BY <2>1, <2>3, <3>1, <4>2 DEF ArmedKnown
      <4> QED BY <2>1, <4>1, <4>2
    <3> QED BY <1>1, <1>2, <2>1, <3>1, <3>2, <3>3 DEF ShortcutInv, ShortcutTyped
  <2> QED BY <1>5, <2>2, <2>3
<1>6. call.want \in ChordOrNone
  BY CallIsTyped
<1> DEFINE new == NewReg(call.want)
<1>7. /\ new \in RegType /\ new.chord = call.want /\ ~new.cancel
      /\ \A native \in {"mute", "joined"}, worker \in {"recv", "joined"} :
           LET failed == [new EXCEPT !.native = native, !.pending = TRUE, !.cancel = TRUE,
                                     !.wake = TRUE, !.worker = worker] IN
           failed \in RegType /\ failed.native # "live"
  BY <1>6 DEF NewReg, RegType, Natives, Workings
<1>8. CASE regs' = Append(regs, new) /\ call' = [call EXCEPT !.at = "old", !.next = Len(regs) + 1]
  <2> HIDE DEF new
  <2> QED BY <1>5, <1>7, <1>8
<1>9. CASE /\ \E native \in {"mute", "joined"}, worker \in {"recv", "joined"} :
                regs' = Append(regs, [new EXCEPT !.native = native, !.pending = TRUE,
                                        !.cancel = TRUE, !.wake = TRUE, !.worker = worker])
           /\ Return(FALSE)
  <2> HIDE DEF new
  <2>1. PICK native \in {"mute", "joined"}, worker \in {"recv", "joined"} :
               regs' = Append(regs, [new EXCEPT !.native = native, !.pending = TRUE,
                                       !.cancel = TRUE, !.wake = TRUE, !.worker = worker])
    BY <1>9
  <2> DEFINE failed == [new EXCEPT !.native = native, !.pending = TRUE, !.cancel = TRUE,
                                   !.wake = TRUE, !.worker = worker]
  <2>2. failed \in RegType /\ failed.native # "live" /\ regs' = Append(regs, failed)
    BY <1>7, <2>1
  <2> HIDE DEF failed
  <2> QED BY <1>5, <1>9, <2>2
<1> QED BY <1>8, <1>9 DEF Register

LEMMA Replacing ==
  ASSUME ShortcutInv, StopOld \/ Store \/ Publish
  PROVE  ShortcutInv'
<1>1. UNCHANGED <<regs, retained>> /\ call.at \in {"old", "store", "publish"}
  BY DEF StopOld, Store, Publish, At
<1>2. CallKnows /\ current \in Nat /\ stored \in ChordOrNone /\ call.at \notin Stopping
  BY <1>1 DEF ShortcutInv, ShortcutTyped, Stopping
<1>3. call.next \in Nat /\ call.want \in ChordOrNone
  BY CallIsTyped
<1>4. \A r \in DOMAIN regs : regs[r].native = "live" =>
        /\ r # 0
        /\ \/ r = current /\ regs[r].chord = stored
           \/ r = call.next /\ regs[r].chord = call.want
  BY <1>2, WhatIsArmed
<1>5. CASE StopOld
  <2>1. UNCHANGED <<current, stored>>
    BY <1>5 DEF StopOld
  <2>2. CASE current = 0
    <3>1. GoTo("store")
      BY <1>5, <2>2 DEF StopOld, GoTo
    <3>2. /\ call' \in CallType /\ call'.at = "store" /\ call'.want = call.want
          /\ call'.next = call.next
      BY <3>1, Going DEF CallPlaces
    <3>3. CallKnows'
      BY <2>1, <2>2, <3>2 DEF CallKnows, Stopping
    <3> QED BY <1>1, <1>2, <1>4, <2>1, <3>2, <3>3, GoesOn
  <2>3. CASE current # 0
    <3>1. call' = [call EXCEPT !.at = "cancel", !.target = current, !.why = "old"]
      BY <1>5, <2>3 DEF StopOld
    <3>2. /\ call' \in CallType /\ call'.at = "cancel" /\ call'.want = call.want
          /\ call'.next = call.next /\ call'.target = current /\ call'.why = "old"
      BY <1>2, <3>1, StopGoes DEF Whys
    <3>3. CallKnows'
      BY <2>1, <3>2 DEF CallKnows, Stopping
    <3> QED BY <1>1, <1>2, <1>4, <2>1, <3>2, <3>3, GoesOn
  <2> QED BY <2>2, <2>3
<1>6. CASE Store
  <2>1. current = 0
    BY <1>2, <1>6 DEF Store, At, CallKnows
  <2>2. CASE stored' = call.want /\ current' = call.next /\ GoTo("publish")
    <3>1. /\ call' \in CallType /\ call'.at = "publish" /\ call'.want = call.want
          /\ call'.next = call.next
      BY <2>2, Going DEF CallPlaces
    <3>2. CallKnows'
      BY <2>2, <3>1 DEF CallKnows, Stopping
    <3>3. \A r \in DOMAIN regs : regs[r].native = "live" =>
            r = call'.next /\ regs[r].chord = call'.want
      BY <1>4, <2>1, <3>1
    <3> QED BY <1>1, <1>2, <1>3, <2>2, <3>1, <3>2, <3>3, GoesOn
  <2>3. CASE Unstored /\ UNCHANGED stored
    <3>1. current' = 0
      BY <2>3 DEF Unstored
    <3>2. CASE call.next = 0
      <4>1. Return(FALSE)
        BY <2>3, <3>2 DEF Unstored
      <4>2. \A r \in DOMAIN regs : regs[r].native # "live"
        BY <1>4, <2>1, <3>2
      <4> QED BY <1>1, <1>2, <2>3, <3>1, <4>1, <4>2, ReturnHere
    <3>3. CASE call.next # 0
      <4>1. call' = [call EXCEPT !.at = "cancel", !.target = call.next, !.why = "next"]
        BY <2>3, <3>3 DEF Unstored
      <4>2. /\ call' \in CallType /\ call'.at = "cancel" /\ call'.want = call.want
            /\ call'.next = call.next /\ call'.target = call.next /\ call'.why = "next"
        BY <1>3, <4>1, StopGoes DEF Whys
      <4>3. CallKnows'
        BY <4>2 DEF CallKnows, Stopping
      <4>4. \A r \in DOMAIN regs : regs[r].native = "live" =>
              r = call'.next /\ regs[r].chord = call'.want
        BY <1>4, <2>1, <4>2
      <4> QED BY <1>1, <1>2, <2>3, <3>1, <4>2, <4>3, <4>4, GoesOn
    <3> QED BY <3>2, <3>3
  <2> QED BY <1>6, <2>2, <2>3 DEF Store
<1>7. CASE Publish
  <2>1. PICK ok \in BOOLEAN : Return(ok)
    BY <1>7 DEF Publish
  <2>2. UNCHANGED <<current, stored>> /\ current = call.next /\ stored = call.want
    BY <1>2, <1>7 DEF Publish, At, CallKnows
  <2>3. \A r \in DOMAIN regs : regs[r].native = "live" => r = current' /\ regs[r].chord = stored
    BY <1>4, <2>2
  <2> QED BY <1>1, <1>2, <2>1, <2>2, <2>3, ReturnHere
<1> QED BY <1>5, <1>6, <1>7

LEMMA OthersRun ==
  ASSUME ShortcutInv, NEW r \in DOMAIN regs, ThreadStep(r)
  PROVE  ShortcutInv'
<1>1. NothingArmed /\ \A u \in DOMAIN regs : regs'[u].cancel = regs[u].cancel
  BY ThreadsArmNothing
<1>2. UNCHANGED <<current, retained, stored, call>>
  BY DEF ThreadStep, PressChord, Ring, NativeEnds, Receive, Try, Expire, Others
<1>3. CallKnows /\ call.at \in CallPlaces
  BY CallIsTyped DEF ShortcutInv
<1>4. CallKnows'
  BY <1>2, <1>3 DEF CallKnows
<1>5. ASSUME NEW u \in DOMAIN regs, ArmedKnown(u), regs'[u].native = "live"
      PROVE  ArmedKnown(u)'
  BY <1>1, <1>2, <1>5 DEF ArmedKnown, NothingArmed
<1>6. NothingArmed /\ current' \in Nat /\ retained' \in Seq(Nat) /\ stored' \in ChordOrNone
        /\ call' \in CallType
  BY <1>1, <1>2 DEF ShortcutInv, ShortcutTyped
<1> QED BY <1>4, <1>5, <1>6, CallKeeps

\* Between calls the chord that toggles the session is the one in the settings.
THEOREM LiveIsStoredHolds == ShortcutSpec => []LiveIsStored
<1>1. ShortcutInit => ShortcutInv /\ Started
  <2>1. ShortcutInit => commands = 0 /\ call = NoCall
    BY DEF ShortcutInit
  <2>2. ShortcutInit => Started
    BY <2>1 DEF Started
  <2> QED BY <2>2, ShortcutBegins
<1>2. ShortcutInv /\ Started /\ [ShortcutNext]_shortcutVars => (ShortcutInv /\ Started)'
  <2> SUFFICES ASSUME ShortcutInv, Started, [ShortcutNext]_shortcutVars
               PROVE  ShortcutInv' /\ Started'
    OBVIOUS
  <2>1. CASE UNCHANGED shortcutVars \/ OtherRequest
    <3>1. UNCHANGED <<regs, current, retained, stored, call>>
      BY <2>1 DEF shortcutVars, OtherRequest
    <3>2. UNCHANGED commands
      BY <2>1 DEF shortcutVars, OtherRequest
    <3>3. Started'
      BY <3>1, <3>2 DEF Started
    <3> QED BY <3>1, <3>3 DEF ShortcutInv, ShortcutTyped, CallKnows, ArmedKnown
  <2>2. CASE ShortcutNext /\ ~OtherRequest
    <3>1. Started'
      BY <2>2, StartedKept
    <3>2. ShortcutInv'
      BY <2>2, ShortcutStarts, OnTheWay, Joining, Draining, Checking, Registering, Replacing,
        OthersRun DEF ShortcutNext, CallStep
    <3> QED BY <3>1, <3>2
  <2> QED BY <2>1, <2>2
<1>3. ShortcutInv => LiveIsStored
  <2> SUFFICES ASSUME ShortcutInv, call = NoCall, NEW r \in DOMAIN regs, regs[r].native = "live"
               PROVE  r = current /\ regs[r].chord = stored /\ ~regs[r].cancel
    BY DEF LiveIsStored
  <2> QED BY WhatIsArmed, NobodyCalls DEF Stopping
<1> QED BY <1>1, <1>2, <1>3, PTL DEF ShortcutSpec

-----------------------------------------------------------------------------
(* Quick Paste's panel.                                                    *)

ModelType ==
  [display : Nat, visible : BOOLEAN, rev : Nat, raw : Texts, applied : Texts, seq : Nat,
   entries : Seq(Nat), selected : Nat \ {0}, more : BOOLEAN, loading : BOOLEAN,
   composing : BOOLEAN, pending : BOOLEAN, failed : BOOLEAN]
InputType == [text : Texts, composing : BOOLEAN]

\* Rows are those of one query in one history.
Fits(m, h) ==
  /\ m \in ModelType
  /\ m.visible => m.rev \in DOMAIN h
  /\ m.entries # <<>> =>
       m.visible /\ m.applied = m.raw /\ IsPrefix(m.entries, FoundAmong(h[m.rev], m.raw))

PanelInv ==
  /\ hist \in Seq(Seq(Nat)) /\ hist # <<>>
  /\ Fits(model, hist)
  /\ input \in InputType
  /\ frame # NoFrame => frame.rows = model.entries
  /\ news \in 0 .. Len(hist)
  /\ turns \in Nat

LEMMA ModelFields ==
  ASSUME NEW m \in ModelType
  PROVE  /\ m.display \in Nat /\ m.visible \in BOOLEAN /\ m.rev \in Nat /\ m.raw \in Texts
         /\ m.applied \in Texts /\ m.seq \in Nat /\ m.entries \in Seq(Nat)
         /\ m.selected \in Nat \ {0} /\ m.more \in BOOLEAN /\ m.loading \in BOOLEAN
         /\ m.composing \in BOOLEAN /\ m.pending \in BOOLEAN /\ m.failed \in BOOLEAN
BY DEF ModelType

LEMMA TextsHaveNone ==
  "" \in Texts /\ <<>> \in Seq(Nat) /\ 1 \in Nat \ {0}
<1>1. "" \in Texts
  BY PanelAssumption
<1>2. <<>> \in Seq(Nat) /\ 1 \in Nat \ {0}
  OBVIOUS
<1> QED BY <1>1, <1>2

LEMMA Cleared ==
  ASSUME NEW m \in ModelType
  PROVE  /\ ClearResults(m) \in ModelType /\ ClearResults(m).entries = <<>>
         /\ ClearResults(m).visible = m.visible /\ ClearResults(m).rev = m.rev
<1>1. m \in ModelType /\ "" \in Texts /\ <<>> \in Seq(Nat) /\ 1 \in Nat \ {0}
  BY TextsHaveNone
<1>3. m.seq + 1 \in Nat
  BY ModelFields
<1> DEFINE n == [m EXCEPT !.entries = <<>>, !.more = FALSE, !.selected = 1, !.applied = ""]
<1>4. /\ n.display = m.display /\ n.visible = m.visible /\ n.rev = m.rev /\ n.raw = m.raw
      /\ n.applied = "" /\ n.seq = m.seq /\ n.entries = <<>> /\ n.selected = 1
      /\ n.more = FALSE /\ n.loading = m.loading /\ n.composing = m.composing /\ n.pending = m.pending
      /\ n.failed = m.failed
  BY Zenon, <1>1 DEF ModelType
<1>5. n \in ModelType
  BY <1>1, <1>3, <1>4, ModelFields DEF ModelType
<1> HIDE DEF n
<1> QED BY <1>4, <1>5, Zenon DEF ClearResults, n

LEMMA Begun ==
  ASSUME NEW m \in ModelType, NEW offset \in Nat
  PROVE  /\ Begin(m, offset) \in ModelType
         /\ Begin(m, offset).visible = m.visible /\ Begin(m, offset).rev = m.rev
         /\ IF offset = 0 THEN Begin(m, offset).entries = <<>>
            ELSE /\ Begin(m, offset).entries = m.entries /\ Begin(m, offset).raw = m.raw
                 /\ Begin(m, offset).applied = m.applied
<1> DEFINE o == IF offset = 0 THEN ClearResults(m) ELSE m
<1>1. /\ o \in ModelType /\ o.visible = m.visible /\ o.rev = m.rev
      /\ IF offset = 0 THEN o.entries = <<>>
         ELSE o.entries = m.entries /\ o.raw = m.raw /\ o.applied = m.applied
  BY Cleared
<1>2. Begin(m, offset) = [o EXCEPT !.seq = @ + 1, !.loading = TRUE, !.failed = FALSE]
  BY DEF Begin
<1> HIDE DEF o
<1>3. o.seq + 1 \in Nat
  BY <1>1, ModelFields
<1> DEFINE n == [o EXCEPT !.seq = @ + 1, !.loading = TRUE, !.failed = FALSE]
<1>4. /\ n.display = o.display /\ n.visible = o.visible /\ n.rev = o.rev /\ n.raw = o.raw
      /\ n.applied = o.applied /\ n.seq = o.seq + 1 /\ n.entries = o.entries /\ n.selected = o.selected
      /\ n.more = o.more /\ n.loading = TRUE /\ n.composing = o.composing /\ n.pending = o.pending
      /\ n.failed = FALSE
  BY Zenon, <1>1 DEF ModelType
<1>5. n \in ModelType
  BY <1>1, <1>3, <1>4, ModelFields DEF ModelType
<1> HIDE DEF n
<1>6. Begin(m, offset) = n
  BY <1>2 DEF n
<1> QED BY <1>1, <1>4, <1>5, <1>6

LEMMA ChangedIsEmpty ==
  ASSUME NEW m \in ModelType, NEW text \in Texts, NEW composing \in BOOLEAN
  PROVE  /\ Changed(m, text, composing) \in ModelType
         /\ Changed(m, text, composing).entries = <<>>
         /\ Changed(m, text, composing).visible = m.visible
         /\ Changed(m, text, composing).rev = m.rev
<1> DEFINE o == ClearResults(m)
<1>1. o \in ModelType /\ o.visible = m.visible /\ o.rev = m.rev /\ o.entries = <<>>
  BY Cleared
<1>2. Changed(m, text, composing) = [o EXCEPT !.seq = @ + 1, !.raw = text, !.composing = composing,
                          !.failed = FALSE, !.loading = TRUE]
  BY DEF Changed
<1> HIDE DEF o
<1>3. o.seq + 1 \in Nat
  BY <1>1, ModelFields
<1> DEFINE n == [o EXCEPT !.seq = @ + 1, !.raw = text, !.composing = composing,
                        !.failed = FALSE, !.loading = TRUE]
<1>4. /\ n.display = o.display /\ n.visible = o.visible /\ n.rev = o.rev /\ n.raw = text
      /\ n.applied = o.applied /\ n.seq = o.seq + 1 /\ n.entries = o.entries /\ n.selected = o.selected
      /\ n.more = o.more /\ n.loading = TRUE /\ n.composing = composing /\ n.pending = o.pending
      /\ n.failed = FALSE
  BY Zenon, <1>1 DEF ModelType
<1>5. n \in ModelType
  BY <1>1, <1>3, <1>4, ModelFields DEF ModelType
<1> HIDE DEF n
<1>6. Changed(m, text, composing) = n
  BY <1>2 DEF n
<1> QED BY <1>1, <1>4, <1>5, <1>6

LEMMA FailedIsEmpty ==
  ASSUME NEW m \in ModelType
  PROVE  /\ Failed(m) \in ModelType /\ Failed(m).entries = <<>>
         /\ Failed(m).visible = m.visible /\ Failed(m).rev = m.rev
<1> DEFINE o == ClearResults(m)
<1>1. o \in ModelType /\ o.visible = m.visible /\ o.rev = m.rev /\ o.entries = <<>>
  BY Cleared
<1>2. Failed(m) = [o EXCEPT !.seq = @ + 1, !.loading = FALSE, !.failed = TRUE]
  BY DEF Failed
<1> HIDE DEF o
<1>3. o.seq + 1 \in Nat
  BY <1>1, ModelFields
<1> DEFINE n == [o EXCEPT !.seq = @ + 1, !.loading = FALSE, !.failed = TRUE]
<1>4. /\ n.display = o.display /\ n.visible = o.visible /\ n.rev = o.rev /\ n.raw = o.raw
      /\ n.applied = o.applied /\ n.seq = o.seq + 1 /\ n.entries = o.entries /\ n.selected = o.selected
      /\ n.more = o.more /\ n.loading = FALSE /\ n.composing = o.composing /\ n.pending = o.pending
      /\ n.failed = TRUE
  BY Zenon, <1>1 DEF ModelType
<1>5. n \in ModelType
  BY <1>1, <1>3, <1>4, ModelFields DEF ModelType
<1> HIDE DEF n
<1>6. Failed(m) = n
  BY <1>2 DEF n
<1> QED BY <1>1, <1>4, <1>5, <1>6

LEMMA ClosedIsTyped ==
  Closed \in ModelType /\ Closed.entries = <<>> /\ ~Closed.visible
<1>1. "" \in Texts /\ <<>> \in Seq(Nat) /\ 1 \in Nat \ {0}
  BY TextsHaveNone
<1> QED BY <1>1 DEF Closed, ModelType

LEMMA ClearIsEmpty ==
  ASSUME NEW m \in ModelType
  PROVE  Clear(m) \in ModelType /\ Clear(m).entries = <<>> /\ ~Clear(m).visible
<1>1. Closed \in ModelType /\ Closed.entries = <<>> /\ ~Closed.visible
  BY ClosedIsTyped
<1>2. PICK o \in ModelType : o = Closed
  BY <1>1
<1>3. m.seq + 1 \in Nat
  BY ModelFields
<1> DEFINE n == [o EXCEPT !.seq = m.seq + 1]
<1>4. /\ n.display = o.display /\ n.visible = o.visible /\ n.rev = o.rev /\ n.raw = o.raw
      /\ n.applied = o.applied /\ n.seq = m.seq + 1 /\ n.entries = o.entries /\ n.selected = o.selected
      /\ n.more = o.more /\ n.loading = o.loading /\ n.composing = o.composing /\ n.pending = o.pending
      /\ n.failed = o.failed
  BY Zenon, <1>1 DEF ModelType
<1>5. n \in ModelType
  BY <1>1, <1>2, <1>3, <1>4, ModelFields DEF ModelType
<1> HIDE DEF n
<1> QED BY <1>1, <1>2, <1>4, <1>5, Zenon DEF Clear, n

LEMMA NatSet ==
  ASSUME NEW S, 0 \in S, \A n \in Nat : n \in S => n + 1 \in S
  PROVE  Nat \subseteq S
<1> DEFINE T == Nat \ S
           R == {ss \in Nat \X Nat : ss[1] < ss[2]}
<1>1. IsWellFoundedOn(R, Nat)
  BY NatLessThanWellFounded DEF OpToRel
<1>2. ASSUME T # {} PROVE FALSE
  <2> HIDE DEF R
  <2>1. \E x \in T : \A y \in T : ~(<<y, x>> \in R)
    <3> HIDE DEF T
    <3>1. T \subseteq Nat BY DEF T
    <3> QED BY <1>1, <1>2, <3>1, WFMin
  <2>2. PICK x \in T : \A y \in T : <<y, x>> \notin R BY <2>1
  <2>3. x # 0 /\ x - 1 \in Nat /\ x \in Nat OBVIOUS
  <2>4. x - 1 \notin S 
    BY <2>3
  <2>5. <<x - 1, x>> \in R BY <2>3 DEF R
  <2> QED BY <2>2, <2>3, <2>4, <2>5
<1> QED BY <1>2

LEMMA FoundIsTyped ==
  ASSUME NEW entries \in Seq(Nat), NEW text
  PROVE  FoundAmong(entries, text) \in Seq(Nat)
<1> DEFINE step(g, n) == IF n = 0 THEN <<>>
                         ELSE IF Finds(entries[n], text) THEN Append(g[n - 1], entries[n])
                              ELSE g[n - 1]
           Is(f, k) == f = [n \in 0 .. k |-> step(f, n)]
           S == {k \in Nat : k <= Len(entries) => \E f \in [0 .. k -> Seq(Nat)] : Is(f, k)}
<1>1. /\ Len(entries) \in Nat
      /\ \A n \in 1 .. Len(entries) : entries[n] \in Nat
  OBVIOUS
<1>2. ASSUME NEW n \in 0 .. Len(entries), NEW g, n = 0 \/ g[n - 1] \in Seq(Nat)
      PROVE  step(g, n) \in Seq(Nat)
  <2>1. CASE n = 0
    BY <2>1
  <2>2. CASE n # 0
    <3>1. g[n - 1] \in Seq(Nat) /\ entries[n] \in Nat
      BY <1>1, <1>2, <2>2
    <3> QED BY <2>2, <3>1
  <2> QED BY <2>1, <2>2
<1>3. ASSUME NEW n, NEW g, NEW h, g[n - 1] = h[n - 1]
      PROVE  step(g, n) = step(h, n)
  BY <1>3
<1>4. \A g : step(g, 0) = <<>>
  OBVIOUS
<1> HIDE DEF step
<1>5. 0 \in S
  <2> DEFINE f == [n \in 0 .. 0 |-> <<>>]
  <2>1. f \in [0 .. 0 -> Seq(Nat)]
    OBVIOUS
  <2>2. \A n \in 0 .. 0 : step(f, n) = <<>>
    BY <1>4
  <2>3. Is(f, 0)
    BY <2>2
  <2> QED BY <2>1, <2>3
<1>6. ASSUME NEW k \in Nat, k \in S PROVE k + 1 \in S
  <2> HIDE DEF Is
  <2> SUFFICES ASSUME k + 1 <= Len(entries)
               PROVE  \E h \in [0 .. k + 1 -> Seq(Nat)] : Is(h, k + 1)
    OBVIOUS
  <2> USE DEF Is
  <2>1. PICK f \in [0 .. k -> Seq(Nat)] : Is(f, k)
    <3>1. k <= Len(entries)
      BY <1>1
    <3> QED
      BY <1>6, <3>1
  <2> DEFINE h == [n \in 0 .. k + 1 |-> IF n = k + 1 THEN step(f, n) ELSE f[n]]
  <2>2. step(f, k + 1) \in Seq(Nat)
    <3>1. f[(k + 1) - 1] \in Seq(Nat) /\ k + 1 \in 0 .. Len(entries)
      BY <1>1
    <3> QED BY <1>2, <3>1
  <2>3. h \in [0 .. k + 1 -> Seq(Nat)]
    <3>1. \A n \in 0 .. k + 1 : n # k + 1 => n \in 0 .. k
      OBVIOUS
    <3> QED BY <2>2, <3>1
  <2>4. ASSUME NEW n \in 0 .. k + 1 PROVE h[n] = step(h, n)
    <3>1. n = 0 \/ n - 1 \in 0 .. k
      OBVIOUS
    <3>2. n # 0 => step(h, n) = step(f, n)
      <4>1. SUFFICES ASSUME n # 0 PROVE h[n - 1] = f[n - 1]
        BY <1>3
      <4> QED BY <3>1, <4>1
    <3>3. CASE n = k + 1
      BY <3>2, <3>3
    <3>4. CASE n # k + 1
      <4>1. n \in 0 .. k /\ h[n] = f[n]
        BY <3>4
      <4>2. f[n] = step(f, n)
        BY <2>1, <4>1
      <4> QED BY <1>4, <3>2, <4>1, <4>2
    <3> QED BY <3>3, <3>4
  <2>5. Is(h, k + 1)
    <3>1. h = [n \in 0 .. k + 1 |-> h[n]]
      OBVIOUS
    <3> HIDE DEF h
    <3> QED BY <2>4, <3>1
  <2> HIDE DEF h, Is
  <2> QED BY <2>3, <2>5
<1>7. Len(entries) \in S
  <2> HIDE DEF S
  <2>1. \A n \in Nat : n \in S => n + 1 \in S
    BY <1>6
  <2> QED BY <1>1, <1>5, <2>1, NatSet
<1> DEFINE L == Len(entries)
           F == CHOOSE f : Is(f, L)
<1>8. Is(F, L)
  <2>1. \E f : Is(f, L)
    BY <1>1, <1>7
  <2> HIDE DEF Is
  <2> QED BY <2>1
<1>9. FoundAmong(entries, text) = F[L]
  BY DEF FoundAmong, step
<1> HIDE DEF F
<1> DEFINE V == {k \in Nat : k <= L => F[k] \in Seq(Nat)}
<1>10. 0 \in V
  <2>1. F[0] = step(F, 0)
    BY <1>1, <1>8
  <2>2. F[0] = <<>>
    BY <1>4, <2>1, Zenon
  <2>3. <<>> \in Seq(Nat)
    OBVIOUS
  <2> QED BY <2>2, <2>3
<1>11. ASSUME NEW k \in Nat, k \in V PROVE k + 1 \in V
  <2> SUFFICES ASSUME k + 1 <= L PROVE F[k + 1] \in Seq(Nat)
    OBVIOUS
  <2>1. F[(k + 1) - 1] \in Seq(Nat) /\ k + 1 \in 0 .. L
    BY <1>1, <1>11
  <2>2. F[k + 1] = step(F, k + 1)
    BY <1>8, <2>1
  <2> QED BY <1>2, <2>1, <2>2
<1>12. L \in V
  <2> HIDE DEF V
  <2>1. \A n \in Nat : n \in V => n + 1 \in V
    BY <1>11
  <2> QED BY <1>1, <1>10, <2>1, NatSet
<1> QED BY <1>1, <1>9, <1>12

\* The rows, the query and the history they were read in are as they were.
LEMMA Unmoved ==
  ASSUME NEW h, NEW m, Fits(m, h), NEW n \in ModelType, n.visible = m.visible, n.rev = m.rev,
         n.entries = m.entries, n.applied = m.applied, n.raw = m.raw
  PROVE  Fits(n, h)
BY DEF Fits

LEMMA EmptyFits ==
  ASSUME NEW h, NEW m \in ModelType, m.entries = <<>>, m.visible => m.rev \in DOMAIN h
  PROVE  Fits(m, h)
BY DEF Fits

LEMMA BeginFits ==
  ASSUME PanelInv, NEW offset \in Nat
  PROVE  Fits(Begin(model, offset), hist)
<1>1. Fits(model, hist) /\ model \in ModelType /\ (model.visible => model.rev \in DOMAIN hist)
  BY DEF PanelInv, Fits
<1>2. CASE offset = 0
  BY <1>1, <1>2, Begun, EmptyFits
<1>3. CASE offset # 0
  BY <1>1, <1>3, Begun, Unmoved
<1> QED BY <1>2, <1>3

LEMMA ClearFits ==
  ASSUME PanelInv
  PROVE  Fits(Clear(model), hist)
BY ClearIsEmpty, EmptyFits DEF PanelInv, Fits

LEMMA EditedFits ==
  ASSUME PanelInv, NEW composing \in BOOLEAN
  PROVE  Fits(Edited(composing), hist)
<1> DEFINE edited == Changed(model, input.text, composing)
<1>1. model \in ModelType /\ (model.visible => model.rev \in DOMAIN hist) /\ input.text \in Texts
  BY DEF PanelInv, Fits, InputType
<1>2. /\ edited \in ModelType /\ edited.entries = <<>>
      /\ edited.visible = model.visible /\ edited.rev = model.rev
  BY <1>1, ChangedIsEmpty
<1> HIDE DEF edited
<1>3. /\ Begin(edited, 0) \in ModelType /\ Begin(edited, 0).entries = <<>>
      /\ Begin(edited, 0).visible = model.visible /\ Begin(edited, 0).rev = model.rev
  BY <1>2, Begun
<1>4. Edited(composing) = IF composing THEN edited ELSE Begin(edited, 0)
  BY DEF Edited, edited
<1>5. /\ Edited(composing) \in ModelType /\ Edited(composing).entries = <<>>
      /\ Edited(composing).visible = model.visible /\ Edited(composing).rev = model.rev
  BY <1>2, <1>3, <1>4
<1> QED BY <1>1, <1>5, EmptyFits

LEMMA SelectedFits ==
  ASSUME PanelInv, NEW i \in Nat \ {0}
  PROVE  LET n == [model EXCEPT !.selected = i] IN Fits(n, hist) /\ n.entries = model.entries
<1>1. model \in ModelType /\ Fits(model, hist) /\ i \in Nat \ {0}
  BY DEF PanelInv, Fits
<1>2. model \in ModelType
  BY <1>1
<1> DEFINE n == [model EXCEPT !.selected = i]
<1>4. /\ n.display = model.display /\ n.visible = model.visible /\ n.rev = model.rev /\ n.raw = model.raw
      /\ n.applied = model.applied /\ n.seq = model.seq /\ n.entries = model.entries /\ n.selected = i
      /\ n.more = model.more /\ n.loading = model.loading /\ n.composing = model.composing /\ n.pending = model.pending
      /\ n.failed = model.failed
  BY Zenon, <1>2 DEF ModelType
<1>5. n \in ModelType
  BY <1>1, <1>4, ModelFields DEF ModelType
<1> HIDE DEF n
<1>6. Fits(n, hist)
  BY <1>1, <1>4, <1>5, Unmoved
<1> QED BY <1>4, <1>6 DEF n

LEMMA PendingFits ==
  ASSUME PanelInv
  PROVE  LET n == [model EXCEPT !.pending = TRUE] IN Fits(n, hist) /\ n.entries = model.entries
<1>1. model \in ModelType /\ Fits(model, hist)
  BY DEF PanelInv, Fits
<1>2. model \in ModelType
  BY <1>1
<1> DEFINE n == [model EXCEPT !.pending = TRUE]
<1>4. /\ n.display = model.display /\ n.visible = model.visible /\ n.rev = model.rev /\ n.raw = model.raw
      /\ n.applied = model.applied /\ n.seq = model.seq /\ n.entries = model.entries /\ n.selected = model.selected
      /\ n.more = model.more /\ n.loading = model.loading /\ n.composing = model.composing /\ n.pending = TRUE
      /\ n.failed = model.failed
  BY Zenon, <1>2 DEF ModelType
<1>5. n \in ModelType
  BY <1>1, <1>4, ModelFields DEF ModelType
<1> HIDE DEF n
<1>6. Fits(n, hist)
  BY <1>1, <1>4, <1>5, Unmoved
<1> QED BY <1>4, <1>6 DEF n

LEMMA UnpastedFits ==
  ASSUME PanelInv
  PROVE  LET n == [model EXCEPT !.pending = FALSE, !.failed = TRUE] IN
         Fits(n, hist) /\ n.entries = model.entries
<1>1. model \in ModelType /\ Fits(model, hist)
  BY DEF PanelInv, Fits
<1>2. model \in ModelType
  BY <1>1
<1> DEFINE n == [model EXCEPT !.pending = FALSE, !.failed = TRUE]
<1>4. /\ n.display = model.display /\ n.visible = model.visible /\ n.rev = model.rev /\ n.raw = model.raw
      /\ n.applied = model.applied /\ n.seq = model.seq /\ n.entries = model.entries /\ n.selected = model.selected
      /\ n.more = model.more /\ n.loading = model.loading /\ n.composing = model.composing /\ n.pending = FALSE
      /\ n.failed = TRUE
  BY Zenon, <1>2 DEF ModelType
<1>5. n \in ModelType
  BY <1>1, <1>4, ModelFields DEF ModelType
<1> HIDE DEF n
<1>6. Fits(n, hist)
  BY <1>1, <1>4, <1>5, Unmoved
<1> QED BY <1>4, <1>6 DEF n

LEMMA MovedIsTyped ==
  ASSUME PanelInv, NEW rev \in Nat
  PROVE  LET n == [model EXCEPT !.rev = rev] IN n \in ModelType /\ n.rev = rev
<1>1. model \in ModelType
  BY DEF PanelInv, Fits
<1>2. model \in ModelType
  BY <1>1
<1> DEFINE n == [model EXCEPT !.rev = rev]
<1>4. /\ n.display = model.display /\ n.visible = model.visible /\ n.rev = rev /\ n.raw = model.raw
      /\ n.applied = model.applied /\ n.seq = model.seq /\ n.entries = model.entries /\ n.selected = model.selected
      /\ n.more = model.more /\ n.loading = model.loading /\ n.composing = model.composing /\ n.pending = model.pending
      /\ n.failed = model.failed
  BY Zenon, <1>2 DEF ModelType
<1>5. n \in ModelType
  BY <1>1, <1>4, ModelFields DEF ModelType
<1> HIDE DEF n
<1> QED BY <1>4, <1>5 DEF n

LEMMA ShownFits ==
  ASSUME PanelInv
  PROVE  Fits([Clear(model) EXCEPT !.display = turns + 1, !.visible = TRUE, !.rev = Revision,
                                   !.loading = TRUE], hist)
<1> DEFINE o == Clear(model)
<1>1. o \in ModelType /\ o.entries = <<>> /\ turns + 1 \in Nat
  BY ClearIsEmpty DEF PanelInv, Fits
<1>3. Revision \in Nat /\ Revision \in DOMAIN hist
  BY DEF PanelInv, Revision
<1> HIDE DEF o
<1>2. o \in ModelType
  BY <1>1
<1> DEFINE n == [o EXCEPT !.display = turns + 1, !.visible = TRUE, !.rev = Revision,
                        !.loading = TRUE]
<1>4. /\ n.display = turns + 1 /\ n.visible = TRUE /\ n.rev = Revision /\ n.raw = o.raw
      /\ n.applied = o.applied /\ n.seq = o.seq /\ n.entries = o.entries /\ n.selected = o.selected
      /\ n.more = o.more /\ n.loading = TRUE /\ n.composing = o.composing /\ n.pending = o.pending
      /\ n.failed = o.failed
  BY Zenon, <1>2 DEF ModelType
<1>5. n \in ModelType
  BY <1>1, <1>3, <1>4, ModelFields DEF ModelType
<1> HIDE DEF n
<1>6. Fits(n, hist)
  BY <1>1, <1>3, <1>4, <1>5, EmptyFits
<1> QED BY <1>6 DEF n, o

\* A page that starts where the rows end is more of the same.
LEMMA PageContinues ==
  ASSUME NEW found \in Seq(Nat), NEW e \in Seq(Nat), IsPrefix(e, found),
         NEW last \in Len(e) .. Len(found)
  PROVE  LET rows == SubSeq(found, Len(e) + 1, last) IN
         rows \in Seq(Nat) /\ e \o rows \in Seq(Nat) /\ IsPrefix(e \o rows, found)
<1> DEFINE rows == SubSeq(found, Len(e) + 1, last)
           all == e \o rows
<1>1. /\ Len(e) \in Nat /\ Len(found) \in Nat /\ last \in Nat /\ Len(e) <= last
      /\ last <= Len(found)
  OBVIOUS
<1>2. rows \in Seq(Nat) /\ Len(rows) = last - Len(e)
  BY <1>1, SubSeqProperties
<1>3. \A i \in 1 .. Len(rows) : rows[i] = found[Len(e) + i]
  BY <1>1, <1>2
<1>4. \A i \in 1 .. Len(e) : e[i] = found[i]
  <2>1. SubSeq(e, 1, Len(e)) = SubSeq(found, 1, Len(e))
    BY DEF IsPrefix
  <2>2. ASSUME NEW i \in 1 .. Len(e) PROVE e[i] = found[i]
    <3>1. SubSeq(e, 1, Len(e))[i] = e[i] /\ SubSeq(found, 1, Len(e))[i] = found[i]
      BY <1>1
    <3> QED BY <2>1, <3>1
  <2> QED BY <2>2
<1> HIDE DEF rows
<1>5. all \in Seq(Nat) /\ Len(all) = last
  BY <1>1, <1>2
<1>6. \A i \in 1 .. last : all[i] = found[i]
  <2> SUFFICES ASSUME NEW i \in 1 .. last PROVE all[i] = found[i]
    OBVIOUS
  <2>1. CASE i <= Len(e)
    BY <1>1, <1>2, <1>4, <2>1
  <2>2. CASE i > Len(e)
    <3>1. i - Len(e) \in 1 .. Len(rows) /\ Len(e) + (i - Len(e)) = i
      BY <1>1, <1>2, <2>2
    <3>2. all[i] = rows[i - Len(e)]
      BY <1>1, <1>2, <2>2
    <3> QED BY <1>3, <3>1, <3>2
  <2>3. i <= Len(e) \/ i > Len(e)
    BY <1>1
  <2> HIDE DEF all
  <2> QED BY <2>1, <2>2, <2>3
<1> HIDE DEF all
<1>7. SubSeq(all, 1, last) = SubSeq(found, 1, last)
  <2>1. /\ SubSeq(all, 1, last) = [i \in 1 .. last |-> all[i]]
        /\ SubSeq(found, 1, last) = [i \in 1 .. last |-> found[i]]
    BY <1>1, <1>5
  <2> QED BY <1>6, <2>1
<1>8. IsPrefix(all, found)
  BY <1>1, <1>5, <1>7 DEF IsPrefix
<1> QED BY <1>2, <1>5, <1>8 DEF rows, all

LEMMA AppliedFits ==
  ASSUME PanelInv, NEW t, TicketCurrent(model, t), Acceptable(model, t, Page(t))
  PROVE  Fits(Applied(model, t, Page(t)), hist)
<1>1. model \in ModelType /\ Fits(model, hist)
  BY DEF PanelInv, Fits
<1>3. /\ model.visible /\ t.query = model.raw /\ t.rev = model.rev
      /\ t.offset = Len(model.entries)
  BY DEF TicketCurrent, Acceptable
<1> DEFINE found == FoundAmong(hist[model.rev], model.raw)
           e == model.entries
           last == IF Len(e) + PageSize < Len(found) THEN Len(e) + PageSize ELSE Len(found)
           page == Page(t)
<1>6. page.rows = SubSeq(found, Len(e) + 1, last)
  BY <1>3 DEF Page, Found
<1>7. found \in Seq(Nat)
  <2>1. model.rev \in DOMAIN hist
    BY <1>1, <1>3 DEF Fits
  <2>2. hist[model.rev] \in Seq(Nat)
    BY <2>1 DEF PanelInv
  <2> QED BY <2>2, FoundIsTyped
<1>8. e \in Seq(Nat)
  BY <1>1, ModelFields
<1> HIDE DEF found
<1>9. IsPrefix(e, found)
  <2>1. CASE e = <<>>
    <3>1. Len(e) = 0 /\ SubSeq(e, 1, 0) = <<>> /\ SubSeq(found, 1, 0) = <<>>
      BY <1>7, <2>1
    <3> QED BY <1>7, <3>1 DEF IsPrefix
  <2>2. CASE e # <<>>
    BY <1>1, <2>2 DEF Fits, found
  <2> QED BY <2>1, <2>2
<1>10. last \in Len(e) .. Len(found)
  <2>1. PageSize \in Nat
    BY PanelAssumption
  <2>2. Len(e) <= Len(found)
    BY <1>9 DEF IsPrefix
  <2>3. Len(e) \in Nat /\ Len(found) \in Nat
    BY <1>7, <1>8
  <2> HIDE DEF e
  <2> QED BY <2>1, <2>2, <2>3
<1> HIDE DEF last
<1>11. e \o page.rows \in Seq(Nat) /\ IsPrefix(e \o page.rows, found)
  <2> HIDE DEF e, page
  <2> QED BY <1>6, <1>7, <1>8, <1>9, <1>10, PageContinues
<1> DEFINE more == page.more /\ Len(e) + Len(page.rows) < MaxEntries
           rows == e \o page.rows
<1>12. more \in BOOLEAN /\ rows \in Seq(Nat)
  BY <1>11
<1> HIDE DEF page, more, rows
<1>2. model \in ModelType
  BY <1>1
<1> DEFINE n == [model EXCEPT !.entries = rows, !.applied = t.query, !.loading = FALSE, !.more = more]
<1>4. /\ n.display = model.display /\ n.visible = model.visible /\ n.rev = model.rev /\ n.raw = model.raw
      /\ n.applied = t.query /\ n.seq = model.seq /\ n.entries = rows /\ n.selected = model.selected
      /\ n.more = more /\ n.loading = FALSE /\ n.composing = model.composing /\ n.pending = model.pending
      /\ n.failed = model.failed
  BY Zenon, <1>2 DEF ModelType
<1>5. n \in ModelType
  BY <1>1, <1>3, <1>4, <1>12, ModelFields DEF ModelType
<1> HIDE DEF n
<1>13. Fits(n, hist)
  <2>1. n.visible /\ n.rev = model.rev /\ n.applied = n.raw /\ n.raw = model.raw
    BY <1>3, <1>4
  <2>2. model.rev \in DOMAIN hist
    BY <1>1, <1>3 DEF Fits
  <2>3. IsPrefix(n.entries, FoundAmong(hist[n.rev], n.raw))
    BY <1>4, <1>11, <2>1 DEF rows, found
  <2> QED BY <1>5, <2>1, <2>2, <2>3 DEF Fits
<1>14. Applied(model, t, Page(t)) = n
  BY DEF Applied, n, rows, more, page
<1> QED BY <1>13, <1>14

LEMMA PanelKeeps ==
  ASSUME PanelInv, UNCHANGED hist, Fits(model', hist), input' \in InputType,
         frame' # NoFrame => frame'.rows = model'.entries, news' \in 0 .. Len(hist), turns' \in Nat
  PROVE  PanelInv'
<1>1. hist' = hist /\ hist \in Seq(Seq(Nat)) /\ hist # <<>>
  BY DEF PanelInv
<1>2. Fits(model', hist')
  BY <1>1
<1> QED BY <1>1, <1>2 DEF PanelInv

\* What the steps below leave alone.
LEMMA PanelIs ==
  ASSUME PanelInv
  PROVE  /\ Fits(model, hist) /\ model \in ModelType /\ input \in InputType /\ turns \in Nat
         /\ news \in 0 .. Len(hist) /\ 0 \in 0 .. Len(hist) /\ Revision \in 0 .. Len(hist)
         /\ frame # NoFrame => frame.rows = model.entries
         /\ model.visible \in BOOLEAN /\ model.entries \in Seq(Nat)
BY ModelFields DEF PanelInv, Fits, Revision

LEMMA Hides ==
  ASSUME PanelInv, HideLocal, UNCHANGED hist, turns' \in Nat
  PROVE  PanelInv'
<1>1. Fits(model', hist) /\ frame' = NoFrame /\ news' = 0
  BY ClearFits DEF HideLocal
<1>2. input' \in InputType
  BY TextsHaveNone DEF HideLocal, InputType
<1> QED BY <1>1, <1>2, PanelIs, PanelKeeps

LEMMA Queries ==
  ASSUME PanelInv, NEW offset \in Nat, Query(model, offset),
         UNCHANGED <<hist, input>>, news' \in {0, news}, turns' \in Nat
  PROVE  PanelInv'
<1>1. Fits(model', hist) /\ frame' = NoFrame
  BY BeginFits DEF Query
<1> QED BY <1>1, PanelIs, PanelKeeps

LEMMA DisplaySteps ==
  ASSUME PanelInv, Show \/ Connect \/ Poll \/ Dismiss \/ PasteResult
  PROVE  PanelInv'
<1>1. CASE Show
  <2>1. Fits(model', hist) /\ frame' = NoFrame /\ news' = 0 /\ UNCHANGED hist
    BY <1>1, ShownFits DEF Show
  <2>2. input' \in InputType
    BY <1>1, TextsHaveNone DEF Show, InputType
  <2>3. turns' = turns + 1
    BY <1>1 DEF Show, Turn
  <2>4. turns' \in Nat
    BY <2>3, PanelIs
  <2> QED BY <2>1, <2>2, <2>4, PanelIs, PanelKeeps
<1>2. CASE Connect
  <2>1. UNCHANGED <<hist, turns>>
    BY <1>2 DEF Connect
  <2>2. \/ Query(model, 0) /\ UNCHANGED <<input, news>>
        \/ HideLocal
    BY <1>2 DEF Connect
  <2> QED BY <2>1, <2>2, PanelIs, Queries, Hides
<1>3. CASE Poll
  <2>1. UNCHANGED <<hist, model, input, frame, turns>> /\ news' = Revision
    BY <1>3 DEF Poll
  <2> QED BY <2>1, PanelIs, PanelKeeps
<1>4. CASE Dismiss
  <2>1. HideLocal /\ UNCHANGED hist /\ turns' = turns + 1
    BY <1>4 DEF Dismiss, Turn
  <2> QED BY <2>1, PanelIs, Hides
<1>5. CASE PasteResult
  <2>1. UNCHANGED <<hist, turns>>
    BY <1>5 DEF PasteResult
  <2>2. CASE HideLocal
    BY <2>1, <2>2, PanelIs, Hides
  <2>3. CASE ~HideLocal
    <3>1. /\ model' = [model EXCEPT !.pending = FALSE, !.failed = TRUE]
          /\ frame' = NoFrame /\ UNCHANGED <<input, news>>
      BY <1>5, <2>3 DEF PasteResult
    <3>2. Fits(model', hist)
      BY <3>1, UnpastedFits
    <3> QED BY <2>1, <3>1, <3>2, PanelIs, PanelKeeps
  <2> QED BY <2>2, <2>3
<1> QED BY <1>1, <1>2, <1>3, <1>4, <1>5

LEMMA QuerySteps ==
  ASSUME PanelInv,
         Refresh \/ TimerFires \/ \E c \in calls : HostAnswers(c) \/ Deliver(c)
  PROVE  PanelInv'
<1>1. UNCHANGED <<hist, turns>>
  BY DEF Refresh, TimerFires, HostAnswers, Deliver
<1>2. CASE Refresh
  <2> DEFINE seen == [model EXCEPT !.rev = news]
             moved == Begin(seen, 0)
  <2>1. news # 0 /\ news' = 0 /\ UNCHANGED input
    BY <1>2 DEF Refresh
  <2>2. \/ UNCHANGED <<model, frame>>
        \/ model' = moved /\ frame' = NoFrame
        \/ model' = Begin(moved, 0) /\ frame' = NoFrame
    BY <1>2 DEF Refresh, Query, Debounce
  <2>3. seen \in ModelType /\ seen.rev = news
    BY <2>1, PanelIs, MovedIsTyped
  <2>4. news \in DOMAIN hist
    BY <2>1 DEF PanelInv
  <2> HIDE DEF seen
  <2>5. moved \in ModelType /\ moved.entries = <<>> /\ moved.rev = news
    BY <2>3, Begun
  <2> HIDE DEF moved
  <2>6. /\ Begin(moved, 0) \in ModelType /\ Begin(moved, 0).entries = <<>>
        /\ Begin(moved, 0).rev = news
    BY <2>5, Begun
  <2>7. Fits(moved, hist) /\ Fits(Begin(moved, 0), hist)
    BY <2>4, <2>5, <2>6, EmptyFits
  <2>8. Fits(model', hist) /\ (frame' # NoFrame => frame'.rows = model'.entries)
    BY <2>2, <2>7, PanelIs
  <2> QED BY <1>1, <2>1, <2>8, PanelIs, PanelKeeps
<1>3. CASE TimerFires
  <2>1. \/ Query(model, 0)
        \/ UNCHANGED <<model, frame>>
    BY <1>3 DEF TimerFires
  <2>2. UNCHANGED <<input, news>>
    BY <1>3 DEF TimerFires
  <2>3. CASE Query(model, 0)
    BY <1>1, <2>2, <2>3, PanelIs, Queries
  <2>4. CASE UNCHANGED <<model, frame>>
    BY <1>1, <2>2, <2>4, PanelIs, PanelKeeps
  <2> QED BY <2>1, <2>3, <2>4
<1>4. ASSUME NEW c \in calls, HostAnswers(c) PROVE PanelInv'
  <2>1. UNCHANGED <<model, frame, input, news>>
    BY <1>4 DEF HostAnswers
  <2> QED BY <1>1, <2>1, PanelIs, PanelKeeps
<1>5. ASSUME NEW c \in calls, Deliver(c) PROVE PanelInv'
  <2> DEFINE t == c.ticket
             page == Page(t)
  <2>1. CASE UNCHANGED <<model, frame, input, news>>
    BY <1>1, <2>1, PanelIs, PanelKeeps
  <2>2. CASE model' = Failed(model) /\ frame' = NoFrame /\ UNCHANGED <<input, news>>
    <3>1. Fits(Failed(model), hist)
      <4>1. model.visible => model.rev \in DOMAIN hist
        BY DEF PanelInv, Fits
      <4> QED BY <4>1, PanelIs, FailedIsEmpty, EmptyFits
    <3> QED BY <1>1, <2>2, <3>1, PanelIs, PanelKeeps
  <2>3. CASE /\ TicketCurrent(model, t) /\ Acceptable(model, t, page)
             /\ model' = Applied(model, t, page) /\ frame' = NoFrame /\ UNCHANGED <<input, news>>
    BY <1>1, <2>3, AppliedFits, PanelIs, PanelKeeps
  <2>4. CASE /\ model' = Clear(model) /\ frame' = NoFrame /\ news' = 0
             /\ input' = [text |-> "", composing |-> FALSE]
    <3>1. input' \in InputType
      BY <2>4, TextsHaveNone DEF InputType
    <3> QED BY <1>1, <2>4, <3>1, ClearFits, PanelIs, PanelKeeps
  <2> QED BY <1>5, <2>1, <2>2, <2>3, <2>4 DEF Deliver
<1> QED BY <1>2, <1>3, <1>4, <1>5

LEMMA UserSteps ==
  ASSUME PanelInv,
         Type \/ Render \/ MoveSelection \/ Click \/ Paste \/ More \/ Retry
  PROVE  PanelInv'
<1>1. hist' = hist
  BY DEF Type, Render, MoveSelection, Click, Paste, More, Retry
<1>2. turns' \in Nat
  BY PanelIs DEF Type, Render, MoveSelection, Click, Paste, More, Retry, Turn
<1>3. CASE Type
  <2>1. UNCHANGED <<model, frame, news>>
    BY <1>3 DEF Type
  <2>2. input' \in InputType
    BY <1>3 DEF Type, InputType
  <2> QED BY <1>1, <1>2, <2>1, <2>2, PanelIs, PanelKeeps
<1>4. CASE Render
  <2>1. UNCHANGED <<input, news>> /\ frame' = CaptureView(model')
    BY <1>4 DEF Render
  <2>2. frame'.rows = model'.entries
    BY <2>1 DEF CaptureView
  <2>3. input.composing \in BOOLEAN
    BY PanelIs DEF InputType
  <2>4. model' = model \/ model' = Edited(input.composing)
    BY <1>4 DEF Render
  <2>5. Fits(model', hist)
    BY <2>3, <2>4, PanelIs, EditedFits
  <2> QED BY <1>1, <1>2, <2>1, <2>2, <2>5, PanelIs, PanelKeeps
<1>5. CASE MoveSelection \/ Click
  <2>1. UNCHANGED <<input, frame, news>>
    BY <1>5 DEF MoveSelection, Click
  <2>2. PICK i \in Nat \ {0} : model' = [model EXCEPT !.selected = i]
    <3>1. CASE MoveSelection
      <4>1. PICK i \in DOMAIN model.entries : model' = [model EXCEPT !.selected = i]
        BY <3>1 DEF MoveSelection
      <4>2. i \in Nat \ {0}
        BY PanelIs
      <4> QED BY <4>1, <4>2
    <3>2. CASE Click
      <4>1. PICK i \in 1 .. MaxEntries : model' = [model EXCEPT !.selected = i]
        BY <3>2 DEF Click
      <4>2. MaxEntries \in Nat
        BY PanelAssumption
      <4>3. i \in Nat \ {0}
        BY <4>2
      <4> QED BY <4>1, <4>3
    <3> QED BY <1>5, <3>1, <3>2
  <2>3. Fits(model', hist) /\ model'.entries = model.entries
    BY <2>2, SelectedFits
  <2> QED BY <1>1, <1>2, <2>1, <2>3, PanelIs, PanelKeeps
<1>6. CASE Paste
  <2>1. UNCHANGED <<input, news>> /\ frame' = NoFrame
    BY <1>6 DEF Paste
  <2>2. model' = Edited(model.composing) \/ model' = [model EXCEPT !.pending = TRUE]
    BY <1>6 DEF Paste
  <2>3. model.composing \in BOOLEAN
    BY PanelIs, ModelFields
  <2>4. Fits(model', hist)
    BY <2>2, <2>3, EditedFits, PendingFits
  <2> QED BY <1>1, <1>2, <2>1, <2>4, PanelIs, PanelKeeps
<1>7. CASE More \/ Retry
  <2>1. UNCHANGED <<input, news>> /\ \E offset \in {0, Len(model.entries)} : Query(model, offset)
    BY <1>7 DEF More, Retry
  <2>2. 0 \in Nat /\ Len(model.entries) \in Nat
    BY PanelIs
  <2> QED BY <1>1, <1>2, <2>1, <2>2, PanelIs, Queries
<1> QED BY <1>3, <1>4, <1>5, <1>6, <1>7

LEMMA HistoryStep ==
  ASSUME PanelInv, HistoryMoves
  PROVE  PanelInv'
<1>1. UNCHANGED <<model, input, frame, news>> /\ turns' = turns + 1
  BY DEF HistoryMoves, Turn
<1>2. hist \in Seq(Seq(Nat)) /\ hist # <<>> /\ Revision = Len(hist) /\ Revision \in DOMAIN hist
  BY DEF PanelInv, Revision
<1>3. PICK e : hist' = Append(hist, e) /\ e \in Seq(Nat)
  <2> DEFINE old == hist[Revision]
  <2>1. old \in Seq(Nat)
    BY <1>2
  <2> HIDE DEF old
  <2>2. CASE hist' = Append(hist, <<100 + turns>> \o old)
    <3>1. 100 + turns \in Nat
      BY PanelIs
    <3>2. <<100 + turns>> \in Seq(Nat)
      BY <3>1
    <3>3. <<100 + turns>> \o old \in Seq(Nat)
      BY <2>1, <3>2, ConcatProperties
    <3> QED BY <2>2, <3>3
  <2>3. CASE \E i \in DOMAIN old : hist' = Append(hist, RemoveAt(old, i))
    <3>1. PICK i \in DOMAIN old : hist' = Append(hist, RemoveAt(old, i))
      BY <2>3
    <3>2. i \in 1 .. Len(old) /\ Len(old) \in Nat
      BY <2>1
    <3>3. SubSeq(old, 1, i - 1) \in Seq(Nat) /\ SubSeq(old, i + 1, Len(old)) \in Seq(Nat)
      BY <2>1, <3>2
    <3>4. RemoveAt(old, i) \in Seq(Nat)
      BY <3>3, ConcatProperties DEF RemoveAt
    <3> QED BY <3>1, <3>4
  <2> QED BY <2>2, <2>3 DEF HistoryMoves, old
<1>4. /\ hist' \in Seq(Seq(Nat)) /\ hist' # <<>> /\ Len(hist') = Len(hist) + 1
      /\ \A r \in DOMAIN hist : r \in DOMAIN hist' /\ hist'[r] = hist[r]
  <2>1. e \in Seq(Nat) /\ hist' = Append(hist, e)
    BY <1>3
  <2> QED BY <1>2, <2>1
<1>5. Fits(model, hist')
  <2>1. Fits(model, hist)
    BY DEF PanelInv
  <2> QED BY <1>4, <2>1 DEF Fits
<1>6. news \in 0 .. Len(hist')
  <2>1. news \in 0 .. Len(hist) /\ Len(hist) \in Nat
    BY DEF PanelInv
  <2> QED BY <1>4, <2>1
<1>7. Fits(model, hist)'
  BY <1>1, <1>5
<1>8. /\ input \in InputType /\ turns \in Nat
      /\ frame # NoFrame => frame.rows = model.entries
  BY DEF PanelInv
<1> QED BY <1>1, <1>4, <1>6, <1>7, <1>8 DEF PanelInv

LEMMA PanelBegins == PanelInit => PanelInv
<1> SUFFICES ASSUME PanelInit PROVE PanelInv
  OBVIOUS
<1>1. hist = <<First>> /\ frame = NoFrame
  BY DEF PanelInit
<1>2. news = 0 /\ turns = 0
  BY DEF PanelInit
<1>3. hist \in Seq(Seq(Nat)) /\ hist # <<>> /\ Len(hist) = 1
  <2> DEFINE Lists == Seq(Nat)
  <2>1. First \in Lists
    BY PanelAssumption
  <2> HIDE DEF Lists
  <2>2. <<First>> \in Seq(Lists) /\ Len(<<First>>) = 1 /\ <<First>> # <<>>
    BY <2>1
  <2> QED BY <1>1, <2>2 DEF Lists
<1>4. Fits(model, hist)
  BY ClosedIsTyped, EmptyFits DEF PanelInit
<1>5. input \in InputType
  BY TextsHaveNone DEF PanelInit, InputType
<1>6. news \in 0 .. Len(hist) /\ turns \in Nat
  BY <1>2, <1>3
<1> QED BY <1>1, <1>3, <1>4, <1>5, <1>6 DEF PanelInv

LEMMA PanelKept == PanelInv /\ [PanelNext]_panelVars => PanelInv'
<1> SUFFICES ASSUME PanelInv, [PanelNext]_panelVars PROVE PanelInv'
  OBVIOUS
<1>1. CASE PanelNext
  BY <1>1, DisplaySteps, QuerySteps, UserSteps, HistoryStep DEF PanelNext
<1>2. CASE UNCHANGED panelVars
  BY <1>2, PanelIs, PanelKeeps DEF panelVars
<1> QED BY <1>1, <1>2

\* However pages, edits and revisions overlap, the rows are the beginning of what one query
\* finds in one history: no page of another query or revision joins them.
THEOREM RowsAreOfOneReadHolds == PanelSpec => []RowsAreOfOneRead
<1>1. PanelInv => RowsAreOfOneRead
  <2> SUFFICES ASSUME PanelInv, model.entries # <<>>
               PROVE  IsPrefix(model.entries, Found(model.rev, model.applied))
    BY DEF RowsAreOfOneRead
  <2> QED BY DEF PanelInv, Fits, Found
<1> QED BY <1>1, PanelBegins, PanelKept, PTL DEF PanelSpec

\* What is pasted was on the screen, is found by the text that is in the input, and is sent
\* with the revision it was read at.
THEOREM PastesWhatIsSeenHolds == PanelSpec => PastesWhatIsSeen
<1> DEFINE Seen == sent' # sent =>
                     /\ \E i \in DOMAIN frame.rows : frame.rows[i] = sent'.entry
                     /\ IsPrefix(frame.rows, Found(sent'.rev, input.text))
<1>1. PanelInv /\ [PanelNext]_panelVars => [Seen]_panelVars
  <2> SUFFICES ASSUME PanelInv, PanelNext, sent' # sent PROVE Seen
    BY DEF panelVars
  <2>1. Paste
    BY DEF PanelNext, Show, Connect, Poll, Refresh, Dismiss, PasteResult, TimerFires, HostAnswers,
      Deliver, Type, Render, MoveSelection, Click, More, Retry, HistoryMoves
  <2>2. /\ input.text = model.raw /\ Selectable
        /\ sent' = [entry |-> model.entries[model.selected], rev |-> model.rev,
                    text |-> input.text, seen |-> frame.rows]
    BY <2>1 DEF Paste, InputCurrent
  <2>3. /\ frame.rows = model.entries /\ model.selected <= Len(model.entries)
        /\ frame.rows[model.selected] = model.entries[model.selected]
    BY <2>2 DEF Selectable, CanSelect, PanelInv
  <2>4. model.entries \in Seq(Nat) /\ model.selected \in Nat \ {0}
    BY PanelIs, ModelFields
  <2>5. model.selected \in DOMAIN frame.rows /\ model.entries # <<>>
    BY <2>3, <2>4
  <2>6. IsPrefix(model.entries, Found(model.rev, model.raw))
    BY <2>5 DEF PanelInv, Fits, Found
  <2> QED BY <2>2, <2>3, <2>5, <2>6
<1> QED BY <1>1, PanelBegins, PanelKept, PTL DEF PanelSpec, PastesWhatIsSeen

==============================================================================
