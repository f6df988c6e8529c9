-------------------------- MODULE Encryption_proof --------------------------
(***************************************************************************)
(* Proofs about what the encryption of a history rests on: the files that  *)
(* hold its images (AttachmentFiles) and the key of its rows (MasterKey).  *)
(*                                                                         *)
(* The files, of every number of threads, processes, rows and images, and  *)
(* wherever they die: what is cleaned up after a commit is in no row, and  *)
(* what a protected row had is gone once that is acknowledged.  A step of  *)
(* one thread is shown to keep what the others rely on (OthersKeep) from   *)
(* five things that every step respects: it moves its own operation only,  *)
(* under its process's connection, changes rows under the database's lock, *)
(* and files only to remove them or to write the one image that it came    *)
(* with.  Taking the lock and dying concern several threads and have       *)
(* lemmas of their own.                                                    *)
(*                                                                         *)
(* The key, for every set of callers and keys: whoever is past the probe   *)
(* of the secret service holds the lock, so that the key they carry is the *)
(* one the stores and the caches agree on; and a key that anybody was      *)
(* handed is in the secret service, or is the one that was recovered.      *)
(***************************************************************************)
EXTENDS AttachmentFiles, MasterKey, TLAPS

-----------------------------------------------------------------------------
(* The files: the invariant.                                               *)

Kinds == {"none", "capture", "seal", "rewrite", "drop", "delete"}
Places == {"none", "begin", "write", "files", "commit", "cut", "undo", "finish",
           "limit", "unlink", "forget"}
Forms == {"none", "plain", "odd", "sealed"} \cup WithFile
Row == {r \in [form : Forms, image : Images \cup {"none"}] :
          r.form \in WithFile => r.image \in Images}
Tables == [Ids -> Row]
SomeIds == SUBSET Ids
SomeFiles == SUBSET Images
SomeImages == SUBSET (Images \cup {"none"})
Operation ==
  [kind : Kinds, at : Places, ids : SomeIds, row : Row, next : Tables,
   candidates : SomeFiles, created : SomeImages, left : SomeIds, failed : BOOLEAN,
   held : SomeFiles, kept : SomeFiles, late : SomeImages]
Disks == [Images -> {"absent", "partial", "whole"}]
Operations == [Workers -> Operation]

Typed ==
  /\ rows \in Tables /\ files \in Disks
  /\ mutex \in [Processes -> Workers \cup {"free"}]
  /\ writer \in Workers \cup {"free"}
  /\ op \in Operations

Writing == {"write", "files", "commit", "cut"}

\* Who works has its process's connection; who writes, the database's lock.
Locked ==
  \A t \in Workers : /\ op[t].at # "none" => mutex[Home[t]] = t
                     /\ op[t].at \in Writing <=> writer = t

\* A transaction that has written leaves the other rows as they are, and puts into its own
\* the image it was called with, or none; and what it has sealed is to be removed.
Prepared(t) ==
  op[t].at \in {"files", "commit"} =>
    /\ \A f \in Images :
         RefersTo(op[t].next, f) \subseteq RefersTo(rows, f) \/ f = op[t].row.image
    /\ op[t].held \subseteq op[t].candidates

\* Until then it names its rows and has sealed nothing.
Called(t) == op[t].at \in {"begin", "write"} => op[t].ids # {} /\ op[t].held = {}

\* After the commit: a file to be removed is in no row unless somebody else came with it;
Unreferred(t) ==
  op[t].at = "finish" =>
    \A f \in op[t].candidates : RefersTo(rows, f) = {} \/ f \in op[t].late
\* of whom all are known, the one who writes now included;
Foreseen(t) ==
  op[t].at = "finish" =>
    \A u \in Workers : writer = u => op[u].row.image \in op[t].late
\* and a file that the sealed row had is gone, or still to be removed.
Going(t) ==
  op[t].at = "finish" =>
    \A f \in op[t].held \ (op[t].kept \cup op[t].late) :
      op[t].failed \/ f \in op[t].candidates \/ files[f] = "absent"

FilesInv ==
  /\ Typed /\ Locked
  /\ \A t \in Workers : Prepared(t) /\ Called(t) /\ Unreferred(t) /\ Foreseen(t) /\ Going(t)

-----------------------------------------------------------------------------
(* Rows.                                                                   *)

LEMMA RowsRefer ==
  ASSUME NEW r \in Row
  PROVE  r.form \in Forms /\ (r.form \in WithFile => r.image \in Images)
  BY DEF Row

LEMMA PlainRows ==
  ASSUME NEW form \in {"none", "plain", "odd", "sealed"}
  PROVE  RowOf(form) \in Row
  BY DEF Row, RowOf, Forms, WithFile

LEMMA ImageRows ==
  ASSUME NEW form \in WithFile, NEW f \in Images
  PROVE  [form |-> form, image |-> f] \in Row
  BY DEF Row, Forms

LEMMA EmptyRow == NoRow \in Row
  BY DEF NoRow, Row, Forms, WithFile

LEMMA ReferencesAreFiles ==
  ASSUME NEW r \in Row
  PROVE  References(r) \in SomeFiles
  BY RowsRefer DEF References, SomeFiles

LEMMA NoOperation == NoOp \in Operation /\ NoOp.at = "none" /\ NoOp.held = {}
<1>1. [i \in Ids |-> NoRow] \in Tables
  BY EmptyRow DEF Tables
<1>2. /\ "none" \in Kinds /\ "none" \in Places /\ {} \in SomeIds /\ {} \in SomeFiles
      /\ {} \in SomeImages /\ FALSE \in BOOLEAN
  BY DEF Kinds, Places, SomeIds, SomeFiles, SomeImages
<1> QED
  BY <1>1, <1>2, EmptyRow, Zenon DEF NoOp, Operation

-----------------------------------------------------------------------------
(* One operation takes a step, the others stay.                            *)

Others(t) == op' \in Operations /\ \A u \in Workers : u # t => op'[u] = op[u]

LEMMA OneMoves ==
  ASSUME op \in Operations, NEW t \in Workers, NEW o \in Operation,
         op' = [op EXCEPT ![t] = o]
  PROVE  Others(t) /\ op'[t] = o
  BY DEF Others, Operations

LEMMA Fields ==
  ASSUME op \in Operations, NEW t \in Workers
  PROVE  /\ op[t] \in Operation
         /\ op[t].kind \in Kinds /\ op[t].at \in Places /\ op[t].ids \in SomeIds
         /\ op[t].row \in Row /\ op[t].next \in Tables /\ op[t].failed \in BOOLEAN
         /\ op[t].candidates \in SomeFiles /\ op[t].created \in SomeImages
         /\ op[t].held \in SomeFiles /\ op[t].kept \in SomeFiles /\ op[t].late \in SomeImages
  BY DEF Operations, Operation

\* What the invariant looks at, and most steps leave alone.
Same(t) ==
  /\ op'[t].row = op[t].row /\ op'[t].candidates = op[t].candidates
  /\ op'[t].held = op[t].held /\ op'[t].kept = op[t].kept /\ op'[t].late = op[t].late
  /\ op'[t].failed = op[t].failed

LEMMA Goes ==
  ASSUME op \in Operations, NEW t \in Workers, NEW place \in Places, GoTo(t, place)
  PROVE  Others(t) /\ Same(t) /\ op'[t].at = place /\ op'[t].next = op[t].next
<1> PICK old \in Operation : old = op[t]
  BY Fields
<1> DEFINE o == [old EXCEPT !.at = place]
<1>1. op' = [op EXCEPT ![t] = o]
  BY DEF GoTo
<1>2. /\ o \in Operation
      /\ o.row = old.row /\ o.candidates = old.candidates /\ o.held = old.held
      /\ o.kept = old.kept /\ o.late = old.late /\ o.failed = old.failed
      /\ o.at = place /\ o.next = old.next
  BY Zenon DEF Operation
<1> HIDE DEF o
<1>3. Others(t) /\ op'[t] = o
  BY <1>1, <1>2, OneMoves
<1> QED BY <1>2, <1>3 DEF Same

LEMMA GoesFor ==
  ASSUME op \in Operations, NEW t \in Workers, NEW place \in Places, NEW ids \in SomeIds,
         op' = [op EXCEPT ![t].at = place, ![t].ids = ids]
  PROVE  Others(t) /\ Same(t) /\ op'[t].at = place
<1> PICK old \in Operation : old = op[t]
  BY Fields
<1> DEFINE o == [old EXCEPT !.at = place, !.ids = ids]
<1>1. op' = [op EXCEPT ![t] = o]
  OBVIOUS
<1>2. /\ o \in Operation
      /\ o.row = old.row /\ o.candidates = old.candidates /\ o.held = old.held
      /\ o.kept = old.kept /\ o.late = old.late /\ o.failed = old.failed
      /\ o.at = place
  BY Zenon DEF Operation
<1> HIDE DEF o
<1>3. Others(t) /\ op'[t] = o
  BY <1>1, <1>2, OneMoves
<1> QED BY <1>2, <1>3 DEF Same

LEMMA Returns ==
  ASSUME op \in Operations, NEW t \in Workers, Return(t)
  PROVE  Others(t) /\ op'[t] = NoOp
  BY NoOperation, OneMoves DEF Return

-----------------------------------------------------------------------------
(* What a step respects, so that the other threads keep what they rely on. *)

\* It returns, begins, or keeps its connection.
Connected(t) ==
  \/ mutex' = [mutex EXCEPT ![Home[t]] = "free"] /\ op'[t].at = "none" /\ mutex[Home[t]] = t
  \/ mutex' = [mutex EXCEPT ![Home[t]] = t] /\ mutex[Home[t]] = "free"
  \/ mutex' = mutex /\ mutex[Home[t]] = t

\* It gives the lock back or leaves it where it is.
Unlocks(t) ==
  /\ writer' = writer \/ (writer = t /\ writer' = "free")
  /\ op'[t].at \in Writing <=> writer' = t
  /\ writer' = t => op'[t].row = op[t].row

\* It changes rows when nobody else writes, and brings no image but its own.
Changes(t) ==
  \/ rows' = rows
  \/ /\ rows' \in Tables /\ writer \in {t, "free"} /\ writer' = "free"
     /\ \A f \in Images : \/ RefersTo(rows', f) \subseteq RefersTo(rows, f)
                          \/ writer = t /\ f = op[t].row.image

\* It removes files, or writes its own.
Touches(t) ==
  /\ files' \in Disks
  /\ \A f \in Images : \/ files'[f] \in {files[f], "absent"}
                       \/ writer = t /\ f = op[t].row.image

StepOf(t) == Others(t) /\ Connected(t) /\ Unlocks(t) /\ Changes(t) /\ Touches(t)
Own(t) == Prepared(t)' /\ Called(t)' /\ Unreferred(t)' /\ Foreseen(t)' /\ Going(t)'

LEMMA OthersKeep ==
  ASSUME FilesInv, NEW t \in Workers, StepOf(t), Own(t)
  PROVE  FilesInv'
<1> USE DEF FilesInv
<1>1. Typed'
  <2>1. mutex' \in [Processes -> Workers \cup {"free"}]
    BY DEF Typed, StepOf, Connected
  <2> QED BY <2>1 DEF Typed, StepOf, Others, Unlocks, Changes, Touches
<1>2. Locked'
  <2> SUFFICES ASSUME NEW u \in Workers
               PROVE  /\ op'[u].at # "none" => mutex'[Home[u]] = u
                      /\ op'[u].at \in Writing <=> writer' = u
    BY DEF Locked
  <2>1. /\ op[u].at # "none" => mutex[Home[u]] = u
        /\ op[u].at \in Writing <=> writer = u
    BY DEF Locked
  <2>2. "free" \notin Workers /\ Home[u] \in Processes /\ Home[t] \in Processes
    BY FilesAssumption DEF Processes
  <2>3. CASE u = t
    BY <2>1, <2>2, <2>3 DEF StepOf, Connected, Unlocks, Typed
  <2>4. CASE u # t
    <3>1. op'[u] = op[u]
      BY <2>4 DEF StepOf, Others
    <3> QED BY <2>1, <2>2, <2>4, <3>1 DEF StepOf, Connected, Unlocks, Typed
  <2> QED BY <2>3, <2>4
<1>3. ASSUME NEW u \in Workers, u # t
      PROVE  Prepared(u)' /\ Called(u)' /\ Unreferred(u)' /\ Foreseen(u)' /\ Going(u)'
  <2>1. op'[u] = op[u]
    BY <1>3 DEF StepOf, Others
  <2>2. op[u].at \in Writing <=> writer = u
    BY DEF Locked
  <2>3. "free" \notin Workers
    BY FilesAssumption
  <2>4. Prepared(u)'
    <3>1. op[u].at \in {"files", "commit"} => rows' = rows
      BY <1>3, <2>2, <2>3 DEF StepOf, Changes, Writing
    <3> QED BY <2>1, <3>1 DEF Prepared, RefersTo
  <2>5. Called(u)'
    BY <2>1 DEF Called
  <2>6. op[u].at = "finish" /\ writer = t => op[t].row.image \in op[u].late
    BY DEF Foreseen
  <2>7. Unreferred(u)'
    <3> SUFFICES ASSUME op[u].at = "finish", NEW f \in op[u].candidates
                 PROVE  RefersTo(rows', f) = {} \/ f \in op[u].late
      BY <2>1 DEF Unreferred, RefersTo
    <3>1. f \in Images
      BY Fields DEF Typed, SomeFiles
    <3>2. RefersTo(rows, f) = {} \/ f \in op[u].late
      BY DEF Unreferred
    <3> QED BY <2>6, <3>1, <3>2 DEF StepOf, Changes
  <2>8. Foreseen(u)'
    <3> SUFFICES ASSUME op[u].at = "finish", NEW v \in Workers, writer' = v
                 PROVE  op'[v].row.image \in op[u].late
      BY <2>1 DEF Foreseen
    <3>1. writer = v /\ op'[v].row = op[v].row
      BY <2>3 DEF StepOf, Unlocks, Others
    <3> QED BY <3>1 DEF Foreseen
  <2>9. Going(u)'
    <3> SUFFICES ASSUME op[u].at = "finish",
                        NEW f \in op[u].held \ (op[u].kept \cup op[u].late)
                 PROVE  op[u].failed \/ f \in op[u].candidates \/ files'[f] = "absent"
      BY <2>1 DEF Going
    <3>1. f \in Images
      BY Fields DEF Typed, SomeFiles
    <3>2. op[u].failed \/ f \in op[u].candidates \/ files[f] = "absent"
      BY DEF Going
    <3> QED BY <2>6, <3>1, <3>2 DEF StepOf, Touches
  <2> QED BY <2>4, <2>5, <2>7, <2>8, <2>9
<1> QED BY <1>1, <1>2, <1>3 DEF Own

-----------------------------------------------------------------------------
(* The steps of a thread, one by one.                                      *)

\* A step that gives up leaves nothing to keep.
LEMMA NothingOwn ==
  ASSUME NEW t \in Workers, op'[t] = NoOp
  PROVE  Own(t)
  BY NoOperation DEF Own, Prepared, Called, Unreferred, Foreseen, Going

LEMMA BeginKeeps ==
  ASSUME FilesInv, NEW t \in Workers, NEW kind \in Kinds, NEW at \in {"begin", "unlink"},
         NEW ids \in SomeIds, ids # {}, NEW new \in Row, Begin(t, kind, at, ids, new)
  PROVE  FilesInv'
<1> PICK none : none = NoOp
  OBVIOUS
<1> DEFINE o == [none EXCEPT !.kind = kind, !.at = at, !.ids = ids, !.row = new]
<1>1. op' = [op EXCEPT ![t] = o] /\ op[t] = none
  BY Zenon DEF Begin
<1>2. none \in Operation /\ at \in Places /\ none.held = {}
  BY NoOperation DEF Places
<1>3. o \in Operation /\ o.at = at /\ o.held = none.held /\ o.ids = ids
  BY <1>2, Zenon DEF Operation
<1> HIDE DEF o
<1>4. Others(t) /\ op'[t] = o
  BY <1>1, <1>3, OneMoves DEF FilesInv, Typed
<1>5. op[t].at = "none" /\ writer # t
  BY <1>1, NoOperation DEF FilesInv, Locked, Writing
<1>6. StepOf(t)
  <2>1. Connected(t) /\ Changes(t) /\ Touches(t)
    BY <1>4 DEF Begin, Connected, Changes, Touches, FilesInv, Typed
  <2>2. Unlocks(t)
    BY <1>3, <1>4, <1>5 DEF Begin, Unlocks, Writing
  <2> QED BY <1>4, <2>1, <2>2 DEF StepOf
<1>7. Own(t)
  BY <1>2, <1>3, <1>4 DEF Own, Prepared, Called, Unreferred, Foreseen, Going
<1> QED BY <1>6, <1>7, OthersKeep

LEMMA AbandonKeeps ==
  ASSUME FilesInv, NEW t \in Workers, GiveUpWrite(t)
  PROVE  FilesInv'
<1>1. Others(t) /\ op'[t] = NoOp
  BY Returns DEF GiveUpWrite, FilesInv, Typed
<1>2. StepOf(t)
  <2>1. Connected(t)
    BY <1>1, NoOperation DEF GiveUpWrite, Return, Connected, FilesInv, Locked
  <2>2. Unlocks(t)
    BY <1>1, NoOperation, FilesAssumption DEF GiveUpWrite, Unlocks, Writing
  <2>3. Changes(t) /\ Touches(t)
    BY DEF GiveUpWrite, Changes, Touches, FilesInv, Typed
  <2> QED BY <1>1, <2>1, <2>2, <2>3 DEF StepOf
<1> QED BY <1>1, <1>2, NothingOwn, OthersKeep

LEMMA UndoKeeps ==
  ASSUME FilesInv, NEW t \in Workers, Undo(t)
  PROVE  FilesInv'
<1>1. Others(t) /\ op'[t] = NoOp
  BY Returns DEF Undo, FilesInv, Typed
<1>2. op[t].at # "none" /\ mutex[Home[t]] = t
  BY DEF Undo, FilesInv, Locked
<1>3. StepOf(t)
  <2>1. Connected(t)
    BY <1>1, <1>2, NoOperation DEF Undo, Return, Connected
  <2>2. Unlocks(t)
    BY <1>1, NoOperation, FilesAssumption DEF Undo, Unlocks, Writing
  <2>3. Changes(t) /\ Touches(t)
    BY DEF Undo, Changes, Touches, FilesInv, Typed, Disks
  <2> QED BY <1>1, <2>1, <2>2, <2>3 DEF StepOf
<1> QED BY <1>1, <1>3, NothingOwn, OthersKeep

LEMMA CommitFailsKeeps ==
  ASSUME FilesInv, NEW t \in Workers, CommitFails(t)
  PROVE  FilesInv'
<1>1. Others(t) /\ op'[t].at = "undo"
  BY Goes, "undo" \in Places DEF CommitFails, Places, FilesInv, Typed
<1>2. op[t].at = "commit" /\ writer = t
  BY DEF CommitFails, At, FilesInv, Locked, Writing
<1>3. StepOf(t)
  <2>1. Connected(t)
    BY <1>2 DEF CommitFails, Connected, FilesInv, Locked
  <2>2. Unlocks(t)
    BY <1>1, <1>2, FilesAssumption DEF CommitFails, Unlocks, Writing
  <2>3. Changes(t) /\ Touches(t)
    BY DEF CommitFails, Changes, Touches, FilesInv, Typed
  <2> QED BY <1>1, <2>1, <2>2, <2>3 DEF StepOf
<1>4. Own(t)
  BY <1>1 DEF Own, Prepared, Called, Unreferred, Foreseen, Going
<1> QED BY <1>3, <1>4, OthersKeep

LEMMA FinishedKeeps ==
  ASSUME FilesInv, NEW t \in Workers, Finished(t)
  PROVE  FilesInv'
<1>1. op[t].at = "finish" /\ writer # t /\ mutex[Home[t]] = t
  BY DEF Finished, At, FilesInv, Locked, Writing
<1>2. Changes(t) /\ Touches(t) /\ writer' = writer
  BY DEF Finished, Changes, Touches, FilesInv, Typed
<1>3. CASE Return(t)
  <2>1. Others(t) /\ op'[t] = NoOp
    BY <1>3, Returns DEF FilesInv, Typed
  <2>2. Connected(t) /\ Unlocks(t)
    BY <1>1, <1>2, <1>3, <2>1, NoOperation DEF Return, Connected, Unlocks, Writing
  <2> QED BY <1>2, <2>1, <2>2, NothingOwn, OthersKeep DEF StepOf
<1>4. CASE GoTo(t, "limit") /\ UNCHANGED mutex
  <2>1. Others(t) /\ op'[t].at = "limit"
    BY <1>4, Goes, "limit" \in Places DEF Places, FilesInv, Typed
  <2>2. Connected(t) /\ Unlocks(t)
    BY <1>1, <1>2, <1>4, <2>1 DEF Connected, Unlocks, Writing
  <2>3. Own(t)
    BY <2>1 DEF Own, Prepared, Called, Unreferred, Foreseen, Going
  <2> QED BY <1>2, <2>1, <2>2, <2>3, OthersKeep DEF StepOf
<1> QED BY <1>3, <1>4 DEF Finished

LEMMA EnforceLimitKeeps ==
  ASSUME FilesInv, NEW t \in Workers, EnforceLimit(t)
  PROVE  FilesInv'
<1>1. op[t].at = "limit" /\ writer # t /\ mutex[Home[t]] = t
  BY DEF EnforceLimit, At, FilesInv, Locked, Writing
<1>2. Changes(t) /\ Touches(t) /\ writer' = writer
  BY DEF EnforceLimit, Changes, Touches, FilesInv, Typed
<1>3. CASE Return(t)
  <2>1. Others(t) /\ op'[t] = NoOp
    BY <1>3, Returns DEF FilesInv, Typed
  <2>2. Connected(t) /\ Unlocks(t)
    BY <1>1, <1>2, <1>3, <2>1, NoOperation DEF Return, Connected, Unlocks, Writing
  <2> QED BY <1>2, <2>1, <2>2, NothingOwn, OthersKeep DEF StepOf
<1>4. ASSUME NEW ids \in SUBSET Visible(rows), UNCHANGED mutex,
             op' = [op EXCEPT ![t].at = "unlink", ![t].ids = ids]
      PROVE  FilesInv'
  <2>1. ids \in SomeIds /\ "unlink" \in Places
    BY DEF SomeIds, Visible, Stored, Places
  <2>2. Others(t) /\ op'[t].at = "unlink"
    BY <1>4, <2>1, GoesFor DEF FilesInv, Typed
  <2>3. Connected(t) /\ Unlocks(t)
    BY <1>1, <1>2, <1>4, <2>2 DEF Connected, Unlocks, Writing
  <2>4. Own(t)
    BY <2>2 DEF Own, Prepared, Called, Unreferred, Foreseen, Going
  <2> QED BY <1>2, <2>2, <2>3, <2>4, OthersKeep DEF StepOf
<1> QED BY <1>3, <1>4 DEF EnforceLimit

LEMMA UnlinkKeeps ==
  ASSUME FilesInv, NEW t \in Workers, Unlink(t)
  PROVE  FilesInv'
<1>1. PICK i \in op[t].ids :
        /\ files' = [f \in Images |-> IF f \in Collected(rows[i]) THEN "absent" ELSE files[f]]
        /\ op' = [op EXCEPT ![t].at = "forget", ![t].left = {i}]
  BY DEF Unlink
<1>2. op[t].at = "unlink" /\ writer # t /\ mutex[Home[t]] = t
  BY DEF Unlink, At, FilesInv, Locked, Writing
<1>3. Others(t) /\ op'[t].at = "forget"
  <2> PICK old \in Operation : old = op[t]
    BY Fields DEF FilesInv, Typed
  <2>1. {i} \in SomeIds /\ "forget" \in Places
    BY Fields DEF FilesInv, Typed, SomeIds, Places
  <2> PICK one \in SomeIds : one = {i}
    BY <2>1
  <2> DEFINE o == [old EXCEPT !.at = "forget", !.left = one]
  <2>2. op' = [op EXCEPT ![t] = o]
    BY <1>1
  <2>3. o \in Operation /\ o.at = "forget"
    BY <2>1, Zenon DEF Operation
  <2> HIDE DEF o
  <2> QED BY <2>2, <2>3, OneMoves DEF FilesInv, Typed
<1>4. StepOf(t)
  <2>1. Touches(t)
    BY <1>1 DEF Touches, FilesInv, Typed, Disks
  <2>2. Connected(t) /\ Unlocks(t) /\ Changes(t)
    BY <1>2, <1>3 DEF Unlink, Connected, Unlocks, Changes, Writing
  <2> QED BY <1>3, <2>1, <2>2 DEF StepOf
<1>5. Own(t)
  BY <1>3 DEF Own, Prepared, Called, Unreferred, Foreseen, Going
<1> QED BY <1>4, <1>5, OthersKeep

LEMMA ForgetKeeps ==
  ASSUME FilesInv, NEW t \in Workers, ForgetRow(t)
  PROVE  FilesInv'
<1>1. op[t].at = "forget" /\ writer # t /\ mutex[Home[t]] = t
  BY DEF ForgetRow, At, FilesInv, Locked, Writing
<1>2. Touches(t) /\ writer' = writer
  BY DEF ForgetRow, Touches, FilesInv, Typed
<1>3. Changes(t)
  <2> PICK fault \in BOOLEAN :
        /\ fault \/ writer = "free"
        /\ rows' = IF fault THEN rows
                   ELSE [i \in Ids |-> IF i \in op[t].left THEN NoRow ELSE rows[i]]
    BY DEF ForgetRow
  <2>1. CASE fault
    BY <2>1 DEF Changes
  <2>2. CASE ~fault
    <3>1. /\ rows' = [i \in Ids |-> IF i \in op[t].left THEN NoRow ELSE rows[i]]
          /\ writer = "free" /\ writer' = "free"
      BY <1>2, <2>2
    <3>2. rows' \in Tables
      BY <3>1, EmptyRow DEF FilesInv, Typed, Tables
    <3>3. ASSUME NEW f \in Images PROVE RefersTo(rows', f) \subseteq RefersTo(rows, f)
      BY <3>1 DEF RefersTo, NoRow, WithFile
    <3> QED BY <3>1, <3>2, <3>3 DEF Changes
  <2> QED BY <2>1, <2>2
<1>4. CASE Return(t)
  <2>1. Others(t) /\ op'[t] = NoOp
    BY <1>4, Returns DEF FilesInv, Typed
  <2>2. Connected(t) /\ Unlocks(t)
    BY <1>1, <1>2, <1>4, <2>1, NoOperation DEF Return, Connected, Unlocks, Writing
  <2> QED BY <1>2, <1>3, <2>1, <2>2, NothingOwn, OthersKeep DEF StepOf
<1>5. CASE /\ op' = [op EXCEPT ![t].at = "unlink", ![t].ids = op[t].ids \ op[t].left]
           /\ UNCHANGED mutex
  <2>1. op[t].ids \ op[t].left \in SomeIds /\ "unlink" \in Places
    BY Fields DEF FilesInv, Typed, SomeIds, Places
  <2>2. Others(t) /\ op'[t].at = "unlink"
    BY <1>5, <2>1, GoesFor DEF FilesInv, Typed
  <2>3. Connected(t) /\ Unlocks(t)
    BY <1>1, <1>2, <1>5, <2>2 DEF Connected, Unlocks, Writing
  <2>4. Own(t)
    BY <2>2 DEF Own, Prepared, Called, Unreferred, Foreseen, Going
  <2> QED BY <1>2, <1>3, <2>2, <2>3, <2>4, OthersKeep DEF StepOf
<1> QED BY <1>4, <1>5 DEF ForgetRow

-----------------------------------------------------------------------------
(* The transaction.                                                        *)

LEMMA PutsARow ==
  ASSUME FilesInv, NEW t \in Workers, NEW new \in Row
  PROVE  /\ Put(t, new) \in Tables
         /\ \A f \in Images : RefersTo(Put(t, new), f) \subseteq RefersTo(rows, f)
                              \/ (new.form \in WithFile /\ f = new.image)
<1>1. Put(t, new) = [i \in Ids |-> IF i \in op[t].ids THEN new ELSE rows[i]]
  BY DEF Put
<1>2. rows \in [Ids -> Row]
  BY DEF FilesInv, Typed, Tables
<1>3. Put(t, new) \in Tables
  BY <1>1, <1>2 DEF Tables
<1>4. ASSUME NEW f \in Images, ~(new.form \in WithFile /\ f = new.image)
      PROVE  RefersTo(Put(t, new), f) \subseteq RefersTo(rows, f)
  BY <1>1, <1>4 DEF RefersTo
<1> QED BY <1>3, <1>4

\* The three ways to write a row end alike.
Written(t) ==
  /\ Others(t) /\ op'[t].at \in {"files", "commit"} /\ op'[t].row = op[t].row
  /\ op'[t].held \subseteq op'[t].candidates
  /\ \A f \in Images :
       RefersTo(op'[t].next, f) \subseteq RefersTo(rows, f) \/ f = op[t].row.image

LEMMA SealedWrites ==
  ASSUME FilesInv, NEW t \in Workers, op[t].at = "write", Sealed(t)
  PROVE  Written(t)
<1> PICK old \in Operation : old = op[t]
  BY Fields DEF FilesInv, Typed
<1> PICK new : new = RowOf("sealed")
  OBVIOUS
<1>1. new \in Row /\ new.form \notin WithFile
  BY PlainRows DEF RowOf, WithFile
<1> PICK table \in Tables : table = Put(t, new)
  BY <1>1, PutsARow
<1>2. \A f \in Images : RefersTo(table, f) \subseteq RefersTo(rows, f)
  BY <1>1, PutsARow
<1>3. References(rows[Target(t)]) \in SomeFiles
  <2>1. op[t].ids # {} /\ op[t].ids \in SomeIds
    BY Fields DEF FilesInv, Typed, Called
  <2>2. Target(t) \in Ids
    BY <2>1 DEF Target, SomeIds
  <2> QED BY <2>2, ReferencesAreFiles DEF FilesInv, Typed, Tables
<1> PICK had \in SomeFiles : had = References(rows[Target(t)])
  BY <1>3
<1> DEFINE o == [old EXCEPT !.at = "commit", !.next = table, !.candidates = had, !.held = had]
<1>4. op' = [op EXCEPT ![t] = o]
  BY DEF Sealed, OfRow
<1>5. /\ o \in Operation /\ o.at = "commit" /\ o.next = table /\ o.row = old.row
      /\ o.candidates = had /\ o.held = had
  <2>1. "commit" \in Places
    BY DEF Places
  <2> QED BY <2>1, Zenon DEF Operation
<1> HIDE DEF o
<1>6. Others(t) /\ op'[t] = o
  BY <1>4, <1>5, OneMoves DEF FilesInv, Typed
<1> QED BY <1>2, <1>5, <1>6 DEF Written

LEMMA PutsWhatItWasCalledWith ==
  ASSUME FilesInv, NEW t \in Workers, op[t].at = "write",
         NEW new \in {op[t].row, RowOf("plain")}, NEW place \in {"files", "commit"},
         NEW gone \in SomeFiles,
         op' = [op EXCEPT ![t].at = place, ![t].next = Put(t, new), ![t].candidates = gone]
  PROVE  Written(t)
<1> PICK old \in Operation : old = op[t]
  BY Fields DEF FilesInv, Typed
<1>1. new \in Row /\ (new.form \in WithFile => new.image = old.row.image)
  BY Fields, PlainRows DEF FilesInv, Typed, RowOf, WithFile
<1> PICK table \in Tables : table = Put(t, new)
  BY <1>1, PutsARow
<1>2. \A f \in Images : RefersTo(table, f) \subseteq RefersTo(rows, f) \/ f = old.row.image
  BY <1>1, PutsARow
<1>3. old.held = {}
  BY DEF FilesInv, Called
<1> DEFINE o == [old EXCEPT !.at = place, !.next = table, !.candidates = gone]
<1>4. op' = [op EXCEPT ![t] = o]
  OBVIOUS
<1>5. /\ o \in Operation /\ o.at = place /\ o.next = table /\ o.row = old.row
      /\ o.held = old.held
  <2>1. place \in Places
    BY DEF Places
  <2> QED BY <2>1, Zenon DEF Operation
<1> HIDE DEF o
<1>6. Others(t) /\ op'[t] = o
  BY <1>4, <1>5, OneMoves DEF FilesInv, Typed
<1> QED BY <1>2, <1>3, <1>5, <1>6 DEF Written

LEMMA PlainWrites ==
  ASSUME FilesInv, NEW t \in Workers, op[t].at = "write", Plain(t)
  PROVE  Written(t)
<1>1. ForEntries(op[t].ids) \in SomeFiles
  <2>1. \A i \in op[t].ids : References(rows[i]) \in SomeFiles
    BY Fields, ReferencesAreFiles DEF FilesInv, Typed, Tables, SomeIds
  <2> QED BY <2>1 DEF ForEntries, SomeFiles
<1> DEFINE gone == IF op[t].kind = "drop" THEN ForEntries(op[t].ids) ELSE {}
           place == IF op[t].row.form \in WithFile THEN "files" ELSE "commit"
<1>2. gone \in SomeFiles /\ place \in {"files", "commit"}
  BY <1>1 DEF SomeFiles
<1>3. op' = [op EXCEPT ![t].at = place, ![t].next = Put(t, op[t].row), ![t].candidates = gone]
  BY DEF Plain
<1> HIDE DEF gone, place
<1> QED BY <1>2, <1>3, PutsWhatItWasCalledWith

LEMMA ExternalWrites ==
  ASSUME FilesInv, NEW t \in Workers, op[t].at = "write", External(t)
  PROVE  Written(t)
<1> PICK old \in Operation : old = op[t]
  BY Fields DEF FilesInv, Typed
<1> PICK new \in {op[t].row, RowOf("plain")} :
      op' = [op EXCEPT ![t].at = "commit", ![t].next = Put(t, new)]
  BY DEF External
<1>1. old.candidates \in SomeFiles
  BY Fields DEF FilesInv, Typed
<1>2. op' = [op EXCEPT ![t].at = "commit", ![t].next = Put(t, new),
                       ![t].candidates = old.candidates]
  OBVIOUS
<1> QED BY <1>1, <1>2, PutsWhatItWasCalledWith

LEMMA WriteKeeps ==
  ASSUME FilesInv, NEW t \in Workers, Write(t)
  PROVE  FilesInv'
<1>1. op[t].at = "write" /\ writer = t /\ mutex[Home[t]] = t
  BY DEF Write, At, FilesInv, Locked, Writing
<1>2. UNCHANGED <<rows, mutex, writer>>
  BY DEF Write
<1>3. Written(t)
  BY <1>1, SealedWrites, PlainWrites, ExternalWrites DEF Write
<1>4. Touches(t)
  <2>1. files \in Disks
    BY DEF FilesInv, Typed
  <2>2. \/ files' = files
        \/ \E part \in {"absent", "partial", "whole"} :
             files' = [files EXCEPT ![op[t].row.image] = part]
    BY DEF Write, Sealed, Plain, External
  <2> QED BY <1>1, <2>1, <2>2 DEF Touches, Disks
<1>5. StepOf(t)
  BY <1>1, <1>2, <1>3, <1>4 DEF StepOf, Written, Connected, Unlocks, Changes, Writing
<1>6. Own(t)
  <2>1. Prepared(t)'
    BY <1>2, <1>3 DEF Prepared, Written, RefersTo
  <2> QED BY <1>3, <2>1 DEF Own, Written, Called, Unreferred, Foreseen, Going
<1> QED BY <1>5, <1>6, OthersKeep

LEMMA MaterializeKeeps ==
  ASSUME FilesInv, NEW t \in Workers, Materialize(t)
  PROVE  FilesInv'
<1>1. op[t].at = "files" /\ writer = t /\ mutex[Home[t]] = t
  BY DEF Materialize, At, FilesInv, Locked, Writing
<1>2. UNCHANGED <<rows, mutex, writer>> /\ Connected(t) /\ Changes(t)
  BY <1>1 DEF Materialize, Connected, Changes
<1> DEFINE f == op[t].row.image
<1>3. CASE GoTo(t, "commit") /\ UNCHANGED files
  <2>1. Others(t) /\ Same(t) /\ op'[t].at = "commit" /\ op'[t].next = op[t].next
    BY <1>3, Goes, "commit" \in Places DEF Places, FilesInv, Typed
  <2>2. StepOf(t)
    BY <1>1, <1>2, <1>3, <2>1 DEF StepOf, Unlocks, Touches, Same, Writing, FilesInv, Typed
  <2>3. Prepared(t)'
    BY <1>1, <1>2, <2>1 DEF Prepared, Same, RefersTo, FilesInv
  <2>4. Own(t)
    BY <2>1, <2>3 DEF Own, Called, Unreferred, Foreseen, Going
  <2> QED BY <2>2, <2>4, OthersKeep
<1>4. ASSUME NEW part \in {"whole", "partial"}, NEW place \in {"commit", "cut"},
             files' = [files EXCEPT ![f] = part],
             op' = [op EXCEPT ![t].at = place, ![t].created = {f}]
      PROVE  FilesInv'
  <2> PICK old \in Operation : old = op[t]
    BY Fields DEF FilesInv, Typed
  <2>1. {f} \in SomeImages
    BY Fields DEF FilesInv, Typed, SomeImages, Row
  <2> PICK wrote \in SomeImages : wrote = {f}
    BY <2>1
  <2> DEFINE o == [old EXCEPT !.at = place, !.created = wrote]
  <2>2. op' = [op EXCEPT ![t] = o]
    BY <1>4
  <2>3. /\ o \in Operation /\ o.at = place /\ o.next = old.next /\ o.row = old.row
        /\ o.held = old.held /\ o.candidates = old.candidates
    <3>1. place \in Places
      BY DEF Places
    <3> QED BY <3>1, Zenon DEF Operation
  <2> HIDE DEF o
  <2>4. Others(t) /\ op'[t] = o
    BY <2>2, <2>3, OneMoves DEF FilesInv, Typed
  <2>5. Touches(t)
    BY <1>1, <1>4 DEF Touches, Disks, FilesInv, Typed
  <2>6. Unlocks(t)
    BY <1>1, <1>2, <2>3, <2>4 DEF Unlocks, Writing
  <2>7. Prepared(t)'
    BY <1>1, <1>2, <2>3, <2>4 DEF Prepared, RefersTo, FilesInv
  <2>8. Own(t)
    BY <2>3, <2>4, <2>7 DEF Own, Called, Unreferred, Foreseen, Going
  <2> QED BY <1>2, <2>4, <2>5, <2>6, <2>8, OthersKeep DEF StepOf
<1> QED BY <1>3, <1>4 DEF Materialize

-----------------------------------------------------------------------------
(* The commit.                                                             *)

\* What the survivors do not refer to, no row refers to; and all of it is given back.
LEMMA SurvivorsReferTo ==
  ASSUME FilesInv, NEW gone \in SomeFiles, NEW table \in Tables
  PROVE  /\ Surviving(gone, table) \in SomeFiles
         /\ \A f \in Surviving(gone, table) : RefersTo(table, f) = {}
         /\ (\A i \in Ids : Complete(table[i])) =>
              \A f \in gone : RefersTo(table, f) = {} => f \in Surviving(gone, table)
<1>1. Surviving(gone, table) \in SomeFiles
  BY DEF Surviving, SomeFiles
<1>2. ASSUME NEW f \in Surviving(gone, table), NEW i \in RefersTo(table, f)
      PROVE  FALSE
  <2>1. /\ i \in Ids /\ table[i].form \in WithFile /\ table[i].image = f
        /\ Complete(table[i]) /\ f \notin References(table[i])
    BY <1>2 DEF RefersTo, Surviving
  <2> QED BY <2>1 DEF Complete, References
<1>3. ASSUME \A i \in Ids : Complete(table[i]),
             NEW f \in gone, RefersTo(table, f) = {}
      PROVE  f \in Surviving(gone, table)
  <2>1. \A i \in Ids : f \notin References(table[i])
    BY <1>3 DEF RefersTo, References
  <2> QED BY <1>3, <2>1 DEF Surviving
<1> QED BY <1>1, <1>2, <1>3

LEMMA CommitKeeps ==
  ASSUME FilesInv, NEW t \in Workers, Commit(t)
  PROVE  FilesInv'
<1>1. op[t].at = "commit" /\ writer = t /\ mutex[Home[t]] = t
  BY DEF Commit, At, FilesInv, Locked, Writing
<1>2. writer' = "free" /\ rows' = op[t].next /\ UNCHANGED <<files, mutex>>
  BY DEF Commit
<1> PICK old \in Operation : old = op[t]
  BY Fields DEF FilesInv, Typed
<1>3. /\ old.candidates \in SomeFiles /\ old.next \in Tables /\ old.held \in SomeFiles
      /\ old.held \subseteq old.candidates
  BY <1>1, Fields DEF FilesInv, Typed, Prepared
<1> PICK table \in Tables : table = old.next
  BY <1>3
<1> PICK gone \in SomeFiles : gone = Surviving(old.candidates, table)
  BY <1>3, SurvivorsReferTo
<1> DEFINE stays == {f \in old.held : RefersTo(table, f) # {}
                                        \/ \E i \in Ids : ~Complete(table[i])}
<1>4. stays \in SomeFiles
  BY <1>3 DEF SomeFiles
<1> PICK kept \in SomeFiles : kept = stays
  BY <1>4
<1> PICK none \in SomeImages : none = {}
  BY DEF SomeImages
<1> DEFINE o == [old EXCEPT !.at = "finish", !.created = none, !.candidates = gone,
                            !.kept = kept]
<1>5. op' = [op EXCEPT ![t] = o]
  <2>1. op' = [op EXCEPT ![t].at = "finish", ![t].created = none, ![t].candidates = gone,
                         ![t].kept = kept]
    BY DEF Commit
  <2> QED BY <2>1
<1>6. /\ o \in Operation /\ o.at = "finish" /\ o.candidates = gone /\ o.kept = kept
      /\ o.held = old.held
  <2>1. "finish" \in Places
    BY DEF Places
  <2> QED BY <2>1, Zenon DEF Operation
<1> HIDE DEF o
<1>7. Others(t) /\ op'[t] = o
  BY <1>5, <1>6, OneMoves DEF FilesInv, Typed
<1>8. Changes(t)
  BY <1>1, <1>2 DEF Changes, FilesInv, Prepared
<1>9. StepOf(t)
  BY <1>1, <1>2, <1>6, <1>7, <1>8, FilesAssumption
  DEF StepOf, Connected, Unlocks, Touches, Writing, FilesInv, Typed
<1>10. Unreferred(t)'
  <2> SUFFICES ASSUME NEW f \in gone PROVE RefersTo(rows', f) = {}
    BY <1>6, <1>7 DEF Unreferred, RefersTo
  <2> QED BY <1>2, <1>3, SurvivorsReferTo
<1>11. Going(t)'
  <2> SUFFICES ASSUME NEW f \in old.held, f \notin kept PROVE f \in gone
    BY <1>6, <1>7 DEF Going
  <2>1. f \in old.candidates /\ RefersTo(table, f) = {} /\ \A i \in Ids : Complete(table[i])
    BY <1>3
  <2> QED BY <1>3, <2>1, SurvivorsReferTo
<1>12. Own(t)
  BY <1>2, <1>6, <1>7, <1>10, <1>11, FilesAssumption DEF Own, Prepared, Called, Foreseen
<1> QED BY <1>9, <1>12, OthersKeep

LEMMA FinishKeeps ==
  ASSUME FilesInv, NEW t \in Workers, Finish(t)
  PROVE  FilesInv'
<1>1. op[t].at = "finish" /\ writer # t /\ mutex[Home[t]] = t
  BY DEF Finish, At, FilesInv, Locked, Writing
<1>2. UNCHANGED <<rows, mutex, writer>>
  BY DEF Finish
<1> PICK old \in Operation : old = op[t]
  BY Fields DEF FilesInv, Typed
<1> PICK f \in old.candidates, fault \in BOOLEAN :
      /\ files' = IF fault THEN files ELSE [files EXCEPT ![f] = "absent"]
      /\ op' = [op EXCEPT ![t].candidates = @ \ {f}, ![t].failed = @ \/ fault]
  BY DEF Finish
<1>3. /\ old.candidates \ {f} \in SomeFiles /\ (old.failed \/ fault) \in BOOLEAN
      /\ f \in Images
  BY Fields DEF FilesInv, Typed, SomeFiles
<1> PICK rest \in SomeFiles : rest = old.candidates \ {f}
  BY <1>3
<1> PICK failed \in BOOLEAN : failed = (old.failed \/ fault)
  BY <1>3
<1> DEFINE o == [old EXCEPT !.candidates = rest, !.failed = failed]
<1>4. op' = [op EXCEPT ![t] = o]
  <2>1. op' = [op EXCEPT ![t].candidates = rest, ![t].failed = failed]
    OBVIOUS
  <2> QED BY <2>1
<1>5. /\ o \in Operation /\ o.at = old.at /\ o.candidates = rest /\ o.failed = failed
      /\ o.held = old.held /\ o.kept = old.kept /\ o.late = old.late /\ o.row = old.row
  BY Zenon DEF Operation
<1> HIDE DEF o
<1>6. Others(t) /\ op'[t] = o
  BY <1>4, <1>5, OneMoves DEF FilesInv, Typed
<1>7. Touches(t)
  BY DEF Touches, Disks, FilesInv, Typed
<1>8. StepOf(t)
  BY <1>1, <1>2, <1>5, <1>6, <1>7 DEF StepOf, Connected, Unlocks, Changes, Writing
<1>9. Unreferred(t)'
  BY <1>2, <1>5, <1>6 DEF Unreferred, RefersTo, FilesInv
<1>10. Foreseen(t)'
  <2>1. ASSUME NEW u \in Workers, writer = u PROVE op'[u].row.image \in old.late
    <3>1. u # t
      BY <1>1, <2>1
    <3>2. op'[u] = op[u]
      BY <1>6, <3>1 DEF Others
    <3> QED BY <1>1, <2>1, <3>2 DEF Foreseen, FilesInv
  <2> QED BY <1>2, <1>5, <1>6, <2>1 DEF Foreseen
<1>11. Going(t)'
  <2> SUFFICES ASSUME NEW g \in old.held \ (old.kept \cup old.late)
               PROVE  failed \/ g \in rest \/ files'[g] = "absent"
    BY <1>5, <1>6 DEF Going
  <2>1. old.failed \/ g \in old.candidates \/ files[g] = "absent"
    BY <1>1 DEF Going, FilesInv
  <2>2. g \in Images
    BY Fields DEF FilesInv, Typed, SomeFiles
  <2> QED BY <1>3, <2>1, <2>2 DEF FilesInv, Typed, Disks
<1>12. Own(t)
  BY <1>1, <1>5, <1>6, <1>9, <1>10, <1>11 DEF Own, Prepared, Called
<1> QED BY <1>8, <1>12, OthersKeep

-----------------------------------------------------------------------------
(* The lock is taken, or a process dies.                                   *)

LEMMA ImmediateKeeps ==
  ASSUME FilesInv, NEW t \in Workers, Immediate(t)
  PROVE  FilesInv'
<1> USE DEF FilesInv
<1>1. /\ op[t].at = "begin" /\ writer = "free" /\ writer' = t
      /\ UNCHANGED <<rows, files, mutex>>
  BY DEF Immediate, At
<1>2. "free" \notin Workers
  BY FilesAssumption
<1> PICK image \in Images \cup {"none"} : image = op[t].row.image
  BY Fields DEF Typed, Row
<1> DEFINE Told(u) == u # t /\ op[u].at = "finish" /\ Home[u] # Home[t]
\* Each keeps what it has, but for its place and for whose images it knows.
<1>3. ASSUME NEW u \in Workers
      PROVE  /\ op'[u] \in Operation
             /\ op'[u].at = IF u = t THEN "write" ELSE op[u].at
             /\ op'[u].late = IF Told(u) THEN op[u].late \cup {image} ELSE op[u].late
             /\ op'[u].next = op[u].next /\ op'[u].row = op[u].row /\ op'[u].ids = op[u].ids
             /\ op'[u].candidates = op[u].candidates /\ op'[u].held = op[u].held
             /\ op'[u].kept = op[u].kept /\ op'[u].failed = op[u].failed
  <2> PICK old \in Operation : old = op[u]
    BY Fields DEF Typed
  <2>1. CASE u = t
    <3> DEFINE o == [old EXCEPT !.at = "write"]
    <3>1. op'[u] = o
      BY <2>1 DEF Immediate
    <3>2. /\ o \in Operation /\ o.at = "write" /\ o.late = old.late /\ o.next = old.next
          /\ o.row = old.row /\ o.ids = old.ids /\ o.candidates = old.candidates
          /\ o.held = old.held /\ o.kept = old.kept /\ o.failed = old.failed
      <4>1. "write" \in Places
        BY DEF Places
      <4> QED BY <4>1, Zenon DEF Operation
    <3> HIDE DEF o
    <3> QED BY <2>1, <3>1, <3>2
  <2>2. CASE Told(u)
    <3>1. old.late \cup {image} \in SomeImages
      BY Fields DEF Typed, SomeImages
    <3> PICK late \in SomeImages : late = old.late \cup {image}
      BY <3>1
    <3> DEFINE o == [old EXCEPT !.late = late]
    <3>2. op'[u] = [op[u] EXCEPT !.late = op[u].late \cup {op[t].row.image}]
      BY <2>2 DEF Immediate, At
    <3>3. op'[u] = o
      BY <3>2
    <3>4. /\ o \in Operation /\ o.at = old.at /\ o.late = late /\ o.next = old.next
          /\ o.row = old.row /\ o.ids = old.ids /\ o.candidates = old.candidates
          /\ o.held = old.held /\ o.kept = old.kept /\ o.failed = old.failed
      BY Zenon DEF Operation
    <3> HIDE DEF o
    <3> QED BY <2>2, <3>3, <3>4
  <2>3. CASE u # t /\ ~Told(u)
    BY <2>3 DEF Immediate, At
  <2> QED BY <2>1, <2>2, <2>3
<1>4. op' \in Operations
  <2> DEFINE new(u) == IF u = t THEN [op[t] EXCEPT !.at = "write"]
                       ELSE IF At(u, "finish") /\ Home[u] # Home[t]
                       THEN [op[u] EXCEPT !.late = @ \cup {op[t].row.image}]
                       ELSE op[u]
  <2>1. op' = [u \in Workers |-> new(u)]
    BY DEF Immediate
  <2> HIDE DEF new
  <2>2. \A u \in Workers : new(u) \in Operation
    <3>1. \A u \in Workers : op'[u] \in Operation
      BY <1>3
    <3> QED BY <2>1, <3>1
  <2> QED BY <2>1, <2>2 DEF Operations
<1> HIDE DEF Told
<1>5. Typed'
  BY <1>1, <1>4 DEF Typed
<1>6. Locked'
  BY ZenonT(30), <1>1, <1>2, <1>3 DEF Locked, Writing
<1>7. ASSUME NEW u \in Workers
      PROVE  Prepared(u)' /\ Called(u)' /\ Unreferred(u)' /\ Foreseen(u)' /\ Going(u)'
  <2>1. Prepared(u)'
    <3> SUFFICES ASSUME op'[u].at \in {"files", "commit"}
                 PROVE  /\ \A f \in Images :
                             \/ RefersTo(op'[u].next, f) \subseteq RefersTo(rows', f)
                             \/ f = op'[u].row.image
                        /\ op'[u].held \subseteq op'[u].candidates
      BY DEF Prepared, RefersTo
    <3>1. op[u].at \in {"files", "commit"}
      BY <1>3
    <3>2. rows' = rows /\ op'[u].next = op[u].next /\ op'[u].row = op[u].row
          /\ op'[u].held = op[u].held /\ op'[u].candidates = op[u].candidates
      BY <1>1, <1>3
    <3> QED BY <3>1, <3>2 DEF Prepared
  <2>2. Called(u)'
    BY <1>1, <1>3 DEF Called
  <2>3. Unreferred(u)'
    BY <1>1, <1>3 DEF Unreferred, RefersTo
  <2>4. Foreseen(u)'
    <3> SUFFICES ASSUME op'[u].at = "finish" PROVE image \in op'[u].late
      BY <1>1, <1>3 DEF Foreseen
    <3>1. u # t /\ op[u].at = "finish"
      BY <1>3
    <3>2. mutex[Home[u]] = u /\ mutex[Home[t]] = t
      BY <1>1, <3>1 DEF Locked
    <3>3. Told(u)
      BY <3>1, <3>2 DEF Told
    <3> QED BY <1>3, <3>3
  <2>5. Going(u)'
    BY <1>1, <1>3 DEF Going
  <2> QED BY <2>1, <2>2, <2>3, <2>4, <2>5
<1> QED BY <1>5, <1>6, <1>7

LEMMA CrashKeeps ==
  ASSUME FilesInv, NEW p \in Processes, Crash(p)
  PROVE  FilesInv'
<1> USE DEF FilesInv
<1> DEFINE Ours == {t \in Workers : Home[t] = p}
<1>1. /\ op' = [t \in Workers |-> IF t \in Ours THEN NoOp ELSE op[t]]
      /\ mutex' = [mutex EXCEPT ![p] = "free"]
      /\ writer' = IF writer \in Ours THEN "free" ELSE writer
      /\ rows' = rows
  BY DEF Crash
<1>2. op' \in Operations
  BY <1>1, NoOperation DEF Typed, Operations
<1>3. /\ \A u \in Ours : op'[u] = NoOp
      /\ \A u \in Workers \ Ours : op'[u] = op[u]
  BY <1>1
<1>4. \/ files' = files
      \/ \E t \in Ours :
           /\ op[t].at \in Writing
           /\ files' = [files EXCEPT ![op[t].row.image] = "partial"]
  BY DEF Crash, Writing
<1>5. Typed'
  BY <1>1, <1>2, <1>4 DEF Typed, Disks
<1>6. Locked'
  <2> SUFFICES ASSUME NEW u \in Workers
               PROVE  /\ op'[u].at # "none" => mutex'[Home[u]] = u
                      /\ op'[u].at \in Writing <=> writer' = u
    BY DEF Locked
  <2>1. /\ op[u].at # "none" => mutex[Home[u]] = u
        /\ op[u].at \in Writing <=> writer = u
    BY DEF Locked
  <2>2. "free" \notin Workers /\ Home[u] \in Processes
    BY FilesAssumption DEF Processes
  <2>3. CASE u \in Ours
    BY <1>1, <1>3, <2>2, <2>3, NoOperation DEF Writing
  <2>4. CASE u \notin Ours
    <3>1. op'[u] = op[u]
      BY <1>3, <2>4
    <3>2. mutex'[Home[u]] = mutex[Home[u]]
      BY <1>1, <2>2, <2>4 DEF Typed
    <3> QED BY <1>1, <2>1, <2>2, <2>4, <3>1, <3>2
  <2> QED BY <2>3, <2>4
<1>7. ASSUME NEW u \in Workers
      PROVE  Prepared(u)' /\ Called(u)' /\ Unreferred(u)' /\ Foreseen(u)' /\ Going(u)'
  <2>1. CASE u \in Ours
    BY <1>3, <2>1, NoOperation DEF Prepared, Called, Unreferred, Foreseen, Going
  <2>2. CASE u \notin Ours
    <3>1. op'[u] = op[u]
      BY <1>3, <2>2
    <3>2. Prepared(u)' /\ Called(u)' /\ Unreferred(u)'
      BY <1>1, <3>1 DEF Prepared, Called, Unreferred, RefersTo
    <3>3. Foreseen(u)'
      <4> SUFFICES ASSUME op[u].at = "finish", NEW v \in Workers, writer' = v
                   PROVE  op'[v].row.image \in op[u].late
        BY <3>1 DEF Foreseen
      <4>1. writer = v /\ v \notin Ours
        BY <1>1, FilesAssumption
      <4>2. op'[v] = op[v]
        BY <1>3, <4>1
      <4> QED BY <4>1, <4>2 DEF Foreseen
    <3>4. Going(u)'
      <4> SUFFICES ASSUME op[u].at = "finish",
                          NEW f \in op[u].held \ (op[u].kept \cup op[u].late)
                   PROVE  op[u].failed \/ f \in op[u].candidates \/ files'[f] = "absent"
        BY <3>1 DEF Going
      <4>1. op[u].failed \/ f \in op[u].candidates \/ files[f] = "absent"
        BY DEF Going
      <4>2. f \in Images
        BY Fields DEF Typed, SomeFiles
      <4>3. ASSUME NEW t \in Ours, op[t].at \in Writing PROVE f # op[t].row.image
        <5>1. writer = t
          BY <4>3 DEF Locked
        <5> QED BY <5>1 DEF Foreseen
      <4> QED BY <1>4, <4>1, <4>2, <4>3 DEF Typed, Disks
    <3> QED BY <3>2, <3>3, <3>4
  <2> QED BY <2>1, <2>2
<1> QED BY <1>5, <1>6, <1>7

-----------------------------------------------------------------------------
(* The whole.                                                              *)

LEMMA BeginsKeep ==
  ASSUME FilesInv, NEW t \in Workers,
         BeginCapture(t) \/ BeginSeal(t) \/ BeginRewrite(t) \/ BeginDrop(t) \/ BeginDelete(t)
  PROVE  FilesInv'
<1>1. ASSUME NEW i \in Ids PROVE {i} \in SomeIds /\ {i} # {}
  BY DEF SomeIds
<1>2. ASSUME NEW ids \in (SUBSET Stored(rows)) \ {{}} PROVE ids \in SomeIds /\ ids # {}
  BY DEF SomeIds, Stored
<1>3. ASSUME BeginCapture(t) PROVE FilesInv'
  <2>1. ASSUME NEW i \in Ids, NEW form \in {"plain", "odd", "sealed"},
               Begin(t, "capture", "begin", {i}, RowOf(form))
        PROVE  FilesInv'
    BY <1>1, <2>1, PlainRows, BeginKeeps DEF Kinds
  <2>2. ASSUME NEW i \in Ids, NEW form \in WithFile, NEW f \in Images,
               Begin(t, "capture", "begin", {i}, [form |-> form, image |-> f])
        PROVE  FilesInv'
    BY <1>1, <2>2, ImageRows, BeginKeeps DEF Kinds
  <2> QED BY <1>3, <2>1, <2>2 DEF BeginCapture
<1>4. ASSUME BeginSeal(t) PROVE FilesInv'
  BY <1>1, <1>4, PlainRows, BeginKeeps DEF BeginSeal, Visible, Stored, Kinds
<1>5. ASSUME BeginRewrite(t) PROVE FilesInv'
  BY <1>1, <1>5, PlainRows, BeginKeeps DEF BeginRewrite, Stored, Kinds
<1>6. ASSUME BeginDrop(t) PROVE FilesInv'
  BY <1>2, <1>6, EmptyRow, BeginKeeps DEF BeginDrop, Kinds
<1>7. ASSUME BeginDelete(t) PROVE FilesInv'
  BY <1>2, <1>7, EmptyRow, BeginKeeps DEF BeginDelete, Kinds
<1> QED BY <1>3, <1>4, <1>5, <1>6, <1>7

LEMMA FilesStart == FilesInit => FilesInv
<1> SUFFICES ASSUME FilesInit PROVE FilesInv
  OBVIOUS
<1>1. rows \in Tables
  <2>1. {NoRow} \cup [form : WithFile, image : Images] \subseteq Row
    BY EmptyRow DEF Row, Forms
  <2> QED BY <2>1 DEF FilesInit, Tables
<1>2. \A t \in Workers : op[t] = NoOp
  BY DEF FilesInit
<1>3. Typed
  BY <1>1, NoOperation DEF FilesInit, Typed, Disks, Operations
<1>4. Locked
  BY <1>2, NoOperation, FilesAssumption DEF FilesInit, Locked, Writing
<1> QED
  BY <1>2, <1>3, <1>4, NoOperation
  DEF FilesInv, Prepared, Called, Unreferred, Foreseen, Going

LEMMA FilesStay == FilesInv /\ [FilesNext]_fileVars => FilesInv'
<1> SUFFICES ASSUME FilesInv, [FilesNext]_fileVars PROVE FilesInv'
  OBVIOUS
<1>1. CASE UNCHANGED fileVars
  BY <1>1 DEF fileVars, FilesInv, Typed, Locked, Prepared, Called, Unreferred, Foreseen, Going,
              RefersTo
<1>2. ASSUME NEW t \in Workers, FileStep(t) PROVE FilesInv'
  BY <1>2, BeginsKeep, ImmediateKeeps, AbandonKeeps, WriteKeeps, MaterializeKeeps, CommitKeeps,
     CommitFailsKeeps, UndoKeeps, FinishKeeps, FinishedKeeps, EnforceLimitKeeps, UnlinkKeeps,
     ForgetKeeps
  DEF FileStep
<1> QED BY <1>1, <1>2, CrashKeeps DEF FilesNext

\* The invariant, of every number of threads, processes, rows and images.
THEOREM FilesInvariant == FilesSpec => []FilesInv
<1> QED BY FilesStart, FilesStay, PTL DEF FilesSpec

-----------------------------------------------------------------------------
(* What follows from it.                                                   *)

\* Files go in three ways: what a failed capture had created, what is left to remove after
\* a commit, and what a row to be deleted had.
LEMMA RemovalKinds ==
  ASSUME FilesInv, FilesNext, NEW f \in Images, files[f] # "absent", files'[f] = "absent"
  PROVE  \E u \in Workers : Undo(u) \/ Finish(u) \/ Unlink(u)
<1>1. files \in Disks
  BY DEF FilesInv, Typed
<1>2. ASSUME NEW u \in Workers, FileStep(u) PROVE Undo(u) \/ Finish(u) \/ Unlink(u)
  <2>1. CASE Write(u)
    BY <1>1, <2>1 DEF Write, Sealed, Plain, External, Disks
  <2>2. CASE Materialize(u)
    BY <1>1, <2>2 DEF Materialize, Disks
  <2>3. CASE \/ BeginCapture(u) \/ BeginSeal(u) \/ BeginRewrite(u) \/ BeginDrop(u)
             \/ BeginDelete(u)
    BY <2>3 DEF BeginCapture, BeginSeal, BeginRewrite, BeginDrop, BeginDelete, Begin
  <2>4. CASE \/ Immediate(u) \/ GiveUpWrite(u) \/ Commit(u) \/ CommitFails(u) \/ Finished(u)
             \/ EnforceLimit(u) \/ ForgetRow(u)
    BY <2>4 DEF Immediate, GiveUpWrite, Commit, CommitFails, Finished, EnforceLimit, ForgetRow
  <2> QED BY <1>2, <2>1, <2>2, <2>3, <2>4 DEF FileStep
<1>3. ASSUME NEW p \in Processes, Crash(p) PROVE FALSE
  BY <1>1, <1>3 DEF Crash, Disks
<1> QED BY <1>2, <1>3 DEF FilesNext

\* What is cleaned up after a commit belongs to no row, neither then nor when it is removed,
\* unless another process has come with it in between (history).
THEOREM CleanupSpares == FilesSpec => CleanupSparesRows
<1>1. FilesInv /\ [FilesNext]_fileVars =>
        [\A t \in Workers, f \in Images :
           At(t, "finish") /\ Removes(t, f) =>
             RefersTo(rows, f) = {} \/ f \in op[t].late]_fileVars
  <2> SUFFICES ASSUME FilesInv, FilesNext,
                      NEW t \in Workers, NEW f \in Images, At(t, "finish"), Removes(t, f)
               PROVE  RefersTo(rows, f) = {} \/ f \in op[t].late
    OBVIOUS
  <2>1. files[f] # "absent" /\ files'[f] = "absent" /\ op'[t] # op[t] /\ op[t].at = "finish"
    BY DEF Removes, At
  <2>2. PICK u \in Workers : Undo(u) \/ Finish(u) \/ Unlink(u)
    BY <2>1, RemovalKinds
  <2>3. op \in Operations /\ files \in Disks
    BY DEF FilesInv, Typed
  <2>4. u = t
    BY <2>1, <2>2, <2>3 DEF Undo, Finish, Unlink, Return, Operations
  <2>5. f \in op[t].candidates
    BY <2>1, <2>2, <2>3, <2>4 DEF Undo, Finish, Unlink, At, Disks
  <2> QED BY <2>1, <2>5 DEF FilesInv, Unreferred
<1> QED BY <1>1, FilesInvariant, PTL DEF FilesSpec, CleanupSparesRows

\* Once a row's protection is acknowledged, the image that it had is no file any more, but
\* for the cases that the property names (history).
THEOREM ProtectedLeaves == FilesSpec => ProtectedLeavesNoFile
<1>1. FilesInv /\ [FilesNext]_fileVars =>
        [\A t \in Workers :
           AcknowledgeWrite(t) /\ op'[t] # op[t] =>
             \A f \in op[t].held \ (op[t].kept \cup op[t].late) : files[f] = "absent"]_fileVars
  BY DEF FilesInv, Going, AcknowledgeWrite, At
<1> QED BY <1>1, FilesInvariant, PTL DEF FilesSpec, ProtectedLeavesNoFile

-----------------------------------------------------------------------------
(* The master key.                                                         *)

UnderLock == {"persistent", "legacy", "forward", "create", "second", "publish",
              "unpersisted"}

\* What a call knows at the step it is at.
Knows(c) ==
  /\ call[c].at \in UnderLock => holder = {c}
  /\ call[c].at \in {"legacy", "forward", "create"} => service = NoKey
  /\ call[c].at \in {"forward", "second", "publish", "unpersisted", "seal"} =>
       call[c].key \in Keys
  /\ call[c].at \in {"second", "publish", "seal"} => service = call[c].key
  /\ call[c].at \in {"forward", "unpersisted"} =>
       /\ service \in {NoKey, call[c].key}
       /\ keyring \in {NoKey, call[c].key}
       /\ recovered \in {NoKey, call[c].key}

\* How the caches and the stores agree.
Agreed ==
  /\ cache # NoKey => cache = service
  /\ recovered # NoKey /\ service # NoKey => recovered = service
  /\ recovered # NoKey /\ keyring # NoKey /\ service = NoKey => recovered = keyring

\* The inductive invariant.
KeyInv ==
  /\ TypeOK
  /\ \A c \in Callers : Knows(c)
  /\ Agreed
  /\ handed \subseteq {service, recovered}
  /\ SealedStaysReadable

USE KeysAssumption
USE DEF Idle, IsAt, vars, stores, caches, past, Steps, UnderLock

CallType == [Callers -> [at : Steps, writing : BOOLEAN, key : Keys \cup {NoKey}]]

\* c is at step now, with k, and nobody else has moved.
Moved(c, step, k) ==
  /\ call' \in CallType
  /\ call'[c].at = step /\ call'[c].key = k
  /\ \A d \in Callers : d # c => call'[d] = call[d]

\* How a call's record moves.
LEMMA Moves ==
  ASSUME call \in CallType, NEW c \in Callers
  PROVE  /\ \A step \in Steps : Go(c, step) => Moved(c, step, call[c].key)
         /\ \A step \in Steps, k \in Keys \cup {NoKey} :
              Take(c, step, k) => Moved(c, step, k)
         /\ Fail(c) => Moved(c, "idle", NoKey)
         /\ \A k \in Keys : HandOut(c, k) /\ call[c].writing => Moved(c, "seal", k)
         /\ \A k \in Keys : HandOut(c, k) /\ ~call[c].writing => Moved(c, "idle", NoKey)
<1>1. ASSUME NEW step \in Steps, Go(c, step) PROVE Moved(c, step, call[c].key)
  BY <1>1 DEF Go, Moved, CallType
<1>2. ASSUME NEW step \in Steps, NEW k \in Keys \cup {NoKey}, Take(c, step, k)
      PROVE  Moved(c, step, k)
  BY <1>2 DEF Take, Moved, CallType
<1>3. ASSUME Fail(c) PROVE Moved(c, "idle", NoKey)
  BY <1>3 DEF Fail, Moved, CallType
<1>4. ASSUME NEW k \in Keys, HandOut(c, k), call[c].writing PROVE Moved(c, "seal", k)
  BY <1>4 DEF HandOut, Moved, CallType
<1>5. ASSUME NEW k \in Keys, HandOut(c, k), ~call[c].writing PROVE Moved(c, "idle", NoKey)
  BY <1>5 DEF HandOut, Moved, CallType
<1> QED BY <1>1, <1>2, <1>3, <1>4, <1>5

\* The rest speaks of the fields.
USE DEF KeyInv, TypeOK, Knows, Agreed, SealedStaysReadable

\* A key left by an earlier build is no contradiction.
LEMMA KeyStarts == Init => KeyInv
  BY SMT DEF Init

\* The calls are records.
LEMMA CallTyped == TypeOK => call \in CallType
  BY DEF CallType

\* The steps outside the lock: what is handed out is in a cache.
LEMMA OutsideKeeps ==
  ASSUME KeyInv, NEW c \in Callers, Ask(c) \/ Look(c) \/ Lock(c) \/ Seal(c)
  PROVE  KeyInv'
<1>0. call \in CallType
  BY CallTyped
<1>1. CASE Look(c)
  <2>0. UNCHANGED <<stores, caches, holder, made, sealed, warned>>
    BY <1>1 DEF Look
  <2>1. CASE cache # NoKey /\ HandOut(c, cache)
    <3>1. Moved(c, "seal", cache) \/ Moved(c, "idle", NoKey)
      BY <1>0, <2>1, Moves, SMT DEF CallType
    <3> QED BY <2>0, <2>1, <3>1, SMT DEF Moved, CallType, HandOut
  <2>2. CASE recovered # NoKey /\ ~call[c].writing /\ HandOut(c, recovered)
    <3>1. Moved(c, "idle", NoKey)
      BY <1>0, <2>2, Moves, SMT DEF CallType
    <3> QED BY <2>0, <2>2, <3>1, SMT DEF Moved, CallType, HandOut
  <2>3. CASE Go(c, "lock") /\ UNCHANGED handed
    <3>1. Moved(c, "lock", call[c].key)
      BY <1>0, <2>3, Moves, SMT DEF CallType
    <3> QED BY <2>0, <2>3, <3>1, SMT DEF Moved, CallType
  <2> QED BY <1>1, <2>1, <2>2, <2>3, Zenon DEF Look
<1>2. CASE Lock(c)
  <2>0. UNCHANGED <<stores, caches, made, sealed, warned>>
    BY <1>2 DEF Lock
  <2>1. CASE cache # NoKey /\ HandOut(c, cache) /\ UNCHANGED holder
    <3>1. Moved(c, "seal", cache) \/ Moved(c, "idle", NoKey)
      BY <1>0, <2>1, Moves, SMT DEF CallType
    <3> QED BY <2>0, <2>1, <3>1, SMT DEF Moved, CallType, HandOut
  <2>2. CASE Go(c, "persistent") /\ holder = {} /\ holder' = {c} /\ UNCHANGED handed
    <3>1. Moved(c, "persistent", call[c].key)
      BY <1>0, <2>2, Moves, SMT DEF CallType
    <3> QED BY <2>0, <2>2, <3>1, SMT DEF Moved, CallType
  <2> QED BY <1>2, <2>1, <2>2, Zenon DEF Lock
<1>3. CASE Ask(c)
  <2>0. PICK w \in BOOLEAN :
          call' = [call EXCEPT ![c] = [Idle EXCEPT !.at = "look", !.writing = w]]
    BY <1>3, Zenon DEF Ask
  <2>1. Moved(c, "look", NoKey)
    BY <1>0, <2>0 DEF Moved, CallType
  <2>2. UNCHANGED <<stores, caches, holder, past>>
    BY <1>3 DEF Ask
  <2> QED BY <2>1, <2>2, SMT DEF Moved, CallType
<1>4. CASE Seal(c)
  <2>1. Moved(c, "idle", NoKey)
    BY <1>0, <1>4 DEF Seal, Moved, CallType
  <2> QED BY <1>4, <2>1, SMT DEF Seal, Moved, CallType
<1> QED
  BY <1>1, <1>2, <1>3, <1>4

\* The probes: a store that does not answer ends the call.
LEMMA ProbesKeep ==
  ASSUME KeyInv, NEW c \in Callers, ProbePersistent(c) \/ ProbeLegacy(c)
  PROVE  KeyInv'
<1>0. call \in CallType
  BY CallTyped
<1>1. CASE ProbePersistent(c)
  <2>0. UNCHANGED <<stores, caches, made, sealed, warned>>
    BY <1>1 DEF ProbePersistent
  <2>1. CASE call[c].at = "persistent" /\ service # NoKey /\ Take(c, "publish", service)
           /\ UNCHANGED <<holder, handed>>
    <3>1. Moved(c, "publish", service)
      BY <1>0, <2>1, Moves, SMT DEF CallType
    <3> QED BY <2>0, <2>1, <3>1, SMT DEF Moved, CallType
  <2>2. CASE call[c].at = "persistent" /\ service = NoKey /\ Go(c, "legacy")
           /\ UNCHANGED <<holder, handed>>
    <3>1. Moved(c, "legacy", call[c].key)
      BY <1>0, <2>2, Moves, SMT DEF CallType
    <3> QED BY <2>0, <2>2, <3>1, SMT DEF Moved, CallType
  <2>3. CASE call[c].at = "persistent" /\ Fail(c) /\ holder' = {}
    <3>1. Moved(c, "idle", NoKey)
      BY <1>0, <2>3, Moves, SMT DEF CallType
    <3> QED BY <2>0, <2>3, <3>1, SMT DEF Moved, CallType, Fail
  <2> QED BY <1>1, <2>1, <2>2, <2>3, Zenon DEF ProbePersistent, Unreadable
<1>2. CASE ProbeLegacy(c)
  <2>0. UNCHANGED <<stores, caches, made, sealed, warned>>
    BY <1>2 DEF ProbeLegacy
  <2>1. CASE call[c].at = "legacy" /\ keyring # NoKey /\ Take(c, "forward", keyring)
           /\ UNCHANGED <<holder, handed>>
    <3>1. Moved(c, "forward", keyring)
      BY <1>0, <2>1, Moves, SMT DEF CallType
    <3> QED BY <2>0, <2>1, <3>1, SMT DEF Moved, CallType
  <2>2. CASE call[c].at = "legacy" /\ Go(c, "create") /\ UNCHANGED <<holder, handed>>
    <3>1. Moved(c, "create", call[c].key)
      BY <1>0, <2>2, Moves, SMT DEF CallType
    <3> QED BY <2>0, <2>2, <3>1, SMT DEF Moved, CallType
  <2>3. CASE call[c].at = "legacy" /\ Fail(c) /\ holder' = {}
    <3>1. Moved(c, "idle", NoKey)
      BY <1>0, <2>3, Moves, SMT DEF CallType
    <3> QED BY <2>0, <2>3, <3>1, SMT DEF Moved, CallType, Fail
  <2> QED BY <1>2, <2>1, <2>2, <2>3, Zenon DEF ProbeLegacy, Unreadable
<1> QED
  BY <1>1, <1>2

\* The writes: the secret service gets a key only when it has none and no row is
\* under any.
LEMMA WritesKeep ==
  ASSUME KeyInv, NEW c \in Callers, WriteForward(c) \/ Create(c) \/ CreateSecond(c)
  PROVE  KeyInv'
<1>0. call \in CallType
  BY CallTyped
<1>1. CASE WriteForward(c)
  <2>0. UNCHANGED <<keyring, caches, holder, made, sealed, handed>>
    BY <1>1 DEF WriteForward
  <2>1. CASE call[c].at = "forward" /\ service' = call[c].key /\ Go(c, "publish")
           /\ UNCHANGED warned
    <3>1. Moved(c, "publish", call[c].key)
      BY <1>0, <2>1, Moves, SMT DEF CallType
    <3>2. /\ sealed = {} /\ cache = NoKey /\ call[c].key \in Keys
          /\ handed \subseteq {call[c].key}
          /\ \A d \in Callers : d # c => call[d].at \notin UnderLock \cup {"seal"}
      BY <2>1, SMT
    <3>3. TypeOK'
      BY <2>0, <2>1, <3>1, <3>2, SMT DEF Moved, CallType
    <3>4. \A d \in Callers : Knows(d)'
      BY <2>0, <2>1, <3>1, <3>2, SMT DEF Moved, CallType
    <3>5. Agreed' /\ SealedStaysReadable' /\ (handed \subseteq {service, recovered})'
      BY <2>0, <2>1, <3>1, <3>2, SMT
    <3> QED BY <3>3, <3>4, <3>5
  <2>2. CASE call[c].at = "forward" /\ service' \in Refused(service, call[c].key)
           /\ Go(c, "unpersisted") /\ warned' = call[c].key
    <3>1. Moved(c, "unpersisted", call[c].key)
      BY <1>0, <2>2, Moves, SMT DEF CallType
    <3>2. /\ sealed = {} /\ cache = NoKey /\ call[c].key \in Keys
          /\ handed \subseteq {call[c].key} /\ service' \in {NoKey, call[c].key}
          /\ \A d \in Callers : d # c => call[d].at \notin UnderLock \cup {"seal"}
      BY <2>2, SMT DEF Refused
    <3>3. TypeOK'
      BY <2>0, <2>2, <3>1, <3>2, SMT DEF Moved, CallType
    <3>4. \A d \in Callers : Knows(d)'
      BY <2>0, <2>2, <3>1, <3>2, SMT DEF Moved, CallType
    <3>5. Agreed' /\ SealedStaysReadable' /\ (handed \subseteq {service, recovered})'
      BY <2>0, <2>2, <3>1, <3>2, SMT
    <3> QED BY <3>3, <3>4, <3>5
  <2> QED BY <1>1, <2>1, <2>2, Zenon DEF WriteForward
<1>2. CASE Create(c)
  <2>0. call[c].at = "create" /\ UNCHANGED <<keyring, caches, sealed, warned>>
    BY <1>2 DEF Create
  <2>1. CASE Fail(c) /\ holder' = {} /\ UNCHANGED <<service, made>>
    <3>1. Moved(c, "idle", NoKey)
      BY <1>0, <2>1, Moves
    <3> QED BY <2>0, <2>1, <3>1, SMT DEF Fail, Moved, CallType
  <2>2. ASSUME NEW k \in KeyToPersist, made' = made \cup {k}, service' = k,
               Take(c, "second", k), UNCHANGED <<holder, handed>>
        PROVE  KeyInv'
    <3>1. k \in Keys /\ Moved(c, "second", k)
      BY <1>0, <2>2, Moves, SMT DEF KeyToPersist
    <3> QED BY <2>0, <2>2, <3>1, SMT DEF KeyToPersist, Moved, CallType
  <2>3. ASSUME NEW k \in KeyToPersist, made' = made \cup {k},
               service' \in Refused(service, k), Fail(c), holder' = {}
        PROVE  KeyInv'
    <3>1. k \in Keys /\ Moved(c, "idle", NoKey)
      BY <1>0, <2>3, Moves, SMT DEF KeyToPersist
    <3> QED BY <2>0, <2>3, <3>1, SMT DEF Fail, KeyToPersist, Refused, Moved, CallType
  <2> QED BY <1>2, <2>1, <2>2, <2>3 DEF Create
<1>3. CASE CreateSecond(c)
  <2>1. Moved(c, "publish", call[c].key)
    BY <1>0, <1>3, Moves, SMT DEF CreateSecond
  <2> QED BY <1>3, <2>1, SMT DEF CreateSecond, Moved, CallType
<1> QED
  BY <1>1, <1>2, <1>3

\* The ends of a call that has found a key.
LEMMA EndsKeep ==
  ASSUME KeyInv, NEW c \in Callers, Publish(c) \/ KeepRecovered(c)
  PROVE  KeyInv'
<1>0. call \in CallType
  BY CallTyped
<1>1. CASE Publish(c)
  <2>1. cache' \in Keys /\ cache' = service /\ HandOut(c, cache')
    BY <1>1, SMT DEF Publish
  <2>2. Moved(c, "seal", cache') \/ Moved(c, "idle", NoKey)
    BY <1>0, <2>1, Moves, SMT DEF CallType
  <2> QED BY <1>1, <2>1, <2>2, SMT DEF Publish, HandOut, Moved, CallType
<1>2. CASE KeepRecovered(c)
  <2>1. CASE call[c].writing
    <3>1. Moved(c, "idle", NoKey)
      BY <1>0, <1>2, <2>1, Moves, SMT DEF KeepRecovered
    <3> QED BY <1>2, <2>1, <3>1, SMT DEF KeepRecovered, Fail, Moved, CallType
  <2>2. CASE ~call[c].writing
    <3>1. recovered' = call[c].key /\ recovered' \in Keys /\ HandOut(c, recovered')
      BY <1>2, <2>2, SMT DEF KeepRecovered
    <3>2. Moved(c, "idle", NoKey)
      BY <1>0, <2>2, <3>1, Moves, SMT
    <3> QED BY <1>2, <2>2, <3>1, <3>2, SMT DEF KeepRecovered, HandOut, Moved, CallType
  <2> QED BY <2>1, <2>2
<1> QED
  BY <1>1, <1>2

\* The process, the session and the keyring come and go.
LEMMA WorldKeeps ==
  ASSUME KeyInv, Crashes \/ Logout \/ Evict
  PROVE  KeyInv'
<1>1. CASE Evict
  BY <1>1, SMT DEF Evict
<1>2. CASE Crashes \/ Logout
  <2>1. /\ call' = [c \in Callers |-> [at |-> "idle", writing |-> FALSE, key |-> NoKey]]
        /\ cache' = NoKey /\ recovered' = NoKey /\ holder' = {}
        /\ handed' = {} /\ warned' = NoKey
        /\ keyring' \in {keyring, NoKey} /\ UNCHANGED <<service, made, sealed>>
    BY <1>2, Zenon DEF Crashes, Logout, Restarted
  <2> QED BY <2>1, SMT
<1> QED
  BY <1>1, <1>2

\* In every reachable state the stores, the caches and the calls agree on the key.
THEOREM KeyInvariant == Spec => []KeyInv
<1>1. KeyInv /\ [Next]_vars => KeyInv'
  <2> SUFFICES ASSUME KeyInv, [Next]_vars PROVE KeyInv'
    OBVIOUS
  <2>1. CASE UNCHANGED vars
    BY <2>1 DEF KeyInv, TypeOK, Knows, Agreed, SealedStaysReadable
  <2>2. ASSUME NEW c \in Callers, Call(c) PROVE KeyInv'
    BY <2>2, OutsideKeeps, ProbesKeep, WritesKeep, EndsKeep, Zenon DEF Call
  <2> QED
    BY <2>1, <2>2, WorldKeeps, Zenon DEF Next
<1> QED
  BY <1>1, KeyStarts, PTL DEF Spec

\* The secret service holds the key of every row, whatever failed, whoever raced
\* and whatever ended in between (encrypt_platform, initialise_master_key).
THEOREM SealedIsReadable == Spec => []SealedStaysReadable
<1>1. KeyInv => SealedStaysReadable
  BY DEF KeyInv
<1> QED
  BY <1>1, KeyInvariant, PTL

\* One process never hands two different keys to two callers (the comment of
\* MASTER_KEY_INIT_LOCK).
THEOREM OneKeyIsHanded == Spec => []OneKeyHanded
<1>1. KeyInv => OneKeyHanded
  BY SMT DEF KeyInv, TypeOK, Agreed, OneKeyHanded
<1> QED
  BY <1>1, KeyInvariant, PTL
=============================================================================
