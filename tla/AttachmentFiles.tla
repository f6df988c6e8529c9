--------------------------- MODULE AttachmentFiles ---------------------------
(***************************************************************************)
(* The images of the history that are kept in files of their own, below    *)
(* attachments/, and the rows that refer to them.  A file is named after   *)
(* its bytes, so that two rows with the same image share one.  Rows change *)
(* in transactions and files do not: a capture writes files inside its     *)
(* transaction, whoever protects or removes rows by tag removes files      *)
(* after the commit, and an ordinary deletion, or the limit, before it.    *)
(*                                                                         *)
(* A process has one connection, behind a mutex that an operation holds    *)
(* from its beginning to its end; between processes there is only SQLite's *)
(* write lock.  Any process may die, and any write may fail.               *)
(***************************************************************************)
EXTENDS Naturals, FiniteSets

CONSTANTS
  Workers,    \* threads that work on the history
  Home,       \* the process of each
  Ids,        \* the rows
  Images,     \* the images, and the files named after them
  Limit,      \* app.persistent_limit
  MaxOps, MaxFaults

ASSUME FilesAssumption ==
  Limit \in Nat /\ MaxOps \in Nat /\ MaxFaults \in Nat /\ "free" \notin Workers

VARIABLES
  rows,    \* clipboard_history
  files,   \* attachments/: each image "absent", "partial" or "whole"
  mutex,   \* per process, the thread that holds the connection, or "free"
  writer,  \* the thread whose transaction is open, or "free"
  op,      \* per thread, the operation under way
  ops, faults

fileVars == <<rows, files, mutex, writer, op, ops, faults>>

Processes == {Home[t] : t \in Workers}

\* A row keeps an image in its content (external), in the marker at the end of its HTML
\* or in an element of it (inline); or everything in the row, plain or sealed; or refers
\* to something that nobody here can account for (odd).
WithFile == {"external", "marker", "inline"}
NoRow == [form |-> "none", image |-> "none"]
RowOf(form) == [form |-> form, image |-> "none"]

Stored(table) == {i \in Ids : table[i].form # "none"}
Visible(table) == {i \in Stored(table) : table[i].form # "sealed"}
RefersTo(table, f) == {i \in Ids : table[i].form \in WithFile /\ table[i].image = f}

\* kind: capture, seal (tags, feedback, rules, OCR), rewrite (an edit, or tags removed), drop
\* (by tag), delete.
\* held: the files the sealed row had; kept: of these, the ones the commit left to a
\* surviving row (history); late: the images of other processes' transactions since then
\* (history).
NoOp == [kind |-> "none", at |-> "none", ids |-> {}, row |-> NoRow,
         next |-> [i \in Ids |-> NoRow], candidates |-> {}, created |-> {}, left |-> {},
         failed |-> FALSE, held |-> {}, kept |-> {}, late |-> {}]

\* A history that captures have left: an image in a row has its file.
FilesInit ==
  /\ rows \in [Ids -> {NoRow} \cup [form : WithFile, image : Images]]
  /\ files = [f \in Images |-> IF RefersTo(rows, f) = {} THEN "absent" ELSE "whole"]
  /\ mutex = [p \in Processes |-> "free"] /\ writer = "free"
  /\ op = [t \in Workers |-> NoOp] /\ ops = 0 /\ faults = 0

At(t, place) == op[t].at = place
GoTo(t, place) == op' = [op EXCEPT ![t].at = place]
May(fault) == IF fault THEN faults < MaxFaults /\ faults' = faults + 1 ELSE faults' = faults

Return(t) == op' = [op EXCEPT ![t] = NoOp] /\ mutex' = [mutex EXCEPT ![Home[t]] = "free"]

-----------------------------------------------------------------------------
(* What a row refers to.                                                   *)

\* AttachmentOwner::references: the files of ours that are there, and whether the row
\* refers to nothing else.
References(row) ==
  IF row.form \in WithFile /\ files[row.image] # "absent" THEN {row.image} ELSE {}
Complete(row) == row.form # "odd" /\ (row.form \in WithFile => References(row) # {})

ForEntries(ids) == UNION {References(rows[i]) : i \in ids}

\* Mutant: only the images of rows' contents are looked at.
SurvivingContents(candidates, table) ==
  IF \E i \in Ids : ~Complete(table[i]) THEN {}
  ELSE candidates \ UNION {References(table[i]) : i \in {j \in Ids : table[j].form = "external"}}
\* protect_surviving_references.
Surviving(candidates, table) ==
  IF \E i \in Ids : ~Complete(table[i]) THEN {}
  ELSE candidates \ UNION {References(table[i]) : i \in Ids}

\* collect_attachment_paths_for_cleanup.
Collected(row) == IF row.form \in {"external", "marker"} THEN {row.image} ELSE {}

-----------------------------------------------------------------------------
(* An operation begins with the connection's mutex.                        *)

Begin(t, kind, at, ids, row) ==
  /\ op[t] = NoOp /\ ops < MaxOps /\ mutex[Home[t]] = "free"
  /\ mutex' = [mutex EXCEPT ![Home[t]] = t] /\ ops' = ops + 1
  /\ op' = [op EXCEPT ![t] = [NoOp EXCEPT !.kind = kind, !.at = at, !.ids = ids, !.row = row]]
  /\ UNCHANGED <<rows, files, writer, faults>>

BeginCapture(t) ==
  \E i \in Ids :
    \/ \E form \in {"plain", "odd", "sealed"} : Begin(t, "capture", "begin", {i}, RowOf(form))
    \/ \E form \in WithFile, f \in Images :
         Begin(t, "capture", "begin", {i}, [form |-> form, image |-> f])

BeginSeal(t) == \E i \in Visible(rows) : Begin(t, "seal", "begin", {i}, RowOf("sealed"))
\* A text is edited, or the tags of a sealed row go and with them its seal: what the row
\* keeps from then on is in the row.
BeginRewrite(t) ==
  \E i \in Stored(rows) :
    rows[i].form # "external" /\ Begin(t, "rewrite", "begin", {i}, RowOf("plain"))
BeginDrop(t) ==
  \E ids \in (SUBSET Stored(rows)) \ {{}} : Begin(t, "drop", "begin", ids, NoRow)
BeginDelete(t) ==
  \E ids \in (SUBSET Stored(rows)) \ {{}} : Begin(t, "delete", "unlink", ids, NoRow)

-----------------------------------------------------------------------------
(* The transaction.                                                        *)

Immediate(t) ==
  /\ At(t, "begin") /\ writer = "free" /\ writer' = t
  /\ op' = [u \in Workers |->
              IF u = t THEN [op[t] EXCEPT !.at = "write"]
              ELSE IF At(u, "finish") /\ Home[u] # Home[t]
              THEN [op[u] EXCEPT !.late = @ \cup {op[t].row.image}]
              ELSE op[u]]
  /\ UNCHANGED <<rows, files, mutex, ops, faults>>

\* Busy, refused by the privacy state or the policy, or any other error before a file is
\* written: nothing to undo.
GiveUpWrite(t) ==
  /\ op[t].at \in {"begin", "write", "files"} /\ Return(t)
  /\ writer' = IF writer = t THEN "free" ELSE writer
  /\ UNCHANGED <<rows, files, ops, faults>>

Target(t) == CHOOSE i \in op[t].ids : TRUE
Put(t, row) == [i \in Ids |-> IF i \in op[t].ids THEN row ELSE rows[i]]

\* Mutant: the files are looked for once the row is sealed.
OfSealedRow(t) == References(RowOf("sealed"))
\* transition_cleanup, or for_entries before the row is sealed.
OfRow(t) == References(rows[Target(t)])

Sealed(t) ==
  /\ op[t].row.form = "sealed"
  /\ op' = [op EXCEPT ![t].at = "commit", ![t].next = Put(t, RowOf("sealed")),
                      ![t].candidates = OfRow(t), ![t].held = References(rows[Target(t)])]
  /\ UNCHANGED <<files, faults>>

\* save_image_to_file: a file that is there is taken as it is; one that cannot be written
\* is left as it is, and the image stays in the row.
External(t) ==
  LET f == op[t].row.image
      store(row) == op' = [op EXCEPT ![t].at = "commit", ![t].next = Put(t, row)] IN
  /\ op[t].row.form = "external"
  /\ IF files[f] # "absent" THEN store(op[t].row) /\ UNCHANGED <<files, faults>>
     ELSE \/ files' = [files EXCEPT ![f] = "whole"] /\ May(FALSE) /\ store(op[t].row)
          \/ /\ \E part \in {"absent", "partial"} : files' = [files EXCEPT ![f] = part]
             /\ May(TRUE) /\ store(RowOf("plain"))

Plain(t) ==
  /\ op[t].row.form \notin {"external", "sealed"}
  /\ op' = [op EXCEPT ![t].next = Put(t, op[t].row),
                      ![t].candidates = IF op[t].kind = "drop" THEN ForEntries(op[t].ids) ELSE {},
                      ![t].at = IF op[t].row.form \in WithFile THEN "files" ELSE "commit"]
  /\ UNCHANGED <<files, faults>>

\* What is sealed again needs the image it had; a sealed row is not overwritten by what
\* is not.
Write(t) ==
  /\ At(t, "write")
  /\ op[t].kind = "seal" => Complete(rows[Target(t)])
  /\ op[t].kind = "capture" /\ rows[Target(t)].form = "sealed" => op[t].row.form = "sealed"
  /\ Sealed(t) \/ External(t) \/ Plain(t)
  /\ UNCHANGED <<rows, mutex, writer, ops>>

\* HtmlAttachmentPlan::materialize, after the row's fields are written.  Where it fails it
\* removes what it created, still in the transaction.
Materialize(t) ==
  LET f == op[t].row.image
      create(part, at) == /\ files' = [files EXCEPT ![f] = part]
                          /\ op' = [op EXCEPT ![t].at = at, ![t].created = {f}] IN
  /\ At(t, "files")
  /\ IF files[f] # "absent" THEN GoTo(t, "commit") /\ UNCHANGED <<files, faults>>
     ELSE \/ create("whole", "commit") /\ May(FALSE)
          \/ create("partial", "cut") /\ May(TRUE)
  /\ UNCHANGED <<rows, mutex, writer, ops>>

Commit(t) ==
  /\ At(t, "commit") /\ writer' = "free" /\ rows' = op[t].next
  /\ op' = [op EXCEPT ![t].at = "finish", ![t].created = {},
                      ![t].candidates = Surviving(@, op[t].next),
                      ![t].kept = {f \in op[t].held : RefersTo(op[t].next, f) # {}
                                     \/ \E i \in Ids : ~Complete(op[t].next[i])}]
  /\ UNCHANGED <<files, mutex, ops, faults>>

\* The commit fails: rolled back, and what this capture created is removed.
CommitFails(t) ==
  /\ At(t, "commit") /\ writer' = "free" /\ May(TRUE) /\ GoTo(t, "undo")
  /\ UNCHANGED <<rows, files, mutex, ops>>

Undo(t) ==
  /\ op[t].at \in {"cut", "undo"} /\ Return(t)
  /\ files' = [f \in Images |-> IF f \in op[t].created THEN "absent" ELSE files[f]]
  /\ writer' = IF writer = t THEN "free" ELSE writer
  /\ UNCHANGED <<rows, ops, faults>>

\* AttachmentCleanup::finish, under the mutex: one file after the other.
Finish(t) ==
  /\ At(t, "finish")
  /\ \E f \in op[t].candidates, fault \in BOOLEAN :
       /\ May(fault) /\ files' = IF fault THEN files ELSE [files EXCEPT ![f] = "absent"]
       /\ op' = [op EXCEPT ![t].candidates = @ \ {f}, ![t].failed = @ \/ fault]
  /\ UNCHANGED <<rows, mutex, writer, ops>>

AcknowledgeWrite(t) == At(t, "finish") /\ op[t].candidates = {} /\ ~op[t].failed

Finished(t) ==
  /\ At(t, "finish") /\ op[t].candidates = {}
  /\ \/ (op[t].kind # "capture" \/ op[t].failed) /\ Return(t)
     \/ op[t].kind = "capture" /\ ~op[t].failed /\ GoTo(t, "limit") /\ UNCHANGED mutex
  /\ UNCHANGED <<rows, files, writer, ops, faults>>

-----------------------------------------------------------------------------
(* Ordinary deletion, and the limit after an automatic capture.            *)

\* The limit is for captures that the engine made, and for rows without tags or pin.
EnforceLimit(t) ==
  /\ At(t, "limit")
  /\ \/ Return(t)
     \/ \E ids \in SUBSET Visible(rows) :
          /\ Limit + Cardinality(ids) = Cardinality(Visible(rows)) /\ ids # {}
          /\ op' = [op EXCEPT ![t].at = "unlink", ![t].ids = ids] /\ UNCHANGED mutex
  /\ UNCHANGED <<rows, files, writer, ops, faults>>

\* delete_with_conn removes the row's files, whoever else refers to them.
Unlink(t) ==
  /\ At(t, "unlink")
  /\ \E i \in op[t].ids :
       /\ files' = [f \in Images |-> IF f \in Collected(rows[i]) THEN "absent" ELSE files[f]]
       /\ op' = [op EXCEPT ![t].at = "forget", ![t].left = {i}]
  /\ UNCHANGED <<rows, mutex, writer, ops, faults>>

\* And then the row, by a statement of its own.  Where it fails a deletion ends; the limit
\* goes on.
ForgetRow(t) ==
  LET rest == op[t].ids \ op[t].left IN
  /\ At(t, "forget")
  /\ \E fault \in BOOLEAN :
       /\ May(fault) /\ (fault \/ writer = "free")
       /\ rows' = IF fault THEN rows
                  ELSE [i \in Ids |-> IF i \in op[t].left THEN NoRow ELSE rows[i]]
       /\ IF rest = {} \/ (fault /\ op[t].kind = "delete") THEN Return(t)
          ELSE op' = [op EXCEPT ![t].at = "unlink", ![t].ids = rest] /\ UNCHANGED mutex
  /\ UNCHANGED <<files, writer, ops>>

-----------------------------------------------------------------------------
\* A process dies: its transaction is rolled back, a file it was writing is cut short, and
\* nobody removes what it had left to remove.
Crash(p) ==
  LET Ours == {t \in Workers : Home[t] = p} IN
  /\ \E t \in Ours : op[t] # NoOp
  /\ May(TRUE)
  /\ op' = [t \in Workers |-> IF t \in Ours THEN NoOp ELSE op[t]]
  /\ mutex' = [mutex EXCEPT ![p] = "free"]
  /\ writer' = IF writer \in Ours THEN "free" ELSE writer
  /\ \/ UNCHANGED files
     \/ \E t \in Ours :
          LET f == op[t].row.image IN
          /\ op[t].at = "files" \/ (op[t].at = "write" /\ op[t].row.form = "external")
          /\ files[f] = "absent" /\ files' = [files EXCEPT ![f] = "partial"]
  /\ UNCHANGED <<rows, ops>>

FileStep(t) ==
  \/ BeginCapture(t) \/ BeginSeal(t) \/ BeginRewrite(t) \/ BeginDrop(t) \/ BeginDelete(t)
  \/ Immediate(t) \/ GiveUpWrite(t) \/ Write(t) \/ Materialize(t) \/ Commit(t) \/ CommitFails(t)
  \/ Undo(t) \/ Finish(t) \/ Finished(t) \/ EnforceLimit(t) \/ Unlink(t) \/ ForgetRow(t)

FilesNext == (\E t \in Workers : FileStep(t)) \/ \E p \in Processes : Crash(p)

FilesSpec == FilesInit /\ [][FilesNext]_fileVars

-----------------------------------------------------------------------------
Removes(t, f) == files[f] # "absent" /\ files'[f] = "absent" /\ op'[t] # op[t]

\* What is cleaned up after a commit belongs to no row, neither then nor when it is removed:
\* only another process may have stored one with it in between.
CleanupSparesRows ==
  [][\A t \in Workers, f \in Images :
       At(t, "finish") /\ Removes(t, f) => RefersTo(rows, f) = {} \/ f \in op[t].late]_fileVars

\* Once a row's protection is acknowledged the image it had is no file any more, unless
\* another row had it at the commit, or one that cannot be read completely might have, or
\* another process has put it there since.
ProtectedLeavesNoFile ==
  [][\A t \in Workers :
       AcknowledgeWrite(t) /\ op'[t] # op[t] =>
         \A f \in op[t].held \ (op[t].kept \cup op[t].late) : files[f] = "absent"]_fileVars

\* Nobody removes a file that a row which stays refers to.
SharedIsKept ==
  [][\A t \in Workers, f \in Images :
       At(t, "unlink") /\ Removes(t, f) => RefersTo(rows, f) \subseteq op[t].ids]_fileVars
=============================================================================
