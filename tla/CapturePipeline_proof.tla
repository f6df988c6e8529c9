------------------------- MODULE CapturePipeline_proof -------------------------
(***************************************************************************)
(* What holds of automatic capture for every set of workers and payloads,  *)
(* every capacity and every bound.                                         *)
(*                                                                         *)
(* Eras: while the epoch a ticket names lasts, no privacy session has been *)
(* active since it was taken, and the application the policy let through   *)
(* is still let through.  The gate: the pipeline implements CaptureGate,   *)
(* with the row's epoch as the era.  Rows: a name belongs to one row, what *)
(* a scan of the queue found is still so while its ticket is good, and so  *)
(* a capture neither makes a protected row ordinary nor drops a row edited *)
(* after its scan.  Removals: whatever leaves the queue is announced.      *)
(***************************************************************************)
EXTENDS CapturePipeline, FiniteSetTheorems, TLAPS

\* The transactions on the row keep its type.
LEMMA RowTransactions ==
  ASSUME NEW r \in RowType, NEW n \in Nat, NEW on \in BOOLEAN,
         NEW end \in Nat \cup {NoEnd}
  PROVE  /\ ExpireTx(r, n) \in RowType
         /\ SetTx(r, on, end) \in RowType
         /\ ToggleTx(r, n) \in RowType
         /\ Bump(r) \in RowType
  BY DEF RowType, ExpireTx, SetTx, ToggleTx, Bump, ExpiredAt, ActiveAt, NoEnd

\* A transaction that changes the row at all moves its epoch by exactly one:
\* no session comes or goes within an epoch.
LEMMA RowMovesEpoch ==
  ASSUME NEW r \in RowType, NEW n \in Nat, NEW on \in BOOLEAN,
         NEW end \in Nat \cup {NoEnd}
  PROVE  /\ ExpireTx(r, n) = r \/ ExpireTx(r, n).epoch = r.epoch + 1
         /\ SetTx(r, on, end) = r \/ SetTx(r, on, end).epoch = r.epoch + 1
         /\ ToggleTx(r, n).epoch = r.epoch + 1
         /\ Bump(r).epoch = r.epoch + 1
  BY DEF RowType, ExpireTx, SetTx, ToggleTx, Bump

\* A session that is over stays over while its row does.
LEMMA OverStaysOver ==
  ASSUME NEW r \in RowType, NEW m \in Nat, NEW n \in Nat, m <= n,
         ActiveAt(r, n)
  PROVE  ActiveAt(r, m)
  BY DEF RowType, ActiveAt, NoEnd

LEMMA ReadingsAreInstants ==
  ASSUME TypeOK, NEW n \in Readings
  PROVE  n \in Nat /\ n <= clock
  BY DEF TypeOK, Readings

-----------------------------------------------------------------------------
\* Types

LEMMA GiveUpType ==
  ASSUME TypeOK, NEW w \in Workers, GiveUp(w)
  PROVE  /\ stage' \in [Workers -> Stages]
         /\ phase' \in [Workers -> {"peek", "expire", "test"}]
         /\ cap' \in [Workers -> CapType]
  BY DEF TypeOK, GiveUp, Move, Carry, NullCap, CapType, Stages, NoTicket

LEMMA PassType ==
  ASSUME TypeOK, NEW w \in Workers, NEW to \in Stages, Pass(w, to)
  PROVE  /\ stage' \in [Workers -> Stages]
         /\ phase' \in [Workers -> {"peek", "expire", "test"}]
  BY DEF TypeOK, Pass, Move

LEMMA CarryType ==
  ASSUME TypeOK, NEW w \in Workers, NEW k \in CapType, Carry(w, k)
  PROVE  cap' \in [Workers -> CapType]
  BY DEF TypeOK, Carry

LEMMA WitnessType ==
  ASSUME TypeOK, Witness
  PROVE  spoiled' \in [Workers -> BOOLEAN]
<1>1. \A w \in Workers : (spoiled[w] \/ (HasTicket(w) /\ ActiveAt(row', clock'))) \in BOOLEAN
  OBVIOUS
<1> QED
  BY <1>1 DEF Witness

LEMMA RowStepType ==
  ASSUME TypeOK, NEW new \in RowType, RowStep(new)
  PROVE  /\ row' \in RowType /\ clock' \in Nat
         /\ stage' \in [Workers -> Stages]
         /\ phase' \in [Workers -> {"peek", "expire", "test"}]
         /\ cap' \in [Workers -> CapType]
         /\ started' \in Nat /\ edits' \in Nat
         /\ spoiled' \in [Workers -> BOOLEAN]
  BY WitnessType DEF TypeOK, RowStep, locals

LEMMA WorldType ==
  ASSUME TypeOK, World
  PROVE  TypeOK'
<1> USE PipelineAssumption
<1>1. CASE Tick
  BY <1>1, WitnessType DEF TypeOK, Tick, stores, locals
<1>2. CASE SessionCommand
  <2>1. ASSUME NEW on \in BOOLEAN, NEW end \in Nat \cup {NoEnd}, SetSession(on, end)
        PROVE  TypeOK'
    <3>1. SetTx(row, on, end) \in RowType
      BY RowTransactions, 0 \in Nat DEF TypeOK
    <3> QED BY <2>1, <3>1, RowStepType DEF SetSession, TypeOK, stores
  <2>2. ASSUME NEW n \in Readings, ToggleSession(n)
        PROVE  TypeOK'
    <3>1. ToggleTx(row, n) \in RowType
      BY RowTransactions, ReadingsAreInstants, TRUE \in BOOLEAN, 0 \in Nat DEF TypeOK
    <3> QED BY <2>2, <3>1, RowStepType DEF ToggleSession, TypeOK, stores
  <2>3. \A n \in Readings, d \in Durations : n + d \in Nat
    BY ReadingsAreInstants DEF PipelineAssumption
  <2> QED BY <1>2, <2>1, <2>2, <2>3 DEF SessionCommand
<1>3. ASSUME NEW n \in Readings, OtherStatus(n)
      PROVE  TypeOK'
  <2>1. ExpireTx(row, n) \in RowType
    BY RowTransactions, ReadingsAreInstants, TRUE \in BOOLEAN, 0 \in Nat DEF TypeOK
  <2> QED BY <1>3, <2>1, RowStepType DEF OtherStatus, TypeOK, stores
<1>4. Bump(row) \in RowType
  BY RowTransactions, TRUE \in BOOLEAN, 0 \in Nat DEF TypeOK
<1>5. CASE ChangePolicy
  BY <1>4, <1>5, RowStepType DEF ChangePolicy, TypeOK, stores
<1>6. ASSUME NEW r \in ram, NEW c \in Contents, NEW p \in BOOLEAN, EditRam(r, c, p)
      PROVE  TypeOK'
  <2>1. [r EXCEPT !.content = c, !.prot = p] \in Entry
    BY DEF TypeOK, Entry
  <2>2. ram' \subseteq Entry
    BY <1>6, <2>1 DEF EditRam, TypeOK
  <2> QED BY <1>4, <1>6, <2>2, RowStepType DEF EditRam, TypeOK
<1>7. ASSUME NEW r \in db, MarkRow(r)
      PROVE  TypeOK'
  <2>1. [r EXCEPT !.prot = ~@] \in Entry
    BY DEF TypeOK, Entry
  <2>2. db' \subseteq Entry
    BY <1>7, <2>1 DEF MarkRow, TypeOK
  <2> QED BY <1>4, <1>7, <2>2, RowStepType DEF MarkRow, TypeOK
<1>8. ASSUME NEW r \in db, DeleteRow(r)
      PROVE  TypeOK'
  BY <1>8 DEF DeleteRow, QuietEdit, TypeOK, locals
<1>9. ASSUME NEW r \in ram, DeleteRam(r)
      PROVE  TypeOK'
  <2>1. r.id \in Int
    BY DEF TypeOK, Entry
  <2>2. ram' \subseteq Entry /\ announced' \subseteq Int
    BY <1>9, <2>1 DEF DeleteRam, TypeOK
  <2> QED BY <1>9, <2>2 DEF DeleteRam, QuietEdit, TypeOK, locals
<1>10. ASSUME NEW r \in ram, PersistRam(r)
       PROVE  TypeOK'
  <2>1. [r EXCEPT !.id = stamp + 1, !.at = stamp + 1] \in Entry /\ r.id \in Int
    <3>1. r \in Entry /\ stamp + 1 \in Nat /\ stamp + 1 \in Int
      BY DEF TypeOK
    <3> QED BY <3>1, Zenon DEF Entry
  <2>2. /\ db' \subseteq Entry /\ ram' \subseteq Entry
        /\ announced' \subseteq Int /\ stamp' \in Nat
    BY <1>10, <2>1 DEF PersistRam, TypeOK
  <2> QED BY <1>10, <2>2 DEF PersistRam, QuietEdit, TypeOK, locals
<1> QED
  BY <1>1, <1>2, <1>3, <1>5, <1>6, <1>7, <1>8, <1>9, <1>10 DEF World

\* A worker under way carries a payload.
Carried == \A w \in Workers : stage[w] # "idle" => cap[w].content \in Contents

LEMMA WorkerType ==
  ASSUME TypeOK, Carried, NEW w \in Workers, WorkerStep(w)
  PROVE  TypeOK'
<1> USE DEF stores, locals
<1>1. ASSUME NEW c \in Contents, NEW inherited \in BOOLEAN, Begin(w, c, inherited)
      PROVE  TypeOK'
  <2> DEFINE k == [cap[w] EXCEPT !.content = c, !.prot = inherited]
  <2>1. Carry(w, k)
    BY <1>1 DEF Begin
  <2>2. k \in CapType
    <3>1. cap[w] \in CapType
      BY DEF TypeOK
    <3> QED BY <3>1, Zenon DEF CapType
  <2> HIDE DEF k
  <2>3. cap' \in [Workers -> CapType]
    BY <2>1, <2>2, CarryType
  <2>4. /\ Move(w, "ticket") /\ started' = started + 1
        /\ UNCHANGED <<clock, row, excluded, stores, phase, edits, spoiled>>
    BY <1>1, Zenon DEF Begin
  <2> QED BY <2>3, <2>4 DEF Move, TypeOK, Stages, StatusStages
<1>2. CASE StatusPeek(w)
  <2>1. PICK n \in Readings :
          /\ Carry(w, [cap[w] EXCEPT !.now = n])
          /\ phase' = [phase EXCEPT ![w] = IF ExpiredAt(row, n) THEN "expire" ELSE "test"]
    BY <1>2 DEF StatusPeek
  <2>2. n \in Nat
    BY ReadingsAreInstants
  <2> DEFINE k == [cap[w] EXCEPT !.now = n]
  <2>3. k \in CapType
    <3>1. cap[w] \in CapType
      BY DEF TypeOK
    <3> QED BY <2>2, <3>1, Zenon DEF CapType
  <2>4. Carry(w, k)
    BY <2>1, Zenon
  <2> HIDE DEF k
  <2>5. cap' \in [Workers -> CapType]
    BY <2>3, <2>4, CarryType
  <2> QED BY <1>2, <2>1, <2>5 DEF StatusPeek, TypeOK
<1>3. CASE StatusExpire(w)
  <2>1. cap[w].now \in Nat
    BY DEF TypeOK, CapType
  <2>2. row' \in RowType
    BY <1>3, <2>1, RowTransactions, TRUE \in BOOLEAN, 0 \in Nat DEF StatusExpire, TypeOK
  <2> QED BY <1>3, <2>2, WitnessType DEF StatusExpire, TypeOK
<1>4. CASE TakeTicket(w)
  <2>1. CASE ActiveAt(row, cap[w].now)
    BY <1>4, <2>1, GiveUpType DEF TakeTicket, TypeOK
  <2>2. CASE ~ActiveAt(row, cap[w].now)
    <3>1. row.epoch \in Nat /\ ActiveAt(row, clock) \in BOOLEAN
      BY DEF TypeOK, RowType, ActiveAt
    <3> DEFINE k == [cap[w] EXCEPT !.ticket = row.epoch]
    <3>2. k \in CapType
      <4>1. cap[w] \in CapType /\ row.epoch \in Nat \cup {NoTicket}
        BY <3>1 DEF TypeOK
      <4> QED BY <4>1, Zenon DEF CapType
    <3>3. Carry(w, k)
      BY <1>4, <2>2, Zenon DEF TakeTicket
    <3> HIDE DEF k
    <3>4. cap' \in [Workers -> CapType]
      BY <3>2, <3>3, CarryType
    <3>5. spoiled' \in [Workers -> BOOLEAN]
      BY <1>4, <2>2, <3>1 DEF TakeTicket, TypeOK
    <3> QED BY <1>4, <2>2, <3>4, <3>5, PassType DEF TakeTicket, TypeOK, Stages
  <2> QED BY <2>1, <2>2
<1>5. CASE Read(w)
  BY <1>5, GiveUpType, PassType DEF Read, TypeOK, Stages, StatusStages
<1>6. CASE ReadNothing(w)
  BY <1>6, GiveUpType DEF ReadNothing, TypeOK
<1>7. CASE Generated(w)
  BY <1>7, PassType DEF Generated, TypeOK, Stages, StatusStages
<1>8. CASE CheckCapture(w)
  <2>1. AfterCheck(stage[w]) \in Stages
    BY <1>8 DEF CheckCapture, AfterCheck, Stages, StatusStages
  <2> QED BY <1>8, <2>1, GiveUpType, PassType DEF CheckCapture, TypeOK
<1>9. CASE Classify(w)
  <2>1. CASE excluded
    BY <1>9, <2>1, GiveUpType DEF Classify, TypeOK
  <2>2. CASE ~excluded
    <3>1. PICK found \in Findings(cap[w].content), persistent \in BOOLEAN :
            /\ Carry(w, [cap[w] EXCEPT !.prot = cap[w].prot \/ found,
                                       !.persistent = persistent])
            /\ Pass(w, IF persistent THEN "prepare" ELSE "scan")
      BY <1>9, <2>2, Zenon DEF Classify
    <3>2. found \in BOOLEAN
      BY DEF Findings
    <3>3. cap[w] \in CapType /\ (cap[w].prot \/ found) \in BOOLEAN
      BY DEF TypeOK
    <3> DEFINE k == [cap[w] EXCEPT !.prot = cap[w].prot \/ found, !.persistent = persistent]
    <3>4. k \in CapType /\ Carry(w, k)
      BY <3>1, <3>3, Zenon DEF CapType
    <3> HIDE DEF k
    <3>5. cap' \in [Workers -> CapType]
      BY <3>1, <3>4, CarryType
    <3> QED BY <1>9, <3>1, <3>5, PassType DEF Classify, TypeOK, Stages, StatusStages
  <2> QED BY <2>1, <2>2
<1>10. CASE Prepare(w)
  <2>1. AfterCheck(stage[w]) \in Stages
    BY <1>10 DEF Prepare, AfterCheck, Stages, StatusStages
  <2> QED BY <1>10, <2>1, GiveUpType, PassType DEF Prepare, TypeOK
<1>11. CASE FindDuplicate(w)
  <2>1. ASSUME NEW r \in db PROVE r.id \in Int /\ r.prot \in BOOLEAN
    BY DEF TypeOK, Entry
  <2>2. cap' \in [Workers -> CapType]
    <3>1. ASSUME NEW r \in db,
                 Carry(w, [cap[w] EXCEPT !.id = r.id, !.prot = cap[w].prot \/ r.prot])
          PROVE  cap' \in [Workers -> CapType]
      <4>1. cap[w] \in CapType /\ (cap[w].prot \/ r.prot) \in BOOLEAN
        BY DEF TypeOK
      <4> DEFINE k == [cap[w] EXCEPT !.id = r.id, !.prot = cap[w].prot \/ r.prot]
      <4>2. k \in CapType
        BY <2>1, <4>1, Zenon DEF CapType
      <4>3. Carry(w, k)
        BY <3>1, Zenon
      <4> HIDE DEF k
      <4> QED BY <4>2, <4>3, CarryType
    <3> QED BY <1>11, <3>1 DEF FindDuplicate, TypeOK
  <2> QED BY <1>11, <2>2, PassType DEF FindDuplicate, TypeOK, Stages
<1>12. CASE ScanRam(w)
  <2> DEFINE same == {r \in ram : Deduplicate /\ r.content = cap[w].content}
             last == {r \in same : \A s \in same : s.at <= r.at}
             continued == IF cap[w].persistent THEN {} ELSE last
             id == IF continued = {} THEN cap[w].id ELSE (CHOOSE r \in continued : TRUE).id
             prot == cap[w].prot \/ \E r \in continued : r.prot
  <2>1. \A r \in ram : r.id \in Int
    BY DEF TypeOK, Entry
  <2>2. Ids(same) \subseteq Int /\ continued \subseteq ram
    BY <2>1 DEF Ids
  <2>3. id \in Int
    BY <2>1, <2>2 DEF TypeOK, CapType
  <2> DEFINE k == [cap[w] EXCEPT !.removals = Ids(same),
                     !.reused = continued # {}, !.id = id, !.prot = prot]
  <2>4. Carry(w, k)
    BY <1>12, Zenon DEF ScanRam
  <2>5. prot \in BOOLEAN
    BY DEF TypeOK, CapType
  <2> HIDE DEF same, last, continued, id, prot
  <2>6. cap' \in [Workers -> CapType]
    <3>1. cap[w] \in CapType /\ (continued # {}) \in BOOLEAN
      BY DEF TypeOK
    <3>2. k \in CapType
      BY <2>2, <2>3, <2>5, <3>1, Zenon DEF CapType
    <3> HIDE DEF k
    <3> QED BY <2>4, <3>2, CarryType
  <2>7. /\ stage' \in [Workers -> Stages]
        /\ phase' \in [Workers -> {"peek", "expire", "test"}]
    BY <1>12, PassType DEF ScanRam, Stages, StatusStages
  <2> QED BY <1>12, <2>6, <2>7 DEF ScanRam, TypeOK
<1>13. CASE Commit(w)
  <2> PICK n \in Readings, found \in Findings(cap[w].content) :
       LET prot == cap[w].prot \/ found
           old  == RowsWithId(db, cap[w].id)
           new  == [id |-> IF cap[w].id = 0 THEN stamp + 1 ELSE cap[w].id,
                    content |-> cap[w].content, prot |-> prot, at |-> stamp + 1]
           hidden == prot /\ \E r \in old : ~r.prot IN
       IF CommitAllowed(w, n, prot)
       THEN /\ db' = (db \ old) \cup {new}
            /\ stamp' = stamp + 1
            /\ row' = IF hidden THEN Bump(row) ELSE row
            /\ Carry(w, [cap[w] EXCEPT !.id = new.id, !.prot = prot])
            /\ Pass(w, "trim")
       ELSE GiveUp(w) /\ UNCHANGED <<db, stamp, row>>
    BY <1>13 DEF Commit
  <2> DEFINE prot == cap[w].prot \/ found
             old  == RowsWithId(db, cap[w].id)
             id   == IF cap[w].id = 0 THEN stamp + 1 ELSE cap[w].id
             new  == [id |-> id, content |-> cap[w].content, prot |-> prot, at |-> stamp + 1]
  <2>1. CASE CommitAllowed(w, n, prot)
    <3>1. /\ db' = (db \ old) \cup {new} /\ stamp' = stamp + 1
          /\ row' \in {row, Bump(row)}
          /\ Carry(w, [cap[w] EXCEPT !.id = id, !.prot = prot])
          /\ Pass(w, "trim")
      BY <2>1, Zenon
    <3>2. /\ cap[w] \in CapType /\ cap[w].content \in Contents \cup {NoContent}
          /\ prot \in BOOLEAN /\ id \in Int /\ stamp + 1 \in Nat
      BY DEF TypeOK, CapType, Findings
    <3>3. cap[w].content \in Contents
      BY <1>13 DEF Commit, Carried
    <3> HIDE DEF prot, id
    <3>4. new \in Entry
      BY <3>2, <3>3, Zenon DEF Entry
    <3>5. db' \subseteq Entry /\ stamp' \in Nat
      BY <3>1, <3>2, <3>4 DEF TypeOK, RowsWithId
    <3>6. row' \in RowType
      BY <3>1, RowTransactions, TRUE \in BOOLEAN, 0 \in Nat DEF TypeOK
    <3> DEFINE k == [cap[w] EXCEPT !.id = id, !.prot = prot]
    <3>7. k \in CapType /\ Carry(w, k)
      BY <3>1, <3>2, Zenon DEF CapType
    <3> HIDE DEF k
    <3>8. cap' \in [Workers -> CapType]
      BY <3>1, <3>7, CarryType
    <3> QED BY <1>13, <3>1, <3>5, <3>6, <3>8, PassType, WitnessType
            DEF Commit, TypeOK, Stages
  <2>2. CASE ~CommitAllowed(w, n, prot)
    <3>1. GiveUp(w) /\ UNCHANGED <<db, stamp, row>>
      BY <2>2
    <3> QED BY <1>13, <3>1, GiveUpType, WitnessType DEF Commit, TypeOK
  <2> QED BY <2>1, <2>2
<1>14. CASE Trim(w)
  BY <1>14, PassType DEF Trim, TypeOK, Stages
<1>15. CASE PublishPersistent(w)
  BY <1>15, PassType DEF PublishPersistent, TypeOK, Stages
<1>16. CASE NameEntry(w)
  <2>1. CASE ~CaptureAllowed(row, cap[w].ticket, cap[w].now)
    BY <1>16, <2>1, GiveUpType DEF NameEntry, TypeOK
  <2>2. CASE CaptureAllowed(row, cap[w].ticket, cap[w].now)
    <3>1. stamp + 1 \in Nat /\ -(stamp + 1) \in Int
      BY DEF TypeOK
    <3>2. cap' \in [Workers -> CapType] /\ stamp' \in Nat
      BY SMTT(20), <1>16, <2>2, <3>1 DEF NameEntry, TypeOK, CapType, Carry
    <3> QED BY <1>16, <2>2, <3>2, PassType DEF NameEntry, TypeOK, Stages
  <2> QED BY <2>1, <2>2
<1>17. CASE PublishSession(w)
  <2>1. PICK n \in Readings :
          IF PublishGuard(w, n)
          THEN LET stored == Stored(w)  out == Evicted(stored) IN
               /\ ram' = stored \ out
               /\ stamp' = stamp + 1
               /\ shown' = shown \cup {cap[w].id}
               /\ Carry(w, [cap[w] EXCEPT !.removals = RemovedIds(w, out)])
               /\ Pass(w, "emit")
          ELSE GiveUp(w) /\ UNCHANGED <<ram, stamp, shown>>
    BY <1>17 DEF PublishSession
  <2>2. CASE ~PublishGuard(w, n)
    BY <1>17, <2>1, <2>2, GiveUpType DEF PublishSession, TypeOK
  <2>3. CASE PublishGuard(w, n)
    <3> DEFINE kept == {r \in ram : r.id \notin cap[w].removals \ {cap[w].id}}
               old == RowsWithId(kept, cap[w].id)
               at == IF old = {} THEN stamp + 1 ELSE (CHOOSE r \in old : TRUE).at
               new == [id |-> cap[w].id, content |-> cap[w].content,
                       prot |-> cap[w].prot, at |-> at]
               out == Evicted(Stored(w))
    <3>1. /\ cap[w].id \in Int /\ cap[w].prot \in BOOLEAN
          /\ cap[w].content \in Contents /\ cap[w].removals \subseteq Int
      BY <1>17 DEF PublishSession, Carried, TypeOK, CapType
    <3>2. kept \subseteq Entry /\ old \subseteq kept
      BY DEF TypeOK, RowsWithId
    <3>3. at \in Nat
      <4>1. old # {} => (CHOOSE r \in old : TRUE) \in Entry
        BY <3>2
      <4>2. \A r \in Entry : r.at \in Nat
        BY DEF Entry
      <4>3. CASE old = {}
        BY <4>3 DEF TypeOK
      <4>4. CASE old # {}
        <5>1. (CHOOSE r \in old : TRUE).at \in Nat
          BY <4>1, <4>2, <4>4, Zenon
        <5> QED BY <4>4, <5>1, Zenon
      <4> QED BY <4>3, <4>4
    <3>4. Stored(w) = (kept \ old) \cup {new}
      BY DEF Stored
    <3> HIDE DEF at
    <3>5. new \in Entry
      BY <3>1, <3>3, Zenon DEF Entry
    <3>6. Stored(w) \subseteq Entry
      BY <3>2, <3>4, <3>5
    <3>7. out \subseteq Stored(w)
      BY DEF Evicted, Oldest
    <3>8. RemovedIds(w, out) \subseteq Int
      BY <3>1, <3>6, <3>7 DEF RemovedIds, Ids, Entry
    <3>9. Carry(w, [cap[w] EXCEPT !.removals = RemovedIds(w, out)])
      BY <2>1, <2>3
    <3> HIDE DEF out
    <3>10. cap' \in [Workers -> CapType]
      BY <3>8, <3>9 DEF TypeOK, CapType, Carry
    <3>11. ram' = Stored(w) \ out /\ stamp' = stamp + 1
           /\ shown' = shown \cup {cap[w].id} /\ Pass(w, "emit")
      BY <2>1, <2>3 DEF out
    <3>12. ram' \subseteq Entry /\ stamp' \in Nat /\ shown' \subseteq Int
      <4>1. stamp + 1 \in Nat
        BY DEF TypeOK
      <4>2. shown \cup {cap[w].id} \subseteq Int
        BY <3>1, Zenon DEF TypeOK
      <4> QED BY <3>6, <3>11, <4>1, <4>2
    <3> QED BY <1>17, <3>10, <3>11, <3>12, PassType DEF PublishSession, TypeOK, Stages
  <2> QED BY <2>2, <2>3
<1>18. CASE Emit(w)
  <2>1. cap[w].removals \subseteq Int
    BY DEF TypeOK, CapType
  <2> QED BY <1>18, <2>1, GiveUpType DEF Emit, TypeOK
<1> QED
  BY <1>1, <1>2, <1>3, <1>4, <1>5, <1>6, <1>7, <1>8, <1>9, <1>10, <1>11, <1>12,
     <1>13, <1>14, <1>15, <1>16, <1>17, <1>18
  DEF WorkerStep

-----------------------------------------------------------------------------
\* Past the second look at the source, and not yet stored.
Cleared(w) ==
  \/ stage[w] \in {"prepare", "dedup", "scan", "commit", "ramcheck"}
  \/ stage[w] = "publish" /\ ~cap[w].persistent

\* On the way to the database, or from it to the queue.
ToDatabase(w) == stage[w] \in {"prepare", "dedup", "commit", "trim"}

Era(w) ==
  /\ cap[w].now <= clock
  /\ Holding(w) => HasTicket(w)
  /\ ToDatabase(w) => cap[w].persistent
  /\ cap[w].ticket <= row.epoch
  /\ HasTicket(w) /\ cap[w].ticket = row.epoch => ~ActiveAt(row, clock) /\ ~spoiled[w]
  /\ Cleared(w) /\ cap[w].ticket = row.epoch => ~excluded

EraInv == \A w \in Workers : Era(w)

\* The inductive invariant.
IInv == TypeOK /\ Carried /\ EraInv

-----------------------------------------------------------------------------
\* What a step may do to the row, the clock and the policy, and to a worker
\* that is not taking it.

Surroundings ==
  /\ row' \in RowType
  /\ clock' \in {clock, clock + 1}
  /\ \/ row' = row /\ excluded' = excluded
     \/ row'.epoch = row.epoch + 1

Quiet(v) == stage'[v] = stage[v] /\ cap'[v] = cap[v]

SpoilKept(v) ==
  spoiled'[v] \in {spoiled[v], spoiled[v] \/ (HasTicket(v) /\ ActiveAt(row', clock'))}

LEMMA WitnessKeeps ==
  ASSUME NEW v \in Workers, Witness
  PROVE  SpoilKept(v)
  BY Zenon DEF Witness, SpoilKept

\* A worker keeps what its ticket is worth when it carries the ticket on, the
\* reading of the clock it carries is past, and it does not claim more than it
\* could before.
LEMMA EraKept ==
  ASSUME TypeOK, NEW v \in Workers, Era(v), Surroundings, SpoilKept(v),
         cap'[v].ticket = cap[v].ticket, cap'[v].now \in Nat, cap'[v].now <= clock,
         Holding(v)' => HasTicket(v),
         Cleared(v)' => Cleared(v) \/ ~excluded,
         ToDatabase(v)' => cap'[v].persistent
  PROVE  Era(v)'
<1>1. /\ clock \in Nat /\ row \in RowType /\ row.epoch \in Nat
      /\ cap[v].ticket \in Nat \cup {NoTicket}
  BY DEF TypeOK, RowType, CapType
<1>2. clock' \in Nat /\ clock <= clock' /\ row' \in RowType /\ row'.epoch \in Nat
  BY <1>1 DEF Surroundings, RowType
<1>3. /\ cap'[v].now <= clock'
      /\ Holding(v)' => HasTicket(v)'
  BY <1>1, <1>2 DEF HasTicket
<1>4. cap'[v].ticket <= row'.epoch
  BY <1>1, <1>2 DEF Era, Surroundings, NoTicket
<1>5. CASE row'.epoch = row.epoch + 1
  <2>1. cap'[v].ticket # row'.epoch
    BY <1>1, <1>5 DEF Era, NoTicket
  <2> QED BY <1>3, <1>4, <2>1 DEF Era
<1>6. CASE row' = row /\ excluded' = excluded
  <2>1. ASSUME HasTicket(v), cap[v].ticket = row.epoch
        PROVE  ~ActiveAt(row', clock') /\ ~spoiled'[v]
    <3>1. ~ActiveAt(row, clock) /\ ~spoiled[v]
      BY <2>1 DEF Era
    <3>2. ~ActiveAt(row, clock')
      BY <1>1, <1>2, <3>1, OverStaysOver
    <3> QED BY <1>6, <3>1, <3>2 DEF SpoilKept
  <2>2. Cleared(v)' /\ cap[v].ticket = row.epoch => ~excluded'
    BY <1>6 DEF Era
  <2> QED BY <1>3, <1>4, <1>6, <2>1, <2>2 DEF Era, HasTicket
<1> QED BY <1>5, <1>6 DEF Surroundings

LEMMA EraOfBystander ==
  ASSUME TypeOK, NEW v \in Workers, Era(v), Surroundings, SpoilKept(v), Quiet(v)
  PROVE  Era(v)'
<1>1. cap'[v].now \in Nat /\ cap'[v].now <= clock
  BY DEF Quiet, TypeOK, CapType, Era
<1>2. /\ Holding(v)' => HasTicket(v)
      /\ Cleared(v)' => Cleared(v)
      /\ ToDatabase(v)' => cap'[v].persistent
  BY DEF Quiet, Holding, Cleared, ToDatabase, Era
<1> QED BY <1>1, <1>2, EraKept DEF Quiet

LEMMA EraOfGiveUp ==
  ASSUME TypeOK, NEW w \in Workers, Surroundings, GiveUp(w)
  PROVE  Era(w)'
<1>1. stage'[w] = "idle" /\ cap'[w] = NullCap
  BY DEF GiveUp, Move, Carry, TypeOK
<1>2. clock' \in Nat /\ row'.epoch \in Nat
  BY DEF Surroundings, RowType, TypeOK
<1> QED BY <1>1, <1>2
        DEF Era, Holding, Cleared, ToDatabase, HasTicket, NullCap, NoTicket

-----------------------------------------------------------------------------
\* The world

LEMMA RowStepFrame ==
  ASSUME TypeOK, NEW new \in RowType, RowStep(new),
         (new = row /\ excluded' = excluded) \/ new.epoch = row.epoch + 1
  PROVE  Surroundings /\ \A v \in Workers : Quiet(v) /\ SpoilKept(v)
<1>1. Surroundings
  BY DEF Surroundings, RowStep
<1>2. \A v \in Workers : Quiet(v)
  BY DEF RowStep, Quiet, locals
<1> QED BY <1>1, <1>2, WitnessKeeps DEF RowStep

LEMMA WorldFrame ==
  ASSUME TypeOK, World
  PROVE  Surroundings /\ \A v \in Workers : Quiet(v) /\ SpoilKept(v)
<1> DEFINE Framed == Surroundings /\ \A v \in Workers : Quiet(v) /\ SpoilKept(v)
<1> USE PipelineAssumption
<1>1. CASE Tick
  <2>1. Surroundings /\ \A v \in Workers : Quiet(v)
    BY <1>1 DEF Tick, Surroundings, Quiet, TypeOK, locals
  <2> QED BY <1>1, <2>1, WitnessKeeps DEF Tick
<1>2. ASSUME NEW on \in BOOLEAN, NEW end \in Nat \cup {NoEnd}, SetSession(on, end)
      PROVE  Framed
  <2>1. /\ SetTx(row, on, end) \in RowType
        /\ SetTx(row, on, end) = row \/ SetTx(row, on, end).epoch = row.epoch + 1
    BY RowTransactions, RowMovesEpoch, 0 \in Nat DEF TypeOK
  <2> QED BY <1>2, <2>1, RowStepFrame DEF SetSession
<1>3. ASSUME NEW n \in Readings, ToggleSession(n)
      PROVE  Framed
  <2>1. ToggleTx(row, n) \in RowType /\ ToggleTx(row, n).epoch = row.epoch + 1
    BY RowTransactions, RowMovesEpoch, ReadingsAreInstants, TRUE \in BOOLEAN, 0 \in Nat
    DEF TypeOK
  <2> QED BY <1>3, <2>1, RowStepFrame DEF ToggleSession
<1>4. CASE SessionCommand
  <2>1. \A n \in Readings, d \in Durations : n + d \in Nat
    BY ReadingsAreInstants DEF PipelineAssumption
  <2> QED BY <1>2, <1>3, <1>4, <2>1 DEF SessionCommand
<1>5. ASSUME NEW n \in Readings, OtherStatus(n)
      PROVE  Framed
  <2>1. /\ ExpireTx(row, n) \in RowType
        /\ ExpireTx(row, n) = row \/ ExpireTx(row, n).epoch = row.epoch + 1
    BY RowTransactions, RowMovesEpoch, ReadingsAreInstants, TRUE \in BOOLEAN, 0 \in Nat
    DEF TypeOK
  <2> QED BY <1>5, <2>1, RowStepFrame DEF OtherStatus
<1>6. Bump(row) \in RowType /\ Bump(row).epoch = row.epoch + 1
  BY RowTransactions, RowMovesEpoch, TRUE \in BOOLEAN, 0 \in Nat DEF TypeOK
<1>7. CASE ChangePolicy
  BY <1>6, <1>7, RowStepFrame DEF ChangePolicy
<1>8. ASSUME NEW r \in ram, NEW c \in Contents, NEW p \in BOOLEAN, EditRam(r, c, p)
      PROVE  Framed
  BY <1>6, <1>8, RowStepFrame DEF EditRam
<1>9. ASSUME NEW r \in db, MarkRow(r)
      PROVE  Framed
  BY <1>6, <1>9, RowStepFrame DEF MarkRow
<1>10. ASSUME QuietEdit
       PROVE  Framed
  BY <1>10 DEF QuietEdit, Surroundings, Quiet, SpoilKept, TypeOK, locals
<1> QED
  BY <1>1, <1>4, <1>5, <1>7, <1>8, <1>9, <1>10
  DEF World, DeleteRam, PersistRam, DeleteRow

LEMMA WorldEra ==
  ASSUME IInv, World
  PROVE  Carried' /\ EraInv'
<1>1. Surroundings /\ \A v \in Workers : Quiet(v) /\ SpoilKept(v)
  BY WorldFrame DEF IInv
<1>2. EraInv'
  BY <1>1, EraOfBystander DEF IInv, EraInv
<1>3. Carried'
  BY <1>1 DEF IInv, Carried, Quiet
<1> QED BY <1>2, <1>3

-----------------------------------------------------------------------------
\* The workers

LEMMA OnlyOwnLocals ==
  ASSUME TypeOK, NEW w \in Workers, WorkerStep(w),
         NEW v \in Workers, v # w
  PROVE  Quiet(v)
<1>1. ASSUME NEW k, Carry(w, k)  PROVE cap'[v] = cap[v]
  BY <1>1 DEF Carry, TypeOK
<1>2. ASSUME NEW to, Move(w, to)  PROVE stage'[v] = stage[v]
  BY <1>2 DEF Move, TypeOK
<1>3. GiveUp(w) => Quiet(v)
  BY <1>1, <1>2 DEF GiveUp, Quiet
<1>4. ASSUME NEW to, Pass(w, to)  PROVE stage'[v] = stage[v]
  BY <1>2, <1>4 DEF Pass
<1>5. ASSUME NEW c \in Contents, NEW inherited \in BOOLEAN, Begin(w, c, inherited)
      PROVE  Quiet(v)
  BY <1>1, <1>2, <1>5, Zenon DEF Begin, Quiet
<1>6. StatusPeek(w) => Quiet(v)
  BY <1>1, Zenon DEF StatusPeek, Quiet
<1>7. StatusExpire(w) => Quiet(v)
  BY Zenon DEF StatusExpire, Quiet
<1>8. TakeTicket(w) => Quiet(v)
  BY <1>1, <1>3, <1>4, Zenon DEF TakeTicket, Quiet
<1>9. Read(w) \/ ReadNothing(w) \/ Generated(w) => Quiet(v)
  BY <1>3, <1>4, Zenon DEF Read, ReadNothing, Generated, Quiet
<1>10. CheckCapture(w) \/ Prepare(w) => Quiet(v)
  BY <1>3, <1>4, Zenon DEF CheckCapture, Prepare, Quiet
<1>11. Classify(w) => Quiet(v)
  BY <1>1, <1>3, <1>4, Zenon DEF Classify, Quiet
<1>12. FindDuplicate(w) => Quiet(v)
  BY <1>1, <1>4, Zenon DEF FindDuplicate, Quiet
<1>13. ScanRam(w) => Quiet(v)
  BY <1>1, <1>4, Zenon DEF ScanRam, Quiet
<1>14. Commit(w) => Quiet(v)
  BY <1>1, <1>3, <1>4, Zenon DEF Commit, Quiet
<1>15. Trim(w) \/ PublishPersistent(w) => Quiet(v)
  BY <1>4, Zenon DEF Trim, PublishPersistent, Quiet
<1>16. NameEntry(w) => Quiet(v)
  BY <1>1, <1>3, <1>4, Zenon DEF NameEntry, Quiet
<1>17. PublishSession(w) => Quiet(v)
  BY <1>1, <1>3, <1>4, Zenon DEF PublishSession, Quiet
<1>18. Emit(w) => Quiet(v)
  BY <1>3, Zenon DEF Emit
<1> QED
  BY <1>5, <1>6, <1>7, <1>8, <1>9, <1>10, <1>11, <1>12, <1>13, <1>14, <1>15,
     <1>16, <1>17, <1>18, Zenon
  DEF WorkerStep

\* The two steps of a worker that move the row, the one that takes a ticket,
\* and all the others.
LEMMA WorkerFrame ==
  ASSUME TypeOK, NEW w \in Workers, WorkerStep(w)
  PROVE  /\ Surroundings /\ clock' = clock /\ excluded' = excluded
         /\ row' # row => StatusExpire(w) \/ Commit(w)
         /\ \A v \in Workers : v # w => SpoilKept(v)
         /\ ~TakeTicket(w) => SpoilKept(w)
<1> DEFINE Still == UNCHANGED <<clock, row, excluded, spoiled>>
<1>1. Still => Surroundings /\ \A v \in Workers : SpoilKept(v)
  BY DEF Surroundings, SpoilKept, TypeOK
<1>2. CASE StatusExpire(w)
  <2>1. cap[w].now \in Nat
    BY DEF TypeOK, CapType
  <2>2. /\ ExpireTx(row, cap[w].now) \in RowType
        /\ \/ ExpireTx(row, cap[w].now) = row
           \/ ExpireTx(row, cap[w].now).epoch = row.epoch + 1
    BY <2>1, RowTransactions, RowMovesEpoch, TRUE \in BOOLEAN, 0 \in Nat DEF TypeOK
  <2> QED BY <1>2, <2>2, WitnessKeeps DEF StatusExpire, Surroundings
<1>3. CASE Commit(w)
  <2>1. /\ row' \in {row, Bump(row)} /\ Witness
        /\ UNCHANGED <<clock, excluded>>
    BY <1>3, Zenon DEF Commit
  <2>2. Bump(row) \in RowType /\ Bump(row).epoch = row.epoch + 1
    BY RowTransactions, RowMovesEpoch, TRUE \in BOOLEAN, 0 \in Nat DEF TypeOK
  <2>3. Surroundings
    BY <2>1, <2>2 DEF Surroundings, TypeOK
  <2> QED BY <1>3, <2>1, <2>3, WitnessKeeps
<1>4. CASE TakeTicket(w)
  <2>1. /\ UNCHANGED <<clock, row, excluded>>
        /\ UNCHANGED spoiled \/ spoiled' = [spoiled EXCEPT ![w] = ActiveAt(row, clock)]
    BY <1>4, Zenon DEF TakeTicket
  <2>2. \A v \in Workers : v # w => spoiled'[v] = spoiled[v]
    BY <2>1 DEF TypeOK
  <2> QED BY <1>4, <2>1, <2>2 DEF Surroundings, SpoilKept, TypeOK
<1>5. CASE ~StatusExpire(w) /\ ~Commit(w) /\ ~TakeTicket(w)
  <2>1. Still
    BY <1>5, Zenon DEF WorkerStep, Begin, StatusPeek, Read, ReadNothing, Generated,
       CheckCapture, Classify, Prepare, FindDuplicate, ScanRam, Trim,
       PublishPersistent, NameEntry, PublishSession, Emit
  <2> QED BY <1>1, <2>1
<1> QED BY <1>2, <1>3, <1>4, <1>5

\* What a worker carries on when it neither gives up nor takes a ticket.
Onward(w) ==
  /\ cap'[w].ticket = cap[w].ticket
  /\ cap'[w].now \in Readings
  /\ cap'[w].persistent \in BOOLEAN
  /\ cap'[w].content = cap[w].content

LEMMA CarriedOn ==
  ASSUME TypeOK, NEW w \in Workers, Era(w), NEW k, Carry(w, k),
         k.ticket = cap[w].ticket, k.now \in Readings,
         k.persistent \in BOOLEAN, k.content = cap[w].content
  PROVE  Onward(w)
  BY DEF Onward, Carry, TypeOK

LEMMA KeptAsItIs ==
  ASSUME TypeOK, NEW w \in Workers, Era(w), cap'[w] = cap[w]
  PROVE  Onward(w)
  BY DEF Onward, TypeOK, CapType, Era, Readings

LEMMA CarriedRecord ==
  ASSUME TypeOK, NEW w \in Workers, Era(w)
  PROVE  cap[w] \in CapType /\ cap[w].persistent \in BOOLEAN /\ cap[w].now \in Readings
  BY DEF TypeOK, CapType, Era, Readings

LEMMA PassMoves ==
  ASSUME TypeOK, NEW w \in Workers, NEW to, Pass(w, to)
  PROVE  stage'[w] = to
  BY DEF Pass, Move, TypeOK

LEMMA WorkerEra ==
  ASSUME TypeOK, NEW w \in Workers, Era(w), WorkerStep(w)
  PROVE  Era(w)'
<1>1. Surroundings /\ (~TakeTicket(w) => SpoilKept(w))
  BY WorkerFrame
<1>2. GiveUp(w) => Era(w)'
  BY <1>1, EraOfGiveUp
<1>3. ASSUME SpoilKept(w), Onward(w), Holding(w)' => HasTicket(w),
             Cleared(w)' => Cleared(w) \/ ~excluded,
             ToDatabase(w)' => cap'[w].persistent
      PROVE  Era(w)'
  <2>1. cap'[w].now \in Nat /\ cap'[w].now <= clock
    BY <1>3, ReadingsAreInstants DEF Onward
  <2> QED BY <1>1, <1>3, <2>1, EraKept DEF Onward
<1>4. cap'[w] = cap[w] => Onward(w)
  BY KeptAsItIs
<1>5. ASSUME NEW to, stage'[w] = to,
             to \in {"idle", "ticket", "trim", "emit"}
      PROVE  ~Holding(w)' /\ ~Cleared(w)' /\ (to # "trim" => ~ToDatabase(w)')
  BY <1>5 DEF Holding, Cleared, ToDatabase
<1>6. ASSUME NEW c \in Contents, NEW inherited \in BOOLEAN, Begin(w, c, inherited)
      PROVE  Era(w)'
  <2>1. /\ Carry(w, [cap[w] EXCEPT !.content = c, !.prot = inherited])
        /\ Move(w, "ticket") /\ UNCHANGED <<row, clock, spoiled>>
    BY <1>6, Zenon DEF Begin
  <2>2. stage'[w] = "ticket"
    BY <2>1 DEF Move, TypeOK
  <2> DEFINE k == [cap[w] EXCEPT !.content = c, !.prot = inherited]
  <2>3. k.ticket = cap[w].ticket /\ k.now = cap[w].now
    <3>1. cap[w] \in CapType
      BY DEF TypeOK
    <3> QED BY <3>1, Zenon DEF CapType
  <2>4. Carry(w, k)
    BY <2>1, Zenon
  <2> HIDE DEF k
  <2>5. cap'[w] = k
    BY <2>4 DEF Carry, TypeOK
  <2>6. cap'[w].now \in Nat /\ cap'[w].now <= clock
    BY <2>3, <2>5 DEF TypeOK, CapType, Era
  <2> QED BY <1>1, <1>5, <2>1, <2>2, <2>3, <2>5, <2>6, EraKept DEF SpoilKept
<1>7. CASE StatusPeek(w)
  <2>1. PICK n \in Readings : Carry(w, [cap[w] EXCEPT !.now = n])
    BY <1>7, Zenon DEF StatusPeek
  <2> DEFINE k == [cap[w] EXCEPT !.now = n]
  <2>2. /\ k.ticket = cap[w].ticket /\ k.now \in Readings
        /\ k.persistent = cap[w].persistent /\ k.content = cap[w].content
    <3>1. cap[w] \in CapType
      BY DEF TypeOK
    <3> QED BY <3>1, Zenon DEF CapType
  <2>3. Carry(w, k) /\ k.persistent \in BOOLEAN
    <3>1. cap[w].persistent \in BOOLEAN
      BY DEF TypeOK, CapType
    <3> QED BY <2>1, <2>2, <3>1, Zenon
  <2> HIDE DEF k
  <2>4. Onward(w) /\ cap'[w] = k
    BY <2>2, <2>3, CarriedOn DEF Carry, TypeOK
  <2>5. stage'[w] = stage[w] /\ SpoilKept(w)
    BY <1>7, Zenon DEF StatusPeek, SpoilKept
  <2>6. /\ Holding(w)' => Holding(w)
        /\ Cleared(w)' => Cleared(w)
        /\ ToDatabase(w)' => cap'[w].persistent
    BY <2>2, <2>4, <2>5 DEF Holding, Cleared, ToDatabase, Era
  <2> QED BY <1>3, <2>4, <2>5, <2>6 DEF Era
<1>8. CASE StatusExpire(w)
  <2>1. Quiet(w) /\ SpoilKept(w)
    BY <1>8, WitnessKeeps DEF StatusExpire, Quiet
  <2> QED BY <1>1, <2>1, EraOfBystander
<1>9. CASE TakeTicket(w)
  <2>1. CASE ActiveAt(row, cap[w].now)
    BY <1>2, <1>9, <2>1 DEF TakeTicket
  <2>2. CASE ~ActiveAt(row, cap[w].now)
    <3>1. /\ Pass(w, "read") /\ Carry(w, [cap[w] EXCEPT !.ticket = row.epoch])
          /\ spoiled' = [spoiled EXCEPT ![w] = ActiveAt(row, clock)]
          /\ UNCHANGED <<clock, row>>
      BY <1>9, <2>2, Zenon DEF TakeTicket
    <3>2. /\ row \in RowType /\ row.epoch \in Nat /\ clock \in Nat
          /\ cap[w].now \in Nat /\ cap[w].now <= clock
      BY DEF TypeOK, CapType, RowType, Era
    <3>3. ~ActiveAt(row, clock)
      BY <2>2, <3>2, OverStaysOver
    <3>4. ~spoiled'[w]
      BY <3>1, <3>3 DEF TypeOK
    <3> DEFINE k == [cap[w] EXCEPT !.ticket = row.epoch]
    <3>5. k.ticket = row.epoch /\ k.now = cap[w].now
      <4>1. cap[w] \in CapType
        BY DEF TypeOK
      <4> QED BY <4>1, Zenon DEF CapType
    <3>6. Carry(w, k)
      BY <3>1, Zenon
    <3> HIDE DEF k
    <3>7. cap'[w] = k
      BY <3>6 DEF Carry, TypeOK
    <3>8. stage'[w] = "read"
      BY <3>1, PassMoves
    <3> QED BY <3>1, <3>2, <3>3, <3>4, <3>5, <3>7, <3>8
            DEF Era, Cleared, ToDatabase, HasTicket, NoTicket
  <2> QED BY <2>1, <2>2
<1>10. CASE Read(w) \/ ReadNothing(w) \/ Generated(w)
  <2>1. CASE GiveUp(w)
    BY <1>2, <2>1
  <2>2. CASE ~GiveUp(w)
    <3>1. PICK to \in {"recheck", "process"} : Pass(w, to)
      BY <1>10, <2>2, Zenon DEF Read, ReadNothing, Generated
    <3>2. stage[w] = "read" /\ UNCHANGED <<cap, spoiled>>
      BY <1>10, <2>2, Zenon DEF Read, ReadNothing, Generated
    <3>3. /\ stage'[w] \in {"recheck", "process"}
          /\ HasTicket(w) /\ ~Cleared(w)' /\ ~ToDatabase(w)'
      BY <3>1, <3>2, PassMoves DEF Era, Holding, Cleared, ToDatabase
    <3> QED BY <1>3, <1>4, <3>2, <3>3 DEF SpoilKept
  <2> QED BY <2>1, <2>2
<1>11. CASE CheckCapture(w) \/ Prepare(w)
  <2>1. CASE GiveUp(w)
    BY <1>2, <2>1
  <2>2. CASE ~GiveUp(w)
    <3>1. /\ stage[w] \in {"recheck", "process", "prepare"}
          /\ Pass(w, AfterCheck(stage[w])) /\ UNCHANGED <<cap, spoiled>>
      BY <1>11, <2>2, Zenon DEF CheckCapture, Prepare
    <3>2. /\ stage'[w] = AfterCheck(stage[w]) /\ HasTicket(w)
          /\ cap'[w] = cap[w]
      BY <3>1, PassMoves DEF Era, Holding
    <3>3. /\ Cleared(w)' => Cleared(w)
          /\ ToDatabase(w)' => cap'[w].persistent
      BY <3>1, <3>2 DEF AfterCheck, Cleared, ToDatabase, Era
    <3> QED BY <1>3, <1>4, <3>1, <3>2, <3>3 DEF SpoilKept
  <2> QED BY <2>1, <2>2
<1>12. CASE Classify(w)
  <2>1. CASE excluded
    BY <1>2, <1>12, <2>1 DEF Classify
  <2>2. CASE ~excluded
    <3>1. PICK found \in Findings(cap[w].content), persistent \in BOOLEAN :
            /\ Carry(w, [cap[w] EXCEPT !.prot = cap[w].prot \/ found,
                                       !.persistent = persistent])
            /\ Pass(w, IF persistent THEN "prepare" ELSE "scan")
      BY <1>12, <2>2, Zenon DEF Classify
    <3> DEFINE k == [cap[w] EXCEPT !.prot = cap[w].prot \/ found, !.persistent = persistent]
    <3>2. /\ k.ticket = cap[w].ticket /\ k.now \in Readings
          /\ k.persistent = persistent /\ k.content = cap[w].content
      <4>1. cap[w] \in CapType /\ cap[w].now \in Readings
        BY DEF TypeOK, CapType, Era, Readings
      <4> QED BY <4>1, Zenon DEF CapType
    <3>3. Carry(w, k)
      BY <3>1, Zenon
    <3> HIDE DEF k
    <3>4. Onward(w)
      BY <3>2, <3>3, CarriedOn
    <3>5. stage[w] = "source" /\ UNCHANGED spoiled
      BY <1>12, Zenon DEF Classify
    <3>6. HasTicket(w)
      BY <3>5 DEF Era, Holding
    <3>7. cap'[w].persistent = persistent
      BY <3>2, <3>3 DEF Carry, TypeOK
    <3>8. ToDatabase(w)' => cap'[w].persistent
      BY <3>1, <3>7, PassMoves DEF ToDatabase
    <3> QED BY <1>3, <2>2, <3>4, <3>5, <3>6, <3>8 DEF SpoilKept
  <2> QED BY <2>1, <2>2
<1>13. CASE FindDuplicate(w)
  <2>1. /\ stage[w] = "dedup" /\ Pass(w, "scan") /\ UNCHANGED spoiled
        /\ \/ UNCHANGED cap
           \/ \E r \in db : Carry(w, [cap[w] EXCEPT !.id = r.id, !.prot = cap[w].prot \/ r.prot])
    BY <1>13, Zenon DEF FindDuplicate
  <2>2. Onward(w)
    <3>1. ASSUME NEW r \in db,
                 Carry(w, [cap[w] EXCEPT !.id = r.id, !.prot = cap[w].prot \/ r.prot])
          PROVE  Onward(w)
      <4> DEFINE k == [cap[w] EXCEPT !.id = r.id, !.prot = cap[w].prot \/ r.prot]
      <4>1. cap[w].persistent \in BOOLEAN
        BY DEF TypeOK, CapType
      <4>2. /\ k.ticket = cap[w].ticket /\ k.now \in Readings
            /\ k.persistent \in BOOLEAN /\ k.content = cap[w].content
        BY CarriedRecord, Zenon DEF CapType
      <4>3. Carry(w, k)
        BY <3>1, Zenon
      <4> HIDE DEF k
      <4> QED BY <4>2, <4>3, CarriedOn
    <3> QED BY <1>4, <2>1, <3>1
  <2>3. HasTicket(w) /\ Cleared(w) /\ ~ToDatabase(w)'
    BY <2>1, PassMoves DEF Era, Holding, Cleared, ToDatabase
  <2> QED BY <1>3, <2>1, <2>2, <2>3 DEF SpoilKept
<1>14. CASE ScanRam(w)
  <2>1. PICK id, prot, removals, reused :
          Carry(w, [cap[w] EXCEPT !.removals = removals, !.reused = reused,
                                  !.id = id, !.prot = prot])
    BY <1>14, Zenon DEF ScanRam
  <2> DEFINE k == [cap[w] EXCEPT !.removals = removals, !.reused = reused,
                                 !.id = id, !.prot = prot]
  <2>2. cap[w].persistent \in BOOLEAN
    BY DEF TypeOK, CapType
  <2>3. /\ k.ticket = cap[w].ticket /\ k.now \in Readings
        /\ k.persistent = cap[w].persistent /\ k.content = cap[w].content
    BY CarriedRecord, Zenon DEF CapType
  <2>4. Carry(w, k)
    BY <2>1, Zenon
  <2> HIDE DEF k
  <2>5. Onward(w)
    BY <2>2, <2>3, <2>4, CarriedOn
  <2>6. /\ stage[w] = "scan" /\ UNCHANGED spoiled
        /\ Pass(w, IF cap[w].persistent THEN "commit" ELSE "ramcheck")
    BY <1>14, Zenon DEF ScanRam
  <2>7. HasTicket(w) /\ Cleared(w)
    BY <2>6 DEF Era, Holding, Cleared
  <2>8. ToDatabase(w)' => cap'[w].persistent
    BY <2>3, <2>4, <2>6, PassMoves DEF Carry, TypeOK, ToDatabase
  <2> QED BY <1>3, <2>5, <2>6, <2>7, <2>8 DEF SpoilKept
<1>15. CASE Commit(w)
  <2>1. CASE GiveUp(w)
    BY <1>2, <2>1
  <2>2. CASE ~GiveUp(w)
    <3>1. PICK id, prot : Carry(w, [cap[w] EXCEPT !.id = id, !.prot = prot])
      BY <1>15, <2>2, Zenon DEF Commit
    <3>2. Pass(w, "trim") /\ Witness
      BY <1>15, <2>2, Zenon DEF Commit
    <3> DEFINE k == [cap[w] EXCEPT !.id = id, !.prot = prot]
    <3>3. cap[w].persistent \in BOOLEAN
      BY DEF TypeOK, CapType
    <3>4. /\ k.ticket = cap[w].ticket /\ k.now \in Readings
          /\ k.persistent = cap[w].persistent /\ k.content = cap[w].content
      BY CarriedRecord, Zenon DEF CapType
    <3>5. Carry(w, k)
      BY <3>1, Zenon
    <3> HIDE DEF k
    <3>6. Onward(w)
      BY <3>3, <3>4, <3>5, CarriedOn
    <3>7. cap'[w].persistent
      <4>1. stage[w] = "commit"
        BY <1>15, Zenon DEF Commit
      <4> QED BY <3>4, <3>5, <4>1 DEF Carry, TypeOK, Era, ToDatabase
    <3> QED BY <1>3, <1>5, <3>2, <3>6, <3>7, PassMoves, WitnessKeeps
  <2> QED BY <2>1, <2>2
<1>16. CASE Trim(w) \/ PublishPersistent(w)
  <2>1. PICK to \in {"publish", "emit"} : Pass(w, to)
    BY <1>16, Zenon DEF Trim, PublishPersistent
  <2>2. UNCHANGED <<cap, spoiled>>
    BY <1>16, Zenon DEF Trim, PublishPersistent
  <2>3. cap[w].persistent
    BY <1>16 DEF Trim, PublishPersistent, Era, ToDatabase
  <2>4. ~Holding(w)' /\ ~Cleared(w)' /\ ~ToDatabase(w)'
    BY <2>1, <2>2, <2>3, PassMoves DEF Holding, Cleared, ToDatabase
  <2> QED BY <1>3, <1>4, <2>2, <2>4 DEF SpoilKept
<1>17. CASE NameEntry(w)
  <2>1. CASE GiveUp(w)
    BY <1>2, <2>1
  <2>2. CASE ~GiveUp(w)
    <3>1. /\ stage[w] = "ramcheck" /\ Pass(w, "publish") /\ UNCHANGED spoiled
          /\ UNCHANGED cap \/ Carry(w, [cap[w] EXCEPT !.id = -(stamp + 1)])
      BY <1>17, <2>2, Zenon DEF NameEntry
    <3>2. Onward(w)
      <4>1. ASSUME Carry(w, [cap[w] EXCEPT !.id = -(stamp + 1)])
            PROVE  Onward(w)
        <5> DEFINE k == [cap[w] EXCEPT !.id = -(stamp + 1)]
        <5>1. cap[w].persistent \in BOOLEAN
          BY DEF TypeOK, CapType
        <5>2. /\ k.ticket = cap[w].ticket /\ k.now \in Readings
              /\ k.persistent \in BOOLEAN /\ k.content = cap[w].content
          BY CarriedRecord, Zenon DEF CapType
        <5>3. Carry(w, k)
          BY <4>1, Zenon
        <5> HIDE DEF k
        <5> QED BY <5>2, <5>3, CarriedOn
      <4> QED BY <1>4, <3>1, <4>1
    <3>3. HasTicket(w) /\ Cleared(w) /\ ~ToDatabase(w)'
      BY <3>1, PassMoves DEF Era, Holding, Cleared, ToDatabase
    <3> QED BY <1>3, <3>1, <3>2, <3>3 DEF SpoilKept
  <2> QED BY <2>1, <2>2
<1>18. CASE PublishSession(w)
  <2>1. CASE GiveUp(w)
    BY <1>2, <2>1
  <2>2. CASE ~GiveUp(w)
    <3>1. PICK removals : Carry(w, [cap[w] EXCEPT !.removals = removals])
      BY <1>18, <2>2, Zenon DEF PublishSession
    <3>2. Pass(w, "emit") /\ UNCHANGED spoiled
      BY <1>18, <2>2, Zenon DEF PublishSession
    <3> DEFINE k == [cap[w] EXCEPT !.removals = removals]
    <3>3. cap[w].persistent \in BOOLEAN
      BY DEF TypeOK, CapType
    <3>4. /\ k.ticket = cap[w].ticket /\ k.now \in Readings
          /\ k.persistent \in BOOLEAN /\ k.content = cap[w].content
      BY CarriedRecord, Zenon DEF CapType
    <3>5. Carry(w, k)
      BY <3>1, Zenon
    <3> HIDE DEF k
    <3>6. Onward(w)
      BY <3>4, <3>5, CarriedOn
    <3> QED BY <1>3, <1>5, <3>2, <3>6, PassMoves DEF SpoilKept
  <2> QED BY <2>1, <2>2
<1>19. CASE Emit(w)
  BY <1>2, <1>19, Zenon DEF Emit
<1> QED
  BY <1>6, <1>7, <1>8, <1>9, <1>10, <1>11, <1>12, <1>13, <1>14, <1>15, <1>16,
     <1>17, <1>18, <1>19
  DEF WorkerStep

\* Only the start of a capture, its ticket and its end touch these two fields.
LEMMA FieldsKept ==
  ASSUME TypeOK, NEW w \in Workers, WorkerStep(w), ~GiveUp(w), stage[w] # "idle"
  PROVE  /\ cap'[w].content = cap[w].content
         /\ ~TakeTicket(w) => cap'[w].ticket = cap[w].ticket
<1> DEFINE Same(k) == k.content = cap[w].content /\ k.ticket = cap[w].ticket
<1>1. ASSUME NEW k, Carry(w, k)  PROVE cap'[w] = k
  BY <1>1 DEF Carry, TypeOK
<1>2. cap[w] \in CapType
  BY DEF TypeOK
<1>3. ASSUME NEW k, Carry(w, k), Same(k)  PROVE Same(cap'[w])
  BY <1>1, <1>3
<1>4. ~\E c \in Contents, inherited \in BOOLEAN : Begin(w, c, inherited)
  BY Zenon DEF Begin
<1>5. CASE StatusPeek(w)
  <2>1. PICK n : Carry(w, [cap[w] EXCEPT !.now = n])
    BY <1>5, Zenon DEF StatusPeek
  <2>2. Same([cap[w] EXCEPT !.now = n])
    BY <1>2, Zenon DEF CapType
  <2> QED BY <1>3, <2>1, <2>2
<1>6. CASE TakeTicket(w)
  <2> DEFINE k == [cap[w] EXCEPT !.ticket = row.epoch]
  <2>1. Carry(w, k)
    BY <1>6, Zenon DEF TakeTicket
  <2>2. k.content = cap[w].content
    BY <1>2, Zenon DEF CapType
  <2> HIDE DEF k
  <2> QED BY <1>1, <1>6, <2>1, <2>2
<1>7. CASE Classify(w)
  <2>1. PICK p, q : Carry(w, [cap[w] EXCEPT !.prot = p, !.persistent = q])
    BY <1>7, Zenon DEF Classify
  <2> DEFINE k == [cap[w] EXCEPT !.prot = p, !.persistent = q]
  <2>2. Same(k)
    BY <1>2, Zenon DEF CapType
  <2>3. Carry(w, k)
    BY <2>1, Zenon
  <2> HIDE DEF k
  <2> QED BY <1>3, <2>2, <2>3
<1>8. ASSUME NEW i, NEW p, Carry(w, [cap[w] EXCEPT !.id = i, !.prot = p])
      PROVE  Same(cap'[w])
  <2> DEFINE k == [cap[w] EXCEPT !.id = i, !.prot = p]
  <2>1. Same(k)
    BY <1>2, Zenon DEF CapType
  <2>2. Carry(w, k)
    BY <1>8, Zenon
  <2> HIDE DEF k
  <2> QED BY <1>3, <2>1, <2>2
<1>9. CASE FindDuplicate(w)
  <2>1. UNCHANGED cap \/ \E r \in db : Carry(w, [cap[w] EXCEPT !.id = r.id,
                                                              !.prot = cap[w].prot \/ r.prot])
    BY <1>9, Zenon DEF FindDuplicate
  <2> QED BY <1>8, <2>1
<1>10. CASE ScanRam(w)
  <2>1. PICK m, u, i, p : Carry(w, [cap[w] EXCEPT !.removals = m, !.reused = u,
                                                  !.id = i, !.prot = p])
    BY <1>10, Zenon DEF ScanRam
  <2> DEFINE k == [cap[w] EXCEPT !.removals = m, !.reused = u, !.id = i, !.prot = p]
  <2>2. Same(k)
    BY <1>2, Zenon DEF CapType
  <2>3. Carry(w, k)
    BY <2>1, Zenon
  <2> HIDE DEF k
  <2> QED BY <1>3, <2>2, <2>3
<1>11. CASE Commit(w)
  <2>1. PICK i, p : Carry(w, [cap[w] EXCEPT !.id = i, !.prot = p])
    BY <1>11, Zenon DEF Commit
  <2> QED BY <1>8, <2>1
<1>12. CASE NameEntry(w)
  <2>1. UNCHANGED cap \/ Carry(w, [cap[w] EXCEPT !.id = -(stamp + 1)])
    BY <1>12, Zenon DEF NameEntry
  <2>2. Same([cap[w] EXCEPT !.id = -(stamp + 1)])
    BY <1>2, Zenon DEF CapType
  <2> QED BY <1>3, <2>1, <2>2
<1>13. CASE PublishSession(w)
  <2>1. PICK m : Carry(w, [cap[w] EXCEPT !.removals = m])
    BY <1>13, Zenon DEF PublishSession
  <2>2. Same([cap[w] EXCEPT !.removals = m])
    BY <1>2, Zenon DEF CapType
  <2> QED BY <1>3, <2>1, <2>2
<1>14. CASE \/ StatusExpire(w) \/ Read(w) \/ ReadNothing(w) \/ Generated(w)
            \/ CheckCapture(w) \/ Prepare(w) \/ Trim(w)
            \/ PublishPersistent(w) \/ Emit(w)
  <2>1. cap' = cap
    BY <1>14, Zenon DEF StatusExpire, Read, ReadNothing, Generated,
       CheckCapture, Prepare, Trim, PublishPersistent, Emit
  <2> QED BY <2>1
<1> HIDE DEF Same
<1>15. Same(cap'[w]) => /\ cap'[w].content = cap[w].content
                        /\ cap'[w].ticket = cap[w].ticket
  BY DEF Same
<1> QED BY <1>4, <1>5, <1>6, <1>7, <1>9, <1>10, <1>11, <1>12, <1>13, <1>14, <1>15
        DEF WorkerStep

\* A worker under way carries a payload.
LEMMA WorkerCarries ==
  ASSUME TypeOK, Carried, NEW w \in Workers, WorkerStep(w)
  PROVE  Carried'
<1>1. \A v \in Workers : v # w => Quiet(v)
  BY OnlyOwnLocals
<1>2. stage'[w] # "idle" => cap'[w].content \in Contents
  <2>1. ASSUME NEW k, Carry(w, k)  PROVE cap'[w] = k
    BY <2>1 DEF Carry, TypeOK
  <2>2. GiveUp(w) => stage'[w] = "idle"
    BY DEF GiveUp, Move, TypeOK
  <2>4. cap[w] \in CapType
    BY DEF TypeOK
  <2>5. ASSUME NEW c \in Contents, NEW inherited \in BOOLEAN, Begin(w, c, inherited)
        PROVE  cap'[w].content \in Contents
    <3> DEFINE k == [cap[w] EXCEPT !.content = c, !.prot = inherited]
    <3>1. k.content = c
      BY <2>4, Zenon DEF CapType
    <3>2. Carry(w, k)
      BY <2>5, Zenon DEF Begin
    <3> HIDE DEF k
    <3> QED BY <2>1, <3>1, <3>2
  <2>6. stage[w] # "idle" /\ ~GiveUp(w) => cap'[w].content = cap[w].content
    BY FieldsKept
  <2>7. stage[w] = "idle" => \/ stage'[w] = "idle"
                             \/ \E c \in Contents, inherited \in BOOLEAN : Begin(w, c, inherited)
    <3>1. StatusExpire(w) => stage' = stage
      BY Zenon DEF StatusExpire
    <3> QED BY <3>1 DEF WorkerStep, StatusPeek, StatusStages, TakeTicket, Read,
               ReadNothing, Generated, CheckCapture, Classify, Prepare, FindDuplicate,
               ScanRam, Commit, Trim, PublishPersistent, NameEntry, PublishSession, Emit
  <2> QED BY <2>2, <2>5, <2>6, <2>7 DEF Carried
<1> QED BY <1>1, <1>2 DEF Carried, Quiet

-----------------------------------------------------------------------------
\* The invariant and what follows from it

THEOREM InitInvariant == Init => IInv
<1> SUFFICES ASSUME Init PROVE IInv
  OBVIOUS
<1> USE DEF Init
<1>1. row \in RowType /\ row.epoch = 0
  <2>1. NoEnd \in Nat \cup {NoEnd} /\ 0 \in Nat
    OBVIOUS
  <2>2. OffRow \in RowType /\ OffRow.epoch = 0
    BY <2>1, Zenon DEF OffRow, RowType
  <2>3. OnRow \in RowType /\ OnRow.epoch = 0
    BY <2>2, Zenon DEF OnRow, RowType
  <2> QED BY <2>2, <2>3
<1>2. TypeOK
  <2>1. NullCap \in CapType
    BY DEF NullCap, CapType, NoTicket
  <2>2. /\ cap \in [Workers -> CapType]
        /\ stage \in [Workers -> Stages]
        /\ phase \in [Workers -> {"peek", "expire", "test"}]
        /\ spoiled \in [Workers -> BOOLEAN]
    BY <2>1 DEF Stages
  <2> QED BY <1>1, <2>2 DEF TypeOK
<1>3. Carried
  BY DEF Carried
<1>4. EraInv
  BY <1>1 DEF EraInv, Era, Holding, Cleared, ToDatabase, HasTicket, NullCap, NoTicket
<1> QED BY <1>2, <1>3, <1>4 DEF IInv

THEOREM NextInvariant == IInv /\ [Next]_vars => IInv'
<1> SUFFICES ASSUME IInv, [Next]_vars PROVE IInv'
  OBVIOUS
<1>1. CASE World
  BY <1>1, WorldType, WorldEra DEF IInv
<1>2. ASSUME NEW w \in Workers, WorkerStep(w)
      PROVE  IInv'
  <2>1. TypeOK' /\ Carried'
    BY <1>2, WorkerType, WorkerCarries DEF IInv
  <2>2. Era(w)'
    BY <1>2, WorkerEra DEF IInv, EraInv
  <2>3. ASSUME NEW v \in Workers, v # w
        PROVE  Era(v)'
    BY <1>2, <2>3, OnlyOwnLocals, WorkerFrame, EraOfBystander DEF IInv, EraInv
  <2> QED BY <2>1, <2>2, <2>3 DEF IInv, EraInv
<1>3. CASE UNCHANGED vars
  BY <1>3 DEF vars, stores, locals, IInv, TypeOK, Carried, EraInv, Era, Holding,
     Cleared, ToDatabase, HasTicket
<1> QED BY <1>1, <1>2, <1>3 DEF Next

THEOREM Invariant == Spec => []IInv
  BY InitInvariant, NextInvariant, PTL DEF Spec

\* Every variable keeps its type, whoever runs and however many there are.
THEOREM Typed == Spec => []TypeOK
  BY Invariant, PTL DEF IInv

\* Only the transaction writes a row of the database, only the guarded push a
\* row of the queue, and each holds the ticket of the current epoch.
LEMMA StoringHoldsTheEra ==
  ASSUME IInv, NEW w \in Workers, [Next]_vars, StoresRow(w) \/ StoresRam(w)
  PROVE  HasTicket(w) /\ Cleared(w) /\ cap[w].ticket = row.epoch
<1>1. stage'[w] # stage[w]
  BY DEF StoresRow, StoresRam
<1>2. ASSUME World PROVE FALSE
  BY <1>1, <1>2, WorldFrame DEF IInv, Quiet
<1>3. ASSUME NEW v \in Workers, v # w, WorkerStep(v) PROVE FALSE
  BY <1>1, <1>3, OnlyOwnLocals DEF IInv, Quiet
<1>4. WorkerStep(w)
  BY <1>1, <1>2, <1>3 DEF Next, vars, locals
<1>5. row.epoch \in Nat
  BY DEF IInv, TypeOK, RowType
<1>6. ASSUME NEW to, Pass(w, to) PROVE stage'[w] = to
  BY <1>6, PassMoves DEF IInv
<1>7. ~GiveUp(w)
  <2>1. GiveUp(w) => stage'[w] = "idle"
    BY DEF GiveUp, Move, IInv, TypeOK
  <2> QED BY <2>1 DEF StoresRow, StoresRam
<1>8. StatusExpire(w) => stage' = stage
  BY Zenon DEF StatusExpire
<1>9. CASE StoresRow(w)
  <2>1. Commit(w)
    BY <1>1, <1>4, <1>8, <1>9
    DEF StoresRow, WorkerStep, Begin, StatusPeek, StatusStages, TakeTicket, Read,
        ReadNothing, Generated, CheckCapture, Classify, Prepare, FindDuplicate,
        ScanRam, Trim, PublishPersistent, NameEntry, PublishSession, Emit
  <2>2. PICK n, p : CommitAllowed(w, n, p)
    BY <1>7, <2>1, Zenon DEF Commit
  <2> QED BY <1>5, <1>9, <2>2
          DEF StoresRow, CommitAllowed, CaptureAllowed, HasTicket, NoTicket, Cleared
<1>10. CASE StoresRam(w)
  <2>1. PublishSession(w)
    BY <1>1, <1>4, <1>8, <1>10
    DEF StoresRam, WorkerStep, Begin, StatusPeek, StatusStages, TakeTicket, Read,
        ReadNothing, Generated, CheckCapture, Classify, Prepare, FindDuplicate,
        ScanRam, Commit, Trim, PublishPersistent, NameEntry, Emit
  <2>2. PICK n : PublishGuard(w, n)
    BY <1>7, <2>1, Zenon DEF PublishSession
  <2> QED BY <1>5, <1>10, <2>2
          DEF StoresRam, PublishGuard, CaptureAllowed, HasTicket, NoTicket, Cleared
<1> QED BY <1>9, <1>10

\* No capture that lived through any part of a privacy session is stored.
THEOREM SessionsAreNotRecorded == Spec => NoCaptureDuringSession
<1>1. IInv /\ [Next]_vars =>
        [\A w \in Workers : StoresRow(w) \/ StoresRam(w) => ~spoiled[w]]_vars
  BY StoringHoldsTheEra DEF IInv, EraInv, Era
<1> QED BY <1>1, Invariant, PTL DEF Spec, NoCaptureDuringSession

\* Nothing is stored from an application excluded at that moment.
THEOREM ExcludedAreNotRecorded == Spec => NoCaptureFromExcluded
<1>1. IInv /\ [Next]_vars =>
        [\A w \in Workers : StoresRow(w) \/ StoresRam(w) => ~excluded]_vars
  BY StoringHoldsTheEra DEF IInv, EraInv, Era
<1> QED BY <1>1, Invariant, PTL DEF Spec, NoCaptureFromExcluded

\* What a session that is active survives: a change of the epoch alone, and
\* whoever expires the row with an earlier reading of the clock.
LEMMA SessionSurvives ==
  ASSUME row \in RowType, clock \in Nat, ActiveAt(row, clock), NEW n \in Readings
  PROVE  ActiveAt(Bump(row), clock) /\ ActiveAt(ExpireTx(row, n), clock)
<1>1. Bump(row).enabled = row.enabled /\ Bump(row).expires = row.expires
  BY Zenon DEF Bump, RowType
<1>2. ActiveAt(Bump(row), clock)
  BY <1>1 DEF ActiveAt
<1>3. n \in Nat /\ n <= clock
  BY DEF Readings
<1>4. ActiveAt(row, n)
  BY <1>3, OverStaysOver
<1>5. ExpireTx(row, n) = row
  BY <1>4, Zenon DEF ExpireTx, ExpiredAt
<1> QED BY <1>2, <1>5

\* An active session ends by the clock or by a command: no transaction of
\* status() and no trigger ends it.
THEOREM CommandsEndSessions == Spec => OnlyCommandsEndSessions
<1>1. ASSUME IInv, [Next]_vars, ActiveAt(row, clock), ~ActiveAt(row', clock)
      PROVE  SessionCommand
  <2>1. row \in RowType /\ clock \in Nat
    BY <1>1 DEF IInv, TypeOK
  <2>2. row' # row /\ row' # Bump(row)
    BY <1>1, <2>1, SessionSurvives, 0 \in Readings DEF Readings
  <2>3. \A n \in Readings : row' # ExpireTx(row, n)
    BY <1>1, <2>1, SessionSurvives
  <2>4. ASSUME NEW w \in Workers, WorkerStep(w) PROVE FALSE
    <3>1. StatusExpire(w) \/ Commit(w)
      BY <1>1, <2>2, <2>4, WorkerFrame DEF IInv
    <3>2. Commit(w) => row' \in {row, Bump(row)}
      BY Zenon DEF Commit
    <3>3. StatusExpire(w) => row' = ExpireTx(row, cap[w].now)
      BY Zenon DEF StatusExpire
    <3>4. cap[w].now \in Readings
      BY <1>1, <2>4, CarriedRecord DEF IInv, EraInv
    <3> QED BY <2>2, <2>3, <3>1, <3>2, <3>3, <3>4
  <2>5. ~UNCHANGED vars
    BY <2>2 DEF vars
  <2>6. World
    BY <1>1, <2>4, <2>5 DEF Next
  <2>7. Tick => row' = row
    BY DEF Tick
  <2>8. \A n \in Readings : OtherStatus(n) => row' = ExpireTx(row, n)
    BY DEF OtherStatus, RowStep
  <2>9. ChangePolicy => row' = Bump(row)
    BY DEF ChangePolicy, RowStep
  <2>10. \A r, c, p : EditRam(r, c, p) => row' = Bump(row)
    BY DEF EditRam, RowStep
  <2>11. \A r : MarkRow(r) => row' = Bump(row)
    BY DEF MarkRow, RowStep
  <2>12. \A r : DeleteRow(r) \/ DeleteRam(r) \/ PersistRam(r) => row' = row
    BY DEF DeleteRow, DeleteRam, PersistRam, QuietEdit
  <2> QED BY <2>2, <2>3, <2>6, <2>7, <2>8, <2>9, <2>10, <2>11, <2>12 DEF World
<1>2. IInv /\ [Next]_vars =>
        [ActiveAt(row, clock) /\ ~ActiveAt(row', clock) => SessionCommand]_vars
  BY <1>1
<1> QED BY <1>2, Invariant, PTL DEF Spec, OnlyCommandsEndSessions

-----------------------------------------------------------------------------
\* The gate

Holds == [w \in Workers |-> Held(w)]

\* The session-only check belongs to captures that do not persist.
Branch(w) == stage[w] = "ramcheck" => ~cap[w].persistent

Branches == \A w \in Workers : Branch(w)

LEMMA BranchKept ==
  ASSUME IInv, NEW w \in Workers, Branch(w), WorkerStep(w)
  PROVE  Branch(w)'
<1>1. TypeOK /\ cap[w] \in CapType
  BY DEF IInv, TypeOK
<1>2. ASSUME NEW to, Pass(w, to) PROVE stage'[w] = to
  BY <1>1, <1>2, PassMoves
<1>3. ASSUME NEW k, Carry(w, k) PROVE cap'[w] = k
  BY <1>1, <1>3 DEF Carry, TypeOK
<1>4. GiveUp(w) => stage'[w] = "idle"
  BY <1>1 DEF GiveUp, Move, TypeOK
<1>5. CASE StatusPeek(w)
  <2>1. PICK n : Carry(w, [cap[w] EXCEPT !.now = n])
    BY <1>5, Zenon DEF StatusPeek
  <2>2. [cap[w] EXCEPT !.now = n].persistent = cap[w].persistent
    BY <1>1, Zenon DEF CapType
  <2>3. cap'[w].persistent = cap[w].persistent /\ stage' = stage
    BY <1>3, <1>5, <2>1, <2>2, Zenon DEF StatusPeek
  <2> QED BY <2>3 DEF Branch
<1>6. CASE StatusExpire(w)
  BY <1>6 DEF StatusExpire, Branch
<1>7. CASE ScanRam(w)
  <2>1. /\ \E r, u, i, p : Carry(w, [cap[w] EXCEPT !.removals = r, !.reused = u,
                                                    !.id = i, !.prot = p])
        /\ Pass(w, IF cap[w].persistent THEN "commit" ELSE "ramcheck")
    BY <1>7, Zenon DEF ScanRam
  <2>2. PICK r, u, i, p : Carry(w, [cap[w] EXCEPT !.removals = r, !.reused = u,
                                                  !.id = i, !.prot = p])
    BY <2>1
  <2>3. [cap[w] EXCEPT !.removals = r, !.reused = u, !.id = i,
                       !.prot = p].persistent = cap[w].persistent
    BY <1>1, Zenon DEF CapType
  <2>4. cap'[w].persistent = cap[w].persistent
    BY <1>3, <2>2, <2>3, Zenon
  <2> QED BY <1>2, <2>1, <2>4 DEF Branch
<1>8. CASE \E c \in Contents, inherited \in BOOLEAN : Begin(w, c, inherited)
  <2>1. stage'[w] = "ticket"
    BY <1>1, <1>8 DEF Begin, Move, TypeOK
  <2> QED BY <2>1 DEF Branch
<1>9. CASE \/ TakeTicket(w) \/ Read(w) \/ ReadNothing(w) \/ Generated(w)
           \/ CheckCapture(w) \/ Classify(w) \/ Prepare(w) \/ FindDuplicate(w)
           \/ Commit(w) \/ Trim(w) \/ PublishPersistent(w) \/ NameEntry(w)
           \/ PublishSession(w) \/ Emit(w)
  <2>1. \/ GiveUp(w)
        \/ \E to \in Stages \ {"ramcheck"} : Pass(w, to)
    BY <1>9 DEF TakeTicket, Read, ReadNothing, Generated, CheckCapture, AfterCheck,
       Classify, Prepare, FindDuplicate, Commit, Trim, PublishPersistent,
       NameEntry, PublishSession, Emit, Stages, StatusStages
  <2> QED BY <1>2, <1>4, <2>1 DEF Branch
<1> QED BY <1>5, <1>6, <1>7, <1>8, <1>9 DEF WorkerStep

LEMMA NextBranches ==
  ASSUME IInv, Branches, [Next]_vars
  PROVE  Branches'
<1>1. ASSUME NEW v \in Workers, Quiet(v) PROVE Branch(v)'
  BY <1>1 DEF Quiet, Branches, Branch
<1>2. CASE UNCHANGED vars
  BY <1>1, <1>2 DEF vars, locals, Quiet, Branches
<1>3. CASE World
  BY <1>1, <1>3, WorldFrame DEF IInv, Branches
<1>4. ASSUME NEW w \in Workers, WorkerStep(w) PROVE Branches'
  BY <1>1, <1>4, OnlyOwnLocals, BranchKept DEF IInv, Branches
<1> QED BY <1>2, <1>3, <1>4 DEF Next

-----------------------------------------------------------------------------
\* Only w's hold changes when only w moves.
LEMMA HoldsAfter ==
  ASSUME NEW w \in Workers, NEW h, Held(w)' = h,
         \A v \in Workers : v # w => Quiet(v)
  PROVE  Holds' = [Holds EXCEPT ![w] = h]
<1>1. \A v \in Workers : v # w => Held(v)' = Held(v)
  BY DEF Quiet, Held, Holding, IsStored
<1> QED BY <1>1 DEF Holds

LEMMA HoldsStay ==
  ASSUME \A v \in Workers : Held(v)' = Held(v)
  PROVE  Holds' = Holds
  BY DEF Holds

LEMMA QuietHolds ==
  ASSUME NEW v \in Workers, Quiet(v)
  PROVE  Held(v)' = Held(v)
  BY DEF Quiet, Held, Holding, IsStored

\* A step that moves the row starts a new era; a step that does not leaves a
\* session as it is, or lets it run out.
LEMMA EraSteps ==
  ASSUME IInv, Surroundings, Holds' = Holds
  PROVE  [Gate!GateNext]_(Gate!gateVars)
<1>1. CASE row'.epoch = row.epoch + 1
  BY <1>1 DEF Gate!GateNext, Gate!Shift, Holds, Held, ActiveAt
<1>2. CASE row' = row
  <2>1. ActiveAt(row, clock') => ActiveAt(row, clock)
    <3>1. row \in RowType /\ clock \in Nat /\ clock' \in Nat /\ clock <= clock'
      BY DEF IInv, TypeOK, Surroundings
    <3> QED BY <3>1, OverStaysOver
  <2>2. CASE ActiveAt(row, clock) /\ ~ActiveAt(row, clock')
    BY <1>2, <2>2 DEF Gate!GateNext, Gate!Lapse, Holds, Held
  <2>3. CASE ActiveAt(row, clock) <=> ActiveAt(row, clock')
    <3>1. ActiveAt(row, clock)' = ActiveAt(row, clock)
      BY <1>2, <2>3 DEF ActiveAt
    <3> QED BY <1>2, <3>1 DEF Gate!gateVars, Holds, Held
  <2> QED BY <2>1, <2>2, <2>3
<1> QED BY <1>1, <1>2 DEF Surroundings

LEMMA WorldImplements ==
  ASSUME IInv, World
  PROVE  [Gate!GateNext]_(Gate!gateVars)
  BY WorldFrame, QuietHolds, HoldsStay, EraSteps DEF IInv

-----------------------------------------------------------------------------
\* A worker

\* It goes on holding what it held, or lets go of it.
LEMMA HoldOrLeave ==
  ASSUME IInv, NEW w \in Workers, Surroundings, row' = row, clock' = clock,
         \A v \in Workers : v # w => Quiet(v),
         Held(w)' \in {Held(w), NoTicket}
  PROVE  [Gate!GateNext]_(Gate!gateVars)
<1>1. \A v \in Workers : v # w => Held(v)' = Held(v)
  BY QuietHolds
<1>2. CASE Held(w)' = Held(w)
  BY <1>1, <1>2, HoldsStay, EraSteps
<1>3. CASE Held(w)' = NoTicket /\ Held(w) # NoTicket
  <2>1. Holds' = [Holds EXCEPT ![w] = NoTicket]
    BY <1>3, HoldsAfter
  <2>2. ActiveAt(row, clock)' = ActiveAt(row, clock)
    BY DEF ActiveAt
  <2>3. Gate!Leave(w)
    BY <1>3, <2>1, <2>2 DEF Gate!Leave, Gate!NoHold, NoTicket, Holds, Held
  <2> QED BY <2>3 DEF Gate!GateNext
<1> QED BY <1>2, <1>3

\* It stores what it captured.
LEMMA StoringAdmits ==
  ASSUME IInv, NEW w \in Workers, clock' = clock,
         row' = row \/ row' = Bump(row),
         \A v \in Workers : v # w => Quiet(v),
         Holding(w), ~Holding(w)', IsStored(w)', HasTicket(w), cap[w].ticket = row.epoch
  PROVE  [Gate!GateNext]_(Gate!gateVars)
<1>1. Holds' = [Holds EXCEPT ![w] = Through]
  BY HoldsAfter DEF Held
<1>2. Holds[w] = row.epoch /\ ~ActiveAt(row, clock)
  BY DEF Holds, Held, IInv, EraInv, Era
<1>3. row \in RowType
  BY DEF IInv, TypeOK
<1>4. row'.epoch \in {row.epoch, row.epoch + 1}
  BY <1>3, RowMovesEpoch, TRUE \in BOOLEAN, 0 \in Nat
<1>5. ActiveAt(row', clock) = ActiveAt(row, clock)
  <2>1. Bump(row).enabled = row.enabled /\ Bump(row).expires = row.expires
    BY <1>3, Zenon DEF Bump, RowType
  <2> QED BY <2>1 DEF ActiveAt
<1>6. ActiveAt(row, clock)' = ActiveAt(row, clock)
  BY <1>5
<1>7. Gate!Admit(w)
  BY <1>1, <1>2, <1>4, <1>6 DEF Gate!Admit, Gate!Through, Through, Holds
<1> QED BY <1>7 DEF Gate!GateNext

\* Naming an entry leaves it session-only.
LEMMA NameKeepsBranch ==
  ASSUME TypeOK, NEW w \in Workers, NameEntry(w), ~GiveUp(w)
  PROVE  cap'[w].persistent = cap[w].persistent
<1>1. cap[w] \in CapType
  BY DEF TypeOK
<1>2. CASE UNCHANGED cap
  BY <1>2
<1>3. CASE ~UNCHANGED cap
  <2>1. Carry(w, [cap[w] EXCEPT !.id = -(stamp + 1)])
    BY <1>3, Zenon DEF NameEntry
  <2>2. [cap[w] EXCEPT !.id = -(stamp + 1)].persistent = cap[w].persistent
    BY <1>1, Zenon DEF CapType
  <2>3. cap'[w] = [cap[w] EXCEPT !.id = -(stamp + 1)]
    BY <2>1 DEF Carry, TypeOK
  <2> QED BY <2>2, <2>3, Zenon
<1> QED BY <1>2, <1>3

LEMMA WorkerImplements ==
  ASSUME IInv, NEW w \in Workers, Branch(w), WorkerStep(w)
  PROVE  [Gate!GateNext]_(Gate!gateVars)
<1>1. /\ \A v \in Workers : v # w => Quiet(v)
      /\ Surroundings /\ clock' = clock
      /\ row' # row => StatusExpire(w) \/ Commit(w)
  BY OnlyOwnLocals, WorkerFrame DEF IInv
<1>2. TypeOK /\ Era(w) /\ row \in RowType /\ row.epoch \in Nat
  BY DEF IInv, EraInv, TypeOK, RowType
<1>3. ASSUME GiveUp(w), row' = row
      PROVE  [Gate!GateNext]_(Gate!gateVars)
  <2>1. stage'[w] = "idle"
    BY <1>2, <1>3 DEF GiveUp, Move, TypeOK
  <2>2. Held(w)' = NoTicket
    BY <2>1 DEF Held, Holding, IsStored
  <2> QED BY <1>1, <1>3, <2>2, HoldOrLeave
<1>4. ASSUME NEW to, Pass(w, to) PROVE stage'[w] = to
  BY <1>2, <1>4, PassMoves
<1>5. CASE StatusExpire(w)
  <2>1. Quiet(w)
    BY <1>5, Zenon DEF StatusExpire, Quiet
  <2> QED BY <1>1, <2>1, QuietHolds, HoldsStay, EraSteps
<1>6. CASE TakeTicket(w)
  <2>1. row' = row
    BY <1>6, Zenon DEF TakeTicket
  <2>2. CASE GiveUp(w)
    BY <1>3, <2>1, <2>2
  <2>3. CASE ~GiveUp(w)
    <3>1. /\ stage[w] = "ticket" /\ Pass(w, "read")
          /\ Carry(w, [cap[w] EXCEPT !.ticket = row.epoch])
          /\ ~ActiveAt(row, cap[w].now)
      BY <1>6, <2>3, Zenon DEF TakeTicket
    <3>2. ~ActiveAt(row, clock)
      BY <1>2, <3>1, OverStaysOver DEF TypeOK, CapType, Era
    <3>3. stage'[w] = "read" /\ cap'[w].ticket = row.epoch
      BY <1>2, <1>4, <3>1 DEF Carry, TypeOK, CapType
    <3>4. Held(w)' = row.epoch /\ Held(w) = NoTicket
      BY <3>1, <3>3 DEF Held, Holding, IsStored
    <3>5. Holds' = [Holds EXCEPT ![w] = row.epoch]
      BY <1>1, <3>4, HoldsAfter
    <3>6. ActiveAt(row, clock)' = ActiveAt(row, clock)
      BY <1>1, <2>1
    <3>7. Gate!Enter(w)
      BY <2>1, <3>2, <3>4, <3>5, <3>6
      DEF Gate!Enter, Gate!NoHold, NoTicket, Holds, Held
    <3> QED BY <3>7 DEF Gate!GateNext
  <2> QED BY <2>2, <2>3
<1>7. CASE Commit(w)
  <2>1. CASE GiveUp(w)
    <3>1. stage'[w] = "idle"
      BY <1>2, <2>1 DEF GiveUp, Move, TypeOK
    <3>2. ~Pass(w, "trim")
      BY <1>4, <3>1
    <3>3. row' = row
      BY <1>7, <3>2, Zenon DEF Commit
    <3> QED BY <1>3, <2>1, <3>3
  <2>2. CASE ~GiveUp(w)
    <3>1. /\ stage[w] = "commit" /\ Pass(w, "trim") /\ row' \in {row, Bump(row)}
          /\ \E n, p : CommitAllowed(w, n, p)
      BY <1>7, <2>2, Zenon DEF Commit
    <3>2. Holding(w) /\ ~Holding(w)' /\ IsStored(w)' /\ cap[w].ticket = row.epoch
      BY <1>4, <3>1 DEF Holding, IsStored, CommitAllowed, CaptureAllowed
    <3> QED BY <1>1, <1>2, <3>1, <3>2, StoringAdmits DEF HasTicket, NoTicket
  <2> QED BY <2>1, <2>2
<1>8. CASE PublishSession(w)
  <2>1. row' = row
    BY <1>8, Zenon DEF PublishSession
  <2>2. CASE GiveUp(w)
    BY <1>3, <2>1, <2>2
  <2>3. CASE ~GiveUp(w)
    <3>1. /\ stage[w] = "publish" /\ ~cap[w].persistent /\ Pass(w, "emit")
          /\ \E n : PublishGuard(w, n)
      BY <1>8, <2>3, Zenon DEF PublishSession
    <3>2. Holding(w) /\ ~Holding(w)' /\ IsStored(w)' /\ cap[w].ticket = row.epoch
      BY <1>4, <3>1 DEF Holding, IsStored, PublishGuard, CaptureAllowed
    <3> QED BY <1>1, <1>2, <2>1, <3>2, StoringAdmits DEF HasTicket, NoTicket
  <2> QED BY <2>2, <2>3
<1>9. CASE ~StatusExpire(w) /\ ~TakeTicket(w) /\ ~Commit(w) /\ ~PublishSession(w)
  <2>1. row' = row
    BY <1>1, <1>9
  <2>2. CASE GiveUp(w)
    BY <1>3, <2>1, <2>2
  <2>3. CASE ~GiveUp(w) /\ stage[w] = "idle"
    <3>1. \E c \in Contents, inherited \in BOOLEAN : Begin(w, c, inherited)
      BY <1>9, <2>3
      DEF WorkerStep, StatusPeek, StatusStages, Read, ReadNothing, Generated,
          CheckCapture, Classify, Prepare, FindDuplicate, ScanRam, Trim,
          PublishPersistent, NameEntry, Emit
    <3>2. stage'[w] = "ticket"
      BY <1>2, <3>1 DEF Begin, Move, TypeOK
    <3>3. Held(w)' = NoTicket
      BY <3>2 DEF Held, Holding, IsStored
    <3> QED BY <1>1, <2>1, <3>3, HoldOrLeave
  <2>4. CASE ~GiveUp(w) /\ stage[w] # "idle"
    <3>1. cap'[w].ticket = cap[w].ticket
      BY <1>2, <1>9, <2>4, FieldsKept
    <3>2. /\ Holding(w)' => Holding(w)
          /\ IsStored(w)' <=> IsStored(w)
          /\ IsStored(w) => ~Holding(w)
      <4>1. CASE StatusPeek(w)
        <5>1. stage'[w] = stage[w] /\ stage[w] \in StatusStages
          BY <4>1, Zenon DEF StatusPeek
        <5> QED BY <5>1 DEF Holding, IsStored, StatusStages
      <4>2. CASE Trim(w) \/ PublishPersistent(w) \/ Emit(w)
        <5>1. Emit(w) => GiveUp(w)
          BY DEF Emit
        <5>2. /\ UNCHANGED cap /\ cap[w].persistent
              /\ stage[w] \in {"trim", "publish"}
              /\ Pass(w, "publish") \/ Pass(w, "emit")
          BY <1>2, <2>4, <4>2, <5>1 DEF Trim, PublishPersistent, Era, ToDatabase
        <5> QED BY <1>4, <5>2 DEF Holding, IsStored
      <4>3. CASE NameEntry(w)
        <5>1. ~cap[w].persistent /\ stage[w] = "ramcheck" /\ Pass(w, "publish")
          BY <2>4, <4>3 DEF NameEntry, Branch
        <5>2. cap'[w].persistent = cap[w].persistent
          BY <1>2, <2>4, <4>3, NameKeepsBranch
        <5> QED BY <1>4, <5>1, <5>2 DEF Holding, IsStored
      <4>4. CASE \/ Read(w) \/ ReadNothing(w) \/ Generated(w) \/ CheckCapture(w)
                 \/ Classify(w) \/ Prepare(w) \/ FindDuplicate(w) \/ ScanRam(w)
        <5>1. /\ stage[w] \in {"read", "recheck", "process", "source", "prepare",
                                "dedup", "scan"}
              /\ \E to \in Stages \ {"trim", "publish", "emit"} : Pass(w, to)
          BY <2>4, <4>4 DEF Read, ReadNothing, Generated, CheckCapture, AfterCheck,
             Classify, Prepare, FindDuplicate, ScanRam, Stages, StatusStages
        <5> QED BY <1>4, <5>1 DEF Holding, IsStored
      <4>5. ~\E c \in Contents, inherited \in BOOLEAN : Begin(w, c, inherited)
        BY <2>4, Zenon DEF Begin
      <4> QED BY <1>9, <4>1, <4>2, <4>3, <4>4, <4>5 DEF WorkerStep
    <3>3. Held(w)' \in {Held(w), NoTicket}
      BY <3>1, <3>2 DEF Held
    <3> QED BY <1>1, <2>1, <3>3, HoldOrLeave
  <2> QED BY <2>2, <2>3, <2>4
<1> QED BY <1>5, <1>6, <1>7, <1>8, <1>9

\* The pipeline admits captures the way the gate says.
THEOREM PipelineImplementsGate == Spec => AdmitsLikeTheGate
<1>1. Init => Gate!GateInit
  <2> SUFFICES ASSUME Init PROVE Gate!GateInit
    OBVIOUS
  <2>1. TypeOK
    BY InitInvariant DEF IInv
  <2>2. row.epoch \in Nat /\ ActiveAt(row, clock) \in BOOLEAN
    BY <2>1 DEF TypeOK, RowType, ActiveAt
  <2>3. \A w \in Workers : Held(w) = NoTicket
    BY DEF Init, Held, Holding, IsStored
  <2> QED BY <2>2, <2>3 DEF Gate!GateInit, Gate!NoHold, NoTicket
<1>2. IInv /\ Branches /\ [Next]_vars => [Gate!GateNext]_(Gate!gateVars)
  <2> SUFFICES ASSUME IInv, Branches, [Next]_vars PROVE [Gate!GateNext]_(Gate!gateVars)
    OBVIOUS
  <2>1. CASE UNCHANGED vars
    BY <2>1 DEF vars, locals, Gate!gateVars, Held, Holding, IsStored, ActiveAt
  <2> QED BY <2>1, WorldImplements, WorkerImplements DEF Next, Branches
<1>3. Init => Branches
  BY DEF Init, Branches, Branch
<1>4. IInv /\ Branches /\ [Next]_vars => Branches'
  BY NextBranches
<1> QED BY <1>1, <1>2, <1>3, <1>4, Invariant, PTL DEF Spec, AdmitsLikeTheGate, Gate!GateSpec

-----------------------------------------------------------------------------
\* Rows and scans

\* Past its scan of the queue, and bound for the queue.
Scanned(w) ==
  \/ stage[w] = "ramcheck"
  \/ stage[w] = "publish" /\ ~cap[w].persistent

\* About to store under a name of its own.
Named(w) == stage[w] = "publish" /\ ~cap[w].persistent /\ ~cap[w].reused

Current(w) == Scanned(w) /\ cap[w].ticket = row.epoch

\* What a worker past its scan knows of names: the row it continues is one of
\* those it found, and a new name is in no row and no scan.
Known(w) ==
  /\ Scanned(w) => \A i \in cap[w].removals : -stamp <= i
  /\ Scanned(w) /\ cap[w].reused => cap[w].id \in cap[w].removals
  /\ Named(w) => /\ -stamp <= cap[w].id
                 /\ cap[w].id \notin Ids(ram)
                 /\ \A v \in Workers : Scanned(v) => cap[w].id \notin cap[v].removals
                 /\ \A v \in Workers : v # w /\ Named(v) => cap[v].id # cap[w].id

\* While its ticket is good, the rows it found still have its payload, and two
\* workers that found the same row carry the same payload.
FindsHold(w) ==
  Current(w) =>
    /\ \A r \in ram : r.id \in cap[w].removals => r.content = cap[w].content
    /\ \A v \in Workers : \A i \in cap[w].removals :
         Current(v) /\ i \in cap[v].removals => cap[v].content = cap[w].content

ScanInv == \A w \in Workers : Known(w) /\ FindsHold(w)

Alike(w) ==
  /\ stage'[w] = stage[w]
  /\ cap'[w].content = cap[w].content /\ cap'[w].ticket = cap[w].ticket
  /\ cap'[w].persistent = cap[w].persistent /\ cap'[w].id = cap[w].id
  /\ cap'[w].reused = cap[w].reused /\ cap'[w].removals = cap[w].removals

\* A worker that goes on as it was, or is not past a scan any more.
Settled(w) == Alike(w) \/ ~Scanned(w)'

\* Who is past a scan after such a step was past it before.
LEMMA SettledWas ==
  ASSUME NEW w, Settled(w)
  PROVE  /\ Scanned(w)' => Scanned(w) /\ Alike(w)
         /\ Named(w)' => Named(w) /\ Alike(w)
  BY DEF Settled, Alike, Scanned, Named

\* Steps that bring no new scan, no new name and no new row, and change what a
\* row says only in a new epoch.
LEMMA SettledKeeps ==
  ASSUME TypeOK, EraInv, ScanInv, \A w \in Workers : Settled(w),
         stamp' \in Nat, stamp <= stamp', Ids(ram') \subseteq Ids(ram),
         \/ row'.epoch = row.epoch /\ ram' \subseteq ram
         \/ row'.epoch = row.epoch + 1
  PROVE  ScanInv'
<1> SUFFICES ASSUME NEW w \in Workers PROVE Known(w)' /\ FindsHold(w)'
  BY DEF ScanInv
<1>1. \A v \in Workers : Scanned(v)' => Scanned(v) /\ Alike(v)
  BY SettledWas
<1>2. \A v \in Workers : Named(v)' => Named(v) /\ Alike(v)
  BY SettledWas
<1>3. Known(w) /\ FindsHold(w) /\ cap[w].id \in Int /\ cap[w].removals \subseteq Int /\ stamp \in Nat
  BY DEF ScanInv, TypeOK, CapType
<1>4. Known(w)'
  <2>1. Scanned(w)' => \A i \in cap'[w].removals : -stamp' <= i
    BY <1>1, <1>3 DEF Known, Alike
  <2>2. Scanned(w)' /\ cap'[w].reused => cap'[w].id \in cap'[w].removals
    BY <1>1, <1>3 DEF Known, Alike
  <2>3. ASSUME Named(w)'
        PROVE  -stamp' <= cap'[w].id /\ cap'[w].id \notin Ids(ram')
    BY <1>2, <1>3, <2>3 DEF Known, Alike
  <2>4. ASSUME Named(w)', NEW v \in Workers, Scanned(v)'
        PROVE  cap'[w].id \notin cap'[v].removals
    BY <1>1, <1>2, <1>3, <2>4 DEF Known, Alike
  <2>5. ASSUME Named(w)', NEW v \in Workers, v # w, Named(v)'
        PROVE  cap'[v].id # cap'[w].id
    BY <1>1, <1>2, <1>3, <2>5 DEF Known, Alike
  <2> QED BY <2>1, <2>2, <2>3, <2>4, <2>5 DEF Known
<1>5. FindsHold(w)'
  <2>1. row.epoch \in Nat /\ \A v \in Workers : cap[v].ticket <= row.epoch /\ cap[v].ticket \in Int
    BY DEF TypeOK, RowType, EraInv, Era, CapType, NoTicket
  <2>2. ASSUME NEW v \in Workers, Current(v)'
        PROVE  Current(v) /\ Alike(v) /\ ram' \subseteq ram
    <3>1. Scanned(v) /\ Alike(v) /\ cap'[v].ticket = row'.epoch
      BY <1>1, <2>2 DEF Current
    <3>2. cap[v].ticket = row'.epoch /\ cap[v].ticket <= row.epoch
      BY <2>1, <3>1 DEF Alike
    <3>3. row'.epoch # row.epoch + 1
      BY ONLY <2>1, <3>2
    <3>4. row'.epoch = row.epoch /\ ram' \subseteq ram
      BY <3>3
    <3> QED BY <3>1, <3>2, <3>4 DEF Current, Alike
  <2>3. ASSUME Current(w)', NEW r \in ram', r.id \in cap'[w].removals
        PROVE  r.content = cap'[w].content
    BY <1>3, <2>2, <2>3 DEF FindsHold, Alike
  <2>4. ASSUME Current(w)', NEW v \in Workers, Current(v)', NEW i \in cap'[w].removals,
               i \in cap'[v].removals
        PROVE  cap'[v].content = cap'[w].content
    BY <1>3, <2>2, <2>4 DEF FindsHold, Alike
  <2>5. Current(w)' => \A r \in ram' : r.id \in cap'[w].removals => r.content = cap'[w].content
    BY <2>3
  <2>6. Current(w)' => \A v \in Workers : \A i \in cap'[w].removals :
          Current(v)' /\ i \in cap'[v].removals => cap'[v].content = cap'[w].content
    BY <2>4
  <2> QED BY <2>5, <2>6, Zenon DEF FindsHold
<1> QED BY <1>4, <1>5

\* A worker's steps: three that matter to scans, and the rest.
LEMMA StepKinds ==
  ASSUME TypeOK, NEW w \in Workers, Era(w), WorkerStep(w)
  PROVE  \/ ScanRam(w)
         \/ NameEntry(w) /\ ~GiveUp(w)
         \/ PublishSession(w) /\ ~GiveUp(w)
         \/ Settled(w) /\ ram' \subseteq ram /\ stamp' \in {stamp, stamp + 1}
<1>1. cap[w] \in CapType
  BY DEF TypeOK
<1>2. ASSUME NEW to, Pass(w, to) PROVE stage'[w] = to
  BY <1>2, PassMoves
<1>3. GiveUp(w) => stage'[w] = "idle"
  BY DEF GiveUp, Move, TypeOK
<1>4. stage'[w] \notin {"ramcheck", "publish"} => Settled(w)
  BY DEF Settled, Scanned
<1>5. CASE StatusPeek(w)
  <2>1. PICK n : Carry(w, [cap[w] EXCEPT !.now = n])
    BY <1>5, Zenon DEF StatusPeek
  <2> DEFINE k == [cap[w] EXCEPT !.now = n]
  <2>2. /\ k.content = cap[w].content /\ k.ticket = cap[w].ticket
        /\ k.persistent = cap[w].persistent /\ k.id = cap[w].id
        /\ k.reused = cap[w].reused /\ k.removals = cap[w].removals
    BY <1>1, Zenon DEF CapType
  <2>3. Carry(w, k)
    BY <2>1, Zenon
  <2> HIDE DEF k
  <2>4. cap'[w] = k
    BY <2>3 DEF Carry, TypeOK
  <2>5. UNCHANGED <<stage, ram, stamp>>
    BY <1>5, Zenon DEF StatusPeek, stores
  <2> QED BY <2>2, <2>4, <2>5 DEF Settled, Alike
<1>6. CASE StatusExpire(w)
  <2>1. UNCHANGED <<stage, cap, ram, stamp>>
    BY <1>6, Zenon DEF StatusExpire, stores
  <2> QED BY <2>1 DEF Settled, Alike
<1>7. CASE \E c \in Contents, inherited \in BOOLEAN : Begin(w, c, inherited)
  <2>1. stage'[w] = "ticket"
    BY <1>7 DEF Begin, Move, TypeOK
  <2>2. UNCHANGED <<ram, stamp>>
    BY <1>7, Zenon DEF Begin, stores
  <2> QED BY <1>4, <2>1, <2>2
<1>8. CASE \/ TakeTicket(w) \/ Read(w) \/ ReadNothing(w) \/ Generated(w)
           \/ CheckCapture(w) \/ Classify(w) \/ Prepare(w) \/ FindDuplicate(w)
  <2>1. UNCHANGED <<ram, stamp>>
    BY <1>8, Zenon DEF TakeTicket, Read, ReadNothing, Generated, CheckCapture, Classify,
       Prepare, FindDuplicate, stores
  <2>2. \/ GiveUp(w)
        \/ \E to \in {"read", "recheck", "process", "source", "prepare", "scan", "dedup"} :
             Pass(w, to)
    BY <1>8 DEF TakeTicket, Read, ReadNothing, Generated, CheckCapture, AfterCheck,
       Classify, Prepare, FindDuplicate
  <2> QED BY <1>2, <1>3, <1>4, <2>1, <2>2
<1>9. CASE Commit(w)
  <2>1. stamp' \in {stamp, stamp + 1} /\ ram' = ram /\ (GiveUp(w) \/ Pass(w, "trim"))
    BY <1>9, Zenon DEF Commit
  <2> QED BY <1>2, <1>3, <1>4, <2>1
<1>10. CASE Trim(w)
  <2>1. Pass(w, "publish") /\ UNCHANGED <<cap, ram, stamp>> /\ cap[w].persistent
    BY <1>10 DEF Trim, Era, ToDatabase
  <2> QED BY <1>2, <2>1 DEF Settled, Scanned
<1>11. CASE PublishPersistent(w)
  BY <1>2, <1>4, <1>11 DEF PublishPersistent
<1>12. CASE Emit(w)
  BY <1>3, <1>4, <1>12 DEF Emit
<1>13. CASE (NameEntry(w) \/ PublishSession(w)) /\ GiveUp(w)
  <2>1. UNCHANGED <<ram, stamp>>
    <3>1. ~Pass(w, "publish") /\ ~Pass(w, "emit")
      BY <1>2, <1>3, <1>13
    <3> QED BY <1>13, <3>1, Zenon DEF NameEntry, PublishSession
  <2> QED BY <1>3, <1>4, <1>13, <2>1
<1> QED
  BY <1>5, <1>6, <1>7, <1>8, <1>9, <1>10, <1>11, <1>12, <1>13 DEF WorkerStep

\* The world gives the queue no new name, and changes what a row says only in
\* a new epoch.
LEMMA WorldSettles ==
  ASSUME TypeOK, World
  PROVE  /\ \A v \in Workers : Settled(v)
         /\ stamp' \in {stamp, stamp + 1}
         /\ Ids(ram') \subseteq Ids(ram)
         /\ \/ row'.epoch = row.epoch /\ ram' \subseteq ram
            \/ row'.epoch = row.epoch + 1
<1>1. \A v \in Workers : Settled(v)
  BY WorldFrame DEF Quiet, Settled, Alike
<1>2. row' = row \/ row'.epoch = row.epoch + 1
  BY WorldFrame DEF Surroundings
<1>3. ASSUME NEW r \in ram, NEW c \in Contents, NEW p \in BOOLEAN, EditRam(r, c, p)
      PROVE  /\ row'.epoch = row.epoch + 1
             /\ stamp' = stamp
             /\ Ids(ram') \subseteq Ids(ram)
  <2>1. r \in Entry /\ row \in RowType
    BY DEF TypeOK
  <2> DEFINE x == [r EXCEPT !.content = c, !.prot = p]
  <2>2. x.id = r.id
    BY <2>1, Zenon DEF Entry
  <2>3. ram' = (ram \ {r}) \cup {x} /\ row' = Bump(row) /\ stamp' = stamp
    BY <1>3, Zenon DEF EditRam, RowStep
  <2> HIDE DEF x
  <2>4. row'.epoch = row.epoch + 1
    BY <2>1, <2>3, RowMovesEpoch, TRUE \in BOOLEAN, 0 \in Nat
  <2> QED BY <2>2, <2>3, <2>4 DEF Ids
<1>4. ASSUME ram' \subseteq ram PROVE Ids(ram') \subseteq Ids(ram)
  BY <1>4 DEF Ids
<1>5. (\A r \in ram, c \in Contents, p \in BOOLEAN : ~EditRam(r, c, p)) =>
        ram' \subseteq ram /\ stamp' \in {stamp, stamp + 1}
  BY DEF World, Tick, SessionCommand, SetSession, ToggleSession, OtherStatus, ChangePolicy,
     MarkRow, DeleteRow, DeleteRam, PersistRam, stores
<1> QED BY <1>1, <1>2, <1>3, <1>4, <1>5

\* Each row of the queue has a name of its own, given out already.
QueueNamed ==
  /\ \A r \in ram : -stamp <= r.id
  /\ \A r, s \in ram : r.id = s.id => r = s

\* What the scan comes back with.
LEMMA ScanFinds ==
  ASSUME TypeOK, NEW w \in Workers, ScanRam(w)
  PROVE  /\ cap'[w].content = cap[w].content /\ cap'[w].ticket = cap[w].ticket
         /\ cap'[w].persistent = cap[w].persistent
         /\ \A i \in cap'[w].removals : \E r \in ram : r.id = i /\ r.content = cap[w].content
         /\ cap'[w].reused => cap'[w].id \in cap'[w].removals
         /\ stage'[w] \in {"commit", "ramcheck"}
         /\ UNCHANGED <<row, ram, stamp, db>>
<1> DEFINE same == {r \in ram : Deduplicate /\ r.content = cap[w].content}
           last == {r \in same : \A s \in same : s.at <= r.at}
           continued == IF cap[w].persistent THEN {} ELSE last
           id == IF continued = {} THEN cap[w].id ELSE (CHOOSE r \in continued : TRUE).id
           prot == cap[w].prot \/ \E r \in continued : r.prot
           k == [cap[w] EXCEPT !.removals = Ids(same), !.reused = (continued # {}),
                               !.id = id, !.prot = prot]
<1>1. Carry(w, k)
  BY Zenon DEF ScanRam
<1>2. continued \subseteq same
  OBVIOUS
<1>3. continued # {} => id \in Ids(same)
  BY <1>2 DEF Ids
<1>4. \A i \in Ids(same) : \E r \in ram : r.id = i /\ r.content = cap[w].content
  BY DEF Ids
<1>5. stage'[w] \in {"commit", "ramcheck"} /\ UNCHANGED <<row, ram, stamp, db>>
  <2>1. UNCHANGED <<row, ram, stamp, db>>
    BY Zenon DEF ScanRam, stores
  <2>2. Pass(w, IF cap[w].persistent THEN "commit" ELSE "ramcheck")
    BY Zenon DEF ScanRam
  <2>3. stage'[w] = IF cap[w].persistent THEN "commit" ELSE "ramcheck"
    BY <2>2, PassMoves
  <2> QED BY <2>1, <2>3
<1> HIDE DEF same, last, continued, id, prot
<1>6. /\ k.removals = Ids(same) /\ k.reused = (continued # {}) /\ k.id = id
      /\ k.content = cap[w].content /\ k.ticket = cap[w].ticket
      /\ k.persistent = cap[w].persistent
  <2>1. cap[w] \in CapType
    BY DEF TypeOK
  <2> QED BY <2>1, Zenon DEF CapType
<1> HIDE DEF k
<1>7. cap'[w] = k
  BY <1>1 DEF Carry, TypeOK
<1> QED BY <1>3, <1>4, <1>5, <1>6, <1>7

\* The scan keeps the invariant: what it found is in the queue, as it says.
LEMMA ScanKeeps ==
  ASSUME TypeOK, ScanInv, QueueNamed, NEW w \in Workers, ScanRam(w),
         \A v \in Workers : v # w => Alike(v)
  PROVE  ScanInv'
<1> DEFINE found == cap'[w].removals
<1>1. /\ cap'[w].content = cap[w].content /\ cap'[w].ticket = cap[w].ticket
      /\ \A i \in found : \E r \in ram : r.id = i /\ r.content = cap[w].content
      /\ cap'[w].reused => cap'[w].id \in found
      /\ stage'[w] \in {"commit", "ramcheck"}
      /\ row' = row /\ ram' = ram /\ stamp' = stamp
  BY ScanFinds
<1>2. found \subseteq Ids(ram) /\ \A i \in found : -stamp <= i
  BY <1>1 DEF QueueNamed, Ids
<1>3. ~Named(w)'
  BY <1>1 DEF Named
<1>4. \A v \in Workers : v # w => (Scanned(v)' <=> Scanned(v)) /\ (Named(v)' <=> Named(v))
                                   /\ (Current(v)' <=> Current(v))
  BY <1>1 DEF Alike, Scanned, Named, Current
<1>5. ASSUME NEW v \in Workers PROVE Known(v)'
  <2>1. CASE v = w
    BY <1>1, <1>2, <1>3, <2>1 DEF Known
  <2>2. CASE v # w
    <3>1. Known(v) /\ Alike(v)
      BY <2>2 DEF ScanInv
    <3>2. ASSUME Named(v)'
          PROVE  /\ -stamp' <= cap'[v].id /\ cap'[v].id \notin Ids(ram')
                 /\ \A u \in Workers : Scanned(u)' => cap'[v].id \notin cap'[u].removals
                 /\ \A u \in Workers : u # v /\ Named(u)' => cap'[u].id # cap'[v].id
      BY <1>1, <1>2, <1>3, <1>4, <2>2, <3>1, <3>2 DEF Known, Alike
    <3>3. /\ Scanned(v)' => \A i \in cap'[v].removals : -stamp' <= i
          /\ Scanned(v)' /\ cap'[v].reused => cap'[v].id \in cap'[v].removals
      BY <1>1, <1>4, <2>2, <3>1 DEF Known, Alike
    <3> QED BY <3>2, <3>3 DEF Known
  <2> QED BY <2>1, <2>2
<1>6. ASSUME NEW v \in Workers, v # w, Current(v)', NEW i \in found, i \in cap'[v].removals
      PROVE  cap'[v].content = cap'[w].content
  <2>1. Current(v) /\ FindsHold(v) /\ Alike(v)
    BY <1>4, <1>6 DEF ScanInv
  <2>2. PICK r \in ram : r.id = i /\ r.content = cap[w].content
    BY <1>1
  <2>3. r.content = cap[v].content
    BY <1>6, <2>1, <2>2 DEF FindsHold, Alike
  <2> QED BY <1>1, <2>1, <2>2, <2>3 DEF Alike
<1>7. ASSUME NEW v \in Workers, Current(v)'
      PROVE  \A r \in ram' : r.id \in cap'[v].removals => r.content = cap'[v].content
  <2>1. CASE v = w
    BY <1>1, <2>1 DEF QueueNamed
  <2>2. CASE v # w
    BY <1>1, <1>4, <1>7, <2>2 DEF ScanInv, FindsHold, Alike
  <2> QED BY <2>1, <2>2
<1>8. ASSUME NEW v \in Workers, Current(v)', NEW u \in Workers, NEW i \in cap'[v].removals,
             Current(u)', i \in cap'[u].removals
      PROVE  cap'[u].content = cap'[v].content
  <2>1. CASE v = w \/ u = w
    BY <1>6, <1>8, <2>1
  <2>2. CASE v # w /\ u # w
    BY <1>4, <1>8, <2>2 DEF ScanInv, FindsHold, Alike
  <2> QED BY <2>1, <2>2
<1> QED
  <2>1. ASSUME NEW v \in Workers PROVE FindsHold(v)'
    <3>1. Current(v)' => \A r \in ram' : r.id \in cap'[v].removals => r.content = cap'[v].content
      BY <1>7
    <3>2. Current(v)' => \A u \in Workers : \A i \in cap'[v].removals :
            Current(u)' /\ i \in cap'[u].removals => cap'[u].content = cap'[v].content
      BY <1>8
    <3> QED BY <3>1, <3>2, Zenon DEF FindsHold
  <2> QED BY <1>5, <2>1 DEF ScanInv

\* What the naming of an entry comes to.
LEMMA NamingGives ==
  ASSUME TypeOK, NEW w \in Workers, NameEntry(w), ~GiveUp(w)
  PROVE  /\ stage[w] = "ramcheck" /\ stage'[w] = "publish"
         /\ cap'[w].content = cap[w].content /\ cap'[w].ticket = cap[w].ticket
         /\ cap'[w].persistent = cap[w].persistent /\ cap'[w].reused = cap[w].reused
         /\ cap'[w].removals = cap[w].removals
         /\ cap[w].reused => cap'[w].id = cap[w].id /\ stamp' = stamp
         /\ ~cap[w].reused => cap'[w].id = -(stamp + 1) /\ stamp' = stamp + 1
         /\ UNCHANGED <<row, ram, db>>
<1>1. stage[w] = "ramcheck" /\ stage'[w] = "publish" /\ UNCHANGED <<row, ram, db>>
  BY PassMoves DEF NameEntry
<1>2. CASE cap[w].reused
  BY <1>1, <1>2 DEF NameEntry
<1>3. CASE ~cap[w].reused
  <2> DEFINE k == [cap[w] EXCEPT !.id = -(stamp + 1)]
  <2>1. Carry(w, k) /\ stamp' = stamp + 1
    BY <1>3, Zenon DEF NameEntry
  <2>2. /\ k.content = cap[w].content /\ k.ticket = cap[w].ticket
        /\ k.persistent = cap[w].persistent /\ k.id = -(stamp + 1)
        /\ k.reused = cap[w].reused /\ k.removals = cap[w].removals
    <3>1. cap[w] \in CapType
      BY DEF TypeOK
    <3> QED BY <3>1, Zenon DEF CapType
  <2> HIDE DEF k
  <2>3. cap'[w] = k
    BY <2>1 DEF Carry, TypeOK
  <2> QED BY <1>1, <1>3, <2>1, <2>2, <2>3
<1> QED BY <1>2, <1>3

\* So does the naming: the new name was nowhere.
LEMMA NameKeeps ==
  ASSUME TypeOK, ScanInv, QueueNamed, NEW w \in Workers, NameEntry(w), ~GiveUp(w),
         \A v \in Workers : v # w => Alike(v)
  PROVE  ScanInv'
<1>1. /\ stage[w] = "ramcheck" /\ stage'[w] = "publish"
      /\ cap'[w].content = cap[w].content /\ cap'[w].ticket = cap[w].ticket
      /\ cap'[w].persistent = cap[w].persistent /\ cap'[w].reused = cap[w].reused
      /\ cap'[w].removals = cap[w].removals
      /\ cap[w].reused => cap'[w].id = cap[w].id /\ stamp' = stamp
      /\ ~cap[w].reused => cap'[w].id = -(stamp + 1) /\ stamp' = stamp + 1
      /\ row' = row /\ ram' = ram
  BY NamingGives
<1>2. stamp \in Nat /\ Ids(ram) \subseteq Int /\ \A i \in Ids(ram) : -stamp <= i
  BY DEF TypeOK, QueueNamed, Ids, Entry
<1>3. \A v \in Workers : cap[v].id \in Int /\ cap[v].removals \subseteq Int
  BY DEF TypeOK, CapType
<1>4. \A v \in Workers : v # w => (Scanned(v)' <=> Scanned(v)) /\ (Named(v)' <=> Named(v))
  BY DEF Alike, Scanned, Named
<1>5. Scanned(w) /\ ~Named(w) /\ (Named(w)' => ~cap[w].reused)
  BY <1>1 DEF Scanned, Named
<1>6. stamp' \in {stamp, stamp + 1}
  BY <1>1
<1>7. ASSUME NEW v \in Workers
      PROVE  /\ Scanned(v)' => \A i \in cap'[v].removals : -stamp' <= i
             /\ Scanned(v)' /\ cap'[v].reused => cap'[v].id \in cap'[v].removals
  <2>1. Scanned(v)' => Scanned(v) /\ cap'[v].removals = cap[v].removals
                       /\ cap'[v].reused = cap[v].reused
    BY <1>1, <1>4, <1>5 DEF Alike
  <2>2. Scanned(v) => \A i \in cap[v].removals : -stamp <= i
    BY DEF ScanInv, Known
  <2>3. Scanned(v) /\ cap[v].reused => cap[v].id \in cap[v].removals
    BY DEF ScanInv, Known
  <2>4. cap[v].reused => cap'[v].id = cap[v].id
    BY <1>1 DEF Alike
  <2>5. Scanned(v) => \A i \in cap[v].removals : -stamp' <= i
    BY <1>2, <1>3, <1>6, <2>2
  <2> QED BY <2>1, <2>3, <2>4, <2>5
<1>8. ASSUME NEW v \in Workers, Scanned(v)'
      PROVE  \A i \in cap'[v].removals : i # -(stamp + 1)
  <2>1. Scanned(v) /\ cap'[v].removals = cap[v].removals
    BY <1>1, <1>4, <1>5, <1>8 DEF Alike
  <2>2. \A i \in cap[v].removals : -stamp <= i
    BY <2>1 DEF ScanInv, Known
  <2> QED BY <1>2, <1>3, <2>1, <2>2
<1>9. ASSUME NEW v \in Workers, v # w, Named(v)
      PROVE  cap[v].id # -(stamp + 1)
  <2>1. -stamp <= cap[v].id
    BY <1>9 DEF ScanInv, Known
  <2> QED BY <1>2, <1>3, <2>1
<1>10. -(stamp + 1) \notin Ids(ram)
  BY <1>2
<1>11. ASSUME NEW v \in Workers, Named(v)'
       PROVE  /\ -stamp' <= cap'[v].id
              /\ cap'[v].id \notin Ids(ram')
              /\ \A u \in Workers : Scanned(u)' => cap'[v].id \notin cap'[u].removals
              /\ \A u \in Workers : u # v /\ Named(u)' => cap'[u].id # cap'[v].id
  <2>1. CASE v = w
    <3>1. cap'[v].id = -(stamp + 1) /\ stamp' = stamp + 1
      BY <1>1, <1>5, <1>11, <2>1
    <3>2. \A u \in Workers : u # v /\ Named(u)' => cap'[u].id # cap'[v].id
      BY <1>4, <1>9, <2>1, <3>1 DEF Alike
    <3>3. -stamp' <= cap'[v].id
      BY <1>2, <3>1
    <3> QED BY <1>1, <1>8, <1>10, <3>1, <3>2, <3>3
  <2>2. CASE v # w
    <3>1. Named(v) /\ cap'[v].id = cap[v].id
      BY <1>4, <1>11, <2>2 DEF Alike
    <3>2. /\ -stamp <= cap[v].id /\ cap[v].id \notin Ids(ram)
          /\ \A u \in Workers : Scanned(u) => cap[v].id \notin cap[u].removals
          /\ \A u \in Workers : u # v /\ Named(u) => cap[u].id # cap[v].id
      BY <3>1 DEF ScanInv, Known
    <3>3. \A u \in Workers : Scanned(u)' => cap'[v].id \notin cap'[u].removals
      BY <1>1, <1>4, <1>5, <3>1, <3>2 DEF Alike
    <3>4. \A u \in Workers : u # v /\ Named(u)' => cap'[u].id # cap'[v].id
      BY <1>1, <1>4, <1>5, <1>9, <2>2, <3>1, <3>2 DEF Alike
    <3>5. -stamp' <= cap'[v].id
      BY <1>2, <1>3, <1>6, <3>1, <3>2
    <3> QED BY <1>1, <3>1, <3>2, <3>3, <3>4, <3>5
  <2> QED BY <2>1, <2>2
<1>12. ASSUME NEW v \in Workers PROVE FindsHold(v)'
  <2>1. \A u \in Workers : /\ Current(u)' => Current(u)
                           /\ cap'[u].removals = cap[u].removals
                           /\ cap'[u].content = cap[u].content
    BY <1>1, <1>4, <1>5 DEF Alike, Current
  <2>2. Current(v)' => \A r \in ram' : r.id \in cap'[v].removals => r.content = cap'[v].content
    BY <1>1, <2>1 DEF ScanInv, FindsHold
  <2>3. Current(v)' => \A u \in Workers : \A i \in cap'[v].removals :
            Current(u)' /\ i \in cap'[u].removals => cap'[u].content = cap'[v].content
    BY <2>1 DEF ScanInv, FindsHold
  <2> QED BY <2>2, <2>3, Zenon DEF FindsHold
<1>13. ASSUME NEW v \in Workers PROVE Known(v)'
  BY <1>7, <1>11 DEF Known
<1> QED BY <1>12, <1>13 DEF ScanInv

\* What the guarded push comes to.
LEMMA PublishingGives ==
  ASSUME TypeOK, NEW w \in Workers, PublishSession(w), ~GiveUp(w)
  PROVE  /\ stage[w] = "publish" /\ ~cap[w].persistent /\ cap[w].ticket = row.epoch
         /\ stage'[w] = "emit"
         /\ ram' = Stored(w) \ Evicted(Stored(w))
         /\ cap'[w].removals = RemovedIds(w, Evicted(Stored(w)))
         /\ shown' = shown \cup {cap[w].id}
         /\ stamp' = stamp + 1 /\ UNCHANGED <<row, db, announced>>
<1> DEFINE out == Evicted(Stored(w))
           k == [cap[w] EXCEPT !.removals = RemovedIds(w, out)]
<1>1. /\ stage[w] = "publish" /\ ~cap[w].persistent
      /\ \E n \in Readings : PublishGuard(w, n)
      /\ ram' = Stored(w) \ out /\ stamp' = stamp + 1 /\ shown' = shown \cup {cap[w].id}
      /\ Carry(w, k) /\ Pass(w, "emit") /\ UNCHANGED <<row, db, announced>>
  BY Zenon DEF PublishSession
<1> HIDE DEF out
<1>2. k.removals = RemovedIds(w, out)
  <2>1. cap[w] \in CapType
    BY DEF TypeOK
  <2> QED BY <2>1, Zenon DEF CapType
<1> HIDE DEF k
<1>3. cap'[w] = k
  BY <1>1 DEF Carry, TypeOK
<1>4. stage'[w] = "emit"
  BY <1>1, PassMoves
<1> QED BY <1>1, <1>2, <1>3, <1>4, Zenon DEF PublishGuard, CaptureAllowed, out

\* What the push writes: the queue without the duplicates, and one row.
LEMMA StoredRows ==
  ASSUME NEW w \in Workers
  PROVE  \E x : /\ x.id = cap[w].id /\ x.content = cap[w].content
                /\ x.prot = cap[w].prot
                /\ Stored(w) = {r \in ram : r.id \notin cap[w].removals /\ r.id # cap[w].id}
                               \cup {x}
<1> DEFINE pending == cap[w].removals \ {cap[w].id}
           kept == {r \in ram : r.id \notin pending}
           old == RowsWithId(kept, cap[w].id)
           at == IF old = {} THEN stamp + 1 ELSE (CHOOSE r \in old : TRUE).at
           x == [id |-> cap[w].id, content |-> cap[w].content, prot |-> cap[w].prot, at |-> at]
<1>1. Stored(w) = (kept \ old) \cup {x}
  BY Zenon DEF Stored
<1>2. kept \ old = {r \in ram : r.id \notin cap[w].removals /\ r.id # cap[w].id}
  BY DEF RowsWithId
<1> HIDE DEF kept, old, at
<1>3. x.id = cap[w].id /\ x.content = cap[w].content /\ x.prot = cap[w].prot
  BY Zenon
<1> QED BY <1>1, <1>2, <1>3, Zenon

\* A new name is out of everybody else's reach.
LEMMA NameIsOwn ==
  ASSUME TypeOK, ScanInv, NEW w \in Workers, stage[w] = "publish", ~cap[w].persistent
  PROVE  /\ -stamp <= cap[w].id
         /\ \A v \in Workers : v # w /\ Named(v) => cap[v].id # cap[w].id
<1>1. Scanned(w) /\ Known(w)
  BY DEF Scanned, ScanInv
<1>2. CASE cap[w].reused
  <2>1. cap[w].id \in cap[w].removals /\ -stamp <= cap[w].id
    BY <1>1, <1>2 DEF Known
  <2> QED BY <1>1, <2>1 DEF ScanInv, Known
<1>3. CASE ~cap[w].reused
  BY <1>1, <1>3 DEF Known, Named
<1> QED BY <1>2, <1>3

\* So does the push: its row is one that it found itself, or has a new name.
LEMMA PublishKeeps ==
  ASSUME TypeOK, ScanInv, QueueNamed, NEW w \in Workers, PublishSession(w), ~GiveUp(w),
         \A v \in Workers : v # w => Alike(v)
  PROVE  ScanInv' /\ QueueNamed'
<1>1. /\ stage[w] = "publish" /\ ~cap[w].persistent /\ cap[w].ticket = row.epoch
      /\ stage'[w] = "emit"
      /\ ram' \subseteq Stored(w)
      /\ stamp' = stamp + 1 /\ row' = row
  BY PublishingGives
<1>2. PICK x : /\ x.id = cap[w].id /\ x.content = cap[w].content
               /\ Stored(w) = {r \in ram : r.id \notin cap[w].removals /\ r.id # cap[w].id}
                              \cup {x}
  BY StoredRows
<1>3. /\ -stamp <= cap[w].id
      /\ \A v \in Workers : v # w /\ Named(v) => cap[v].id # cap[w].id
  BY <1>1, NameIsOwn
<1>4. stamp \in Nat /\ Ids(ram) \subseteq Int
  BY DEF TypeOK, Entry, Ids
<1>5. \A v \in Workers : cap[v].id \in Int /\ cap[v].removals \subseteq Int
  BY DEF TypeOK, CapType
<1>6. QueueNamed'
  <2>1. ASSUME NEW r \in ram' PROVE -stamp' <= r.id
    <3>1. r = x \/ r \in ram
      BY <1>1, <1>2
    <3>2. -stamp <= r.id
      BY <1>2, <1>3, <3>1 DEF QueueNamed
    <3>3. r.id \in Int
      BY <1>2, <1>4, <1>5, <3>1 DEF Ids
    <3> QED BY ONLY <1>1, <1>4, <3>2, <3>3
  <2>2. ASSUME NEW r \in ram', NEW s \in ram', r.id = s.id PROVE r = s
    <3>1. r = x \/ (r \in ram /\ r.id # x.id)
      BY <1>1, <1>2
    <3>2. s = x \/ (s \in ram /\ s.id # x.id)
      BY <1>1, <1>2
    <3> QED BY <2>2, <3>1, <3>2 DEF QueueNamed
  <2>3. (\A r \in ram : -stamp <= r.id)'
    BY <2>1
  <2> QED BY <2>2, <2>3 DEF QueueNamed
<1>7. \A v \in Workers : v # w => /\ Scanned(v)' <=> Scanned(v)
                                  /\ Named(v)' <=> Named(v)
                                  /\ Current(v)' <=> Current(v)
  BY <1>1 DEF Alike, Scanned, Named, Current
<1>8. ~Scanned(w)' /\ ~Named(w)' /\ ~Current(w)'
  BY <1>1 DEF Scanned, Named, Current
<1>9. Scanned(w) /\ Current(w) /\ Known(w)
  BY <1>1 DEF Scanned, Current, ScanInv
<1>10. ASSUME NEW v \in Workers, Scanned(v)'
       PROVE  /\ \A i \in cap'[v].removals : -stamp' <= i
              /\ cap'[v].reused => cap'[v].id \in cap'[v].removals
  <2>1. v # w /\ Scanned(v) /\ Alike(v) /\ Known(v)
    BY <1>7, <1>8, <1>10 DEF ScanInv
  <2>2. \A i \in cap[v].removals : -stamp <= i
    BY <2>1 DEF Known
  <2>3. \A i \in cap[v].removals : -stamp' <= i
    BY ONLY <1>1, <1>4, <1>5, <2>2
  <2> QED BY <2>1, <2>3 DEF Known, Alike
<1>11. ASSUME NEW v \in Workers, Named(v)'
       PROVE  /\ -stamp' <= cap'[v].id
              /\ cap'[v].id \notin Ids(ram')
              /\ \A u \in Workers : Scanned(u)' => cap'[v].id \notin cap'[u].removals
              /\ \A u \in Workers : u # v /\ Named(u)' => cap'[u].id # cap'[v].id
  <2>1. v # w /\ Named(v) /\ cap'[v].id = cap[v].id
    BY <1>7, <1>8, <1>11 DEF Alike
  <2>2. /\ -stamp <= cap[v].id /\ cap[v].id \notin Ids(ram)
        /\ \A u \in Workers : Scanned(u) => cap[v].id \notin cap[u].removals
        /\ \A u \in Workers : u # v /\ Named(u) => cap[u].id # cap[v].id
    BY <2>1 DEF ScanInv, Known
  <2>3. Ids(ram') \subseteq Ids(ram) \cup {cap[w].id}
    BY <1>1, <1>2 DEF Ids
  <2>4. cap[v].id # cap[w].id
    BY <1>3, <2>1
  <2>5. -stamp' <= cap[v].id
    BY ONLY <1>1, <1>4, <1>5, <2>2
  <2>6. \A u \in Workers : Scanned(u)' => Scanned(u) /\ cap'[u].removals = cap[u].removals
    BY <1>7, <1>8 DEF Alike
  <2>7. \A u \in Workers : Named(u)' => Named(u) /\ cap'[u].id = cap[u].id
    BY <1>7, <1>8 DEF Alike
  <2> QED BY <2>1, <2>2, <2>3, <2>4, <2>5, <2>6, <2>7
<1>12. ASSUME NEW v \in Workers, Current(v)', NEW r \in ram', r.id \in cap'[v].removals
       PROVE  r.content = cap'[v].content
  <2>1. v # w /\ Current(v) /\ Alike(v) /\ FindsHold(v) /\ Known(v)
    BY <1>7, <1>8, <1>12 DEF ScanInv
  <2>2. CASE r \in ram
    BY <1>12, <2>1, <2>2 DEF FindsHold, Alike
  <2>3. CASE r = x
    <3>1. cap[w].id \in cap[v].removals
      BY <1>2, <1>12, <2>1, <2>3 DEF Alike
    <3>2. cap[w].reused
      BY <1>1, <1>9, <2>1, <3>1 DEF Known, Named, Current
    <3>3. cap[w].id \in cap[w].removals
      BY <1>9, <3>2 DEF Known
    <3>4. cap[w].content = cap[v].content
      BY <1>9, <2>1, <3>1, <3>3 DEF FindsHold
    <3> QED BY <1>2, <2>1, <2>3, <3>4 DEF Alike
  <2> QED BY <1>1, <1>2, <2>2, <2>3
<1>13. ASSUME NEW v \in Workers PROVE FindsHold(v)'
  <2>1. \A u \in Workers : Current(u)' => /\ Current(u)
                                          /\ cap'[u].removals = cap[u].removals
                                          /\ cap'[u].content = cap[u].content
    BY <1>7, <1>8 DEF Alike
  <2>2. Current(v)' => \A r \in ram' : r.id \in cap'[v].removals => r.content = cap'[v].content
    BY <1>12
  <2>3. Current(v)' => \A u \in Workers : \A i \in cap'[v].removals :
            Current(u)' /\ i \in cap'[u].removals => cap'[u].content = cap'[v].content
    BY <2>1 DEF ScanInv, FindsHold
  <2> QED BY <2>2, <2>3, Zenon DEF FindsHold
<1>14. ASSUME NEW v \in Workers PROVE Known(v)'
  BY <1>10, <1>11 DEF Known
<1> QED BY <1>6, <1>13, <1>14 DEF ScanInv

\* Of any rows, one is the oldest.
LEMMA SomeOldest ==
  ASSUME NEW S, S # {}, \A r \in S : r.at \in Nat
  PROVE  Oldest(S) # {}
<1> DEFINE T == {r.at : r \in S}
           Less == OpToRel(<, Nat)
<1>1. T \subseteq Nat /\ T # {}
  OBVIOUS
<1>2. IsWellFoundedOn(Less, Nat)
  BY NatLessThanWellFounded
<1> HIDE DEF T, Less
<1>3. PICK m \in T : \A n \in T : <<n, m>> \notin Less
  BY <1>1, <1>2, WFMin, Zenon
<1>4. \A n \in T : m <= n
  <2> SUFFICES ASSUME NEW n \in T PROVE m <= n
    OBVIOUS
  <2>1. m \in Nat /\ n \in Nat /\ <<n, m>> \notin Less
    BY <1>1, <1>3
  <2>2. ~(n < m)
    BY <2>1 DEF Less, OpToRel
  <2> QED BY <2>1, <2>2
<1>5. PICK r \in S : r.at = m
  BY DEF T
<1>6. \A s \in S : r.at <= s.at
  BY <1>4, <1>5 DEF T
<1> QED BY <1>6 DEF Oldest

QueueBounded == IsFiniteSet(ram) /\ Cardinality(ram) <= RamCap

\* One row for another leaves the queue as long as it was.
LEMMA Exchanged ==
  ASSUME NEW S, IsFiniteSet(S), NEW r \in S, NEW x
  PROVE  /\ IsFiniteSet((S \ {r}) \cup {x})
         /\ Cardinality((S \ {r}) \cup {x}) <= Cardinality(S)
<1> DEFINE R == S \ {r}
<1>1. IsFiniteSet(R) /\ Cardinality(R) = Cardinality(S) - 1 /\ Cardinality(S) \in Nat
  BY FS_RemoveElement, FS_CardinalityType
<1>2. Cardinality(R) \in Nat
  BY <1>1, FS_CardinalityType
<1> HIDE DEF R
<1>3. /\ IsFiniteSet(R \cup {x})
      /\ Cardinality(R \cup {x}) \in {Cardinality(R), Cardinality(R) + 1}
  BY <1>1, FS_AddElement
<1>4. Cardinality(R \cup {x}) <= Cardinality(S)
  BY <1>1, <1>2, <1>3
<1> QED BY <1>3, <1>4 DEF R

\* The push keeps to the capacity, and drops a row only from a full queue.
LEMMA PushBounded ==
  ASSUME TypeOK, QueueBounded, NEW w \in Workers
  PROVE  LET left == Stored(w) \ Evicted(Stored(w)) IN
         /\ IsFiniteSet(left) /\ Cardinality(left) <= RamCap
         /\ \A r \in ram : r \in Evicted(Stored(w)) =>
              r \in Oldest(ram) /\ Cardinality(ram) = RamCap
<1> DEFINE rest == {r \in ram : r.id \notin cap[w].removals /\ r.id # cap[w].id}
<1>1. PICK x : Stored(w) = rest \cup {x}
  BY StoredRows
<1>2. rest \in SUBSET ram
  OBVIOUS
<1> HIDE DEF rest
<1>3. /\ IsFiniteSet(rest) /\ Cardinality(rest) <= Cardinality(ram)
      /\ Cardinality(ram) = Cardinality(rest) => ram = rest
  BY <1>2, FS_Subset DEF QueueBounded
<1>4. Cardinality(rest) \in Nat /\ Cardinality(ram) \in Nat /\ RamCap \in Nat
  BY <1>3, FS_CardinalityType, PipelineAssumption DEF QueueBounded
<1> DEFINE all == rest \cup {x}
<1>5. /\ IsFiniteSet(all)
      /\ Cardinality(all) \in {Cardinality(rest), Cardinality(rest) + 1}
  BY <1>3, FS_AddElement
<1> HIDE DEF all
<1>6. Stored(w) = all
  BY <1>1 DEF all
<1>7. CASE Cardinality(all) > RamCap
  <2>1. ram = rest /\ Cardinality(ram) = RamCap /\ Cardinality(all) = RamCap + 1
    BY <1>3, <1>4, <1>5, <1>7 DEF QueueBounded
  <2>2. Evicted(all) = Oldest(all)
    BY <1>7 DEF Evicted
  <2>3. Oldest(all) # {}
    <3>1. \A r \in Stored(w) : r.at \in Nat
      <4>1. stamp + 1 \in Nat /\ \A r \in ram : r.at \in Nat
        BY DEF TypeOK, Entry
      <4> QED BY <4>1 DEF Stored, RowsWithId
    <3>2. all # {}
      BY DEF all
    <3> QED BY <1>6, <3>1, <3>2, SomeOldest
  <2>4. PICK o \in all : o \in Oldest(all)
    BY <2>3 DEF Oldest
  <2>5. IsFiniteSet(all \ {o}) /\ Cardinality(all \ {o}) = RamCap
    <3>1. /\ IsFiniteSet(all \ {o})
          /\ Cardinality(all \ {o}) = Cardinality(all) - 1
      BY ONLY <1>5, <2>4, FS_RemoveElement
    <3> QED BY <1>4, <2>1, <3>1
  <2>6. all \ Oldest(all) \in SUBSET (all \ {o})
    BY <2>4
  <2>7. IsFiniteSet(all \ Oldest(all)) /\ Cardinality(all \ Oldest(all)) <= RamCap
    BY <2>5, <2>6, FS_Subset
  <2>8. ASSUME NEW r \in ram, r \in Oldest(all) PROVE r \in Oldest(ram)
    BY <2>1, <2>8 DEF Oldest, all
  <2> QED BY <1>6, <2>1, <2>2, <2>7, <2>8
<1>8. CASE ~(Cardinality(all) > RamCap)
  <2>1. Evicted(all) = {}
    BY <1>8 DEF Evicted
  <2>2. Cardinality(all) <= RamCap
    BY <1>4, <1>5, <1>8
  <2> DEFINE left == Stored(w) \ Evicted(Stored(w))
  <2>3. left = all
    BY <1>6, <2>1
  <2>4. \A r \in ram : r \notin Evicted(Stored(w))
    BY <1>6, <2>1
  <2> HIDE DEF left
  <2>5. IsFiniteSet(left) /\ Cardinality(left) <= RamCap
    BY <1>5, <2>2, <2>3
  <2> QED BY <2>4, <2>5 DEF left
<1> QED BY <1>7, <1>8

\* Every row of the database has a name of its own, given out already.
RowsNamed ==
  /\ \A r \in db : r.id <= stamp
  /\ \A r, s \in db : r.id = s.id => r = s

QueueShape == QueueNamed /\ QueueBounded

\* Rows that leave disturb nothing.
LEMMA QueueShrinks ==
  ASSUME TypeOK, QueueShape, ram' \subseteq ram, stamp' \in {stamp, stamp + 1}
  PROVE  QueueShape'
<1>1. QueueBounded'
  <2>1. ram' \in SUBSET ram
    OBVIOUS
  <2>2. IsFiniteSet(ram') /\ Cardinality(ram') <= Cardinality(ram)
    BY <2>1, FS_Subset DEF QueueShape, QueueBounded
  <2>3. Cardinality(ram') \in Nat /\ Cardinality(ram) \in Nat /\ RamCap \in Nat
    BY <2>2, FS_CardinalityType, PipelineAssumption DEF QueueShape, QueueBounded
  <2>4. Cardinality(ram') <= RamCap
    BY <2>2, <2>3 DEF QueueShape, QueueBounded
  <2> QED BY <2>2, <2>4 DEF QueueBounded
<1>2. QueueNamed'
  <2>1. ASSUME NEW r \in ram' PROVE -stamp' <= r.id
    <3>1. -stamp <= r.id /\ r.id \in Int /\ stamp \in Nat
      BY DEF TypeOK, Entry, QueueShape, QueueNamed
    <3> QED BY ONLY <3>1, stamp' \in {stamp, stamp + 1}
  <2>2. \A r, s \in ram' : r.id = s.id => r = s
    BY DEF QueueShape, QueueNamed
  <2>3. (\A r \in ram : -stamp <= r.id)'
    BY <2>1
  <2> QED BY <2>2, <2>3 DEF QueueNamed
<1> QED BY <1>1, <1>2 DEF QueueShape

LEMMA RowsShrink ==
  ASSUME TypeOK, RowsNamed, db' \subseteq db, stamp' \in {stamp, stamp + 1}
  PROVE  RowsNamed'
<1>1. ASSUME NEW r \in db' PROVE r.id <= stamp'
  <2>1. r.id <= stamp /\ r.id \in Int /\ stamp \in Nat
    BY DEF TypeOK, Entry, RowsNamed
  <2> QED BY ONLY <2>1, stamp' \in {stamp, stamp + 1}
<1>2. \A r, s \in db' : r.id = s.id => r = s
  BY DEF RowsNamed
<1>3. (\A r \in db : r.id <= stamp)'
  BY <1>1
<1> QED BY <1>2, <1>3 DEF RowsNamed

\* A row that keeps its name may be rewritten.
LEMMA QueueRewritten ==
  ASSUME TypeOK, QueueShape, NEW r \in ram, NEW x, x.id = r.id,
         ram' = (ram \ {r}) \cup {x}, stamp' = stamp
  PROVE  QueueShape'
<1>1. QueueBounded'
  <2>1. /\ IsFiniteSet(ram') /\ Cardinality(ram') <= Cardinality(ram)
        /\ Cardinality(ram) \in Nat
    BY Exchanged, FS_CardinalityType DEF QueueShape, QueueBounded
  <2>2. Cardinality(ram') \in Nat /\ RamCap \in Nat
    BY <2>1, FS_CardinalityType, PipelineAssumption
  <2> QED BY <2>1, <2>2 DEF QueueShape, QueueBounded
<1>2. QueueNamed'
  <2>1. ASSUME NEW s \in ram' PROVE -stamp' <= s.id
    BY DEF QueueShape, QueueNamed
  <2>2. ASSUME NEW s \in ram', NEW t \in ram', s.id = t.id PROVE s = t
    BY <2>2 DEF QueueShape, QueueNamed
  <2>3. (\A s \in ram : -stamp <= s.id)'
    BY <2>1
  <2> QED BY <2>2, <2>3 DEF QueueNamed
<1> QED BY <1>1, <1>2 DEF QueueShape

LEMMA RowsRewritten ==
  ASSUME RowsNamed, NEW r \in db, NEW x, x.id = r.id,
         db' = (db \ {r}) \cup {x}, stamp' = stamp
  PROVE  RowsNamed'
<1>1. ASSUME NEW s \in db' PROVE s.id <= stamp'
  BY DEF RowsNamed
<1>2. ASSUME NEW s \in db', NEW t \in db', s.id = t.id PROVE s = t
  BY <1>2 DEF RowsNamed
<1>3. (\A s \in db : s.id <= stamp)'
  BY <1>1
<1> QED BY <1>2, <1>3 DEF RowsNamed

LEMMA RowAdded ==
  ASSUME TypeOK, RowsNamed, NEW x, x.id = stamp + 1, db' = db \cup {x},
         stamp' = stamp + 1
  PROVE  RowsNamed'
<1>1. stamp \in Nat /\ \A r \in db : r.id \in Int /\ r.id <= stamp
  BY DEF TypeOK, Entry, RowsNamed
<1>2. \A r \in db : r.id # x.id
  BY ONLY <1>1, x.id = stamp + 1
<1>3. ASSUME NEW s \in db' PROVE s.id <= stamp'
  BY <1>1
<1>4. ASSUME NEW s \in db', NEW t \in db', s.id = t.id PROVE s = t
  BY <1>2, <1>4 DEF RowsNamed
<1>5. (\A s \in db : s.id <= stamp)'
  BY <1>3
<1> QED BY <1>4, <1>5 DEF RowsNamed

LEMMA WorldShapes ==
  ASSUME TypeOK, QueueShape, RowsNamed, World
  PROVE  QueueShape' /\ RowsNamed'
<1>1. CASE Tick \/ SessionCommand \/ (\E n \in Readings : OtherStatus(n)) \/ ChangePolicy
  <2>1. UNCHANGED <<ram, db, stamp>>
    BY <1>1 DEF Tick, SessionCommand, SetSession, ToggleSession, OtherStatus, ChangePolicy, stores
  <2> QED BY <2>1, QueueShrinks, RowsShrink
<1>2. ASSUME NEW r \in ram, NEW c \in Contents, NEW p \in BOOLEAN, EditRam(r, c, p)
      PROVE  QueueShape' /\ RowsNamed'
  <2> DEFINE x == [r EXCEPT !.content = c, !.prot = p]
  <2>1. ram' = (ram \ {r}) \cup {x} /\ UNCHANGED <<db, stamp>>
    BY <1>2, Zenon DEF EditRam
  <2>2. x.id = r.id
    <3>1. r \in Entry
      BY DEF TypeOK
    <3> QED BY <3>1, Zenon DEF Entry
  <2> HIDE DEF x
  <2> QED BY <2>1, <2>2, QueueRewritten, RowsShrink
<1>3. ASSUME NEW r \in db, MarkRow(r)
      PROVE  QueueShape' /\ RowsNamed'
  <2> DEFINE x == [r EXCEPT !.prot = ~@]
  <2>1. db' = (db \ {r}) \cup {x} /\ UNCHANGED <<ram, stamp>>
    BY <1>3, Zenon DEF MarkRow
  <2>2. x.id = r.id
    <3>1. r \in Entry
      BY DEF TypeOK
    <3> QED BY <3>1, Zenon DEF Entry
  <2> HIDE DEF x
  <2> QED BY <2>1, <2>2, QueueShrinks, RowsRewritten
<1>4. ASSUME NEW r, DeleteRow(r) \/ DeleteRam(r)
      PROVE  QueueShape' /\ RowsNamed'
  <2>1. ram' \subseteq ram /\ db' \subseteq db /\ stamp' = stamp
    BY <1>4 DEF DeleteRow, DeleteRam
  <2> QED BY <2>1, QueueShrinks, RowsShrink
<1>5. ASSUME NEW r \in ram, PersistRam(r)
      PROVE  QueueShape' /\ RowsNamed'
  <2> DEFINE x == [r EXCEPT !.id = stamp + 1, !.at = stamp + 1]
  <2>1. db' = db \cup {x} /\ ram' \subseteq ram /\ stamp' = stamp + 1
    BY <1>5, Zenon DEF PersistRam
  <2>2. x.id = stamp + 1
    <3>1. r \in Entry
      BY DEF TypeOK
    <3> QED BY <3>1, Zenon DEF Entry
  <2> HIDE DEF x
  <2> QED BY <2>1, <2>2, QueueShrinks, RowAdded
<1> QED BY <1>1, <1>2, <1>3, <1>4, <1>5 DEF World

\* What the capture's transaction writes.
LEMMA CommitGives ==
  ASSUME TypeOK, NEW w \in Workers, Commit(w), ~GiveUp(w)
  PROVE  \E x : /\ x.id = IF cap[w].id = 0 THEN stamp + 1 ELSE cap[w].id
                /\ db' = (db \ RowsWithId(db, cap[w].id)) \cup {x}
                /\ cap[w].id # 0 => cap[w].id \in Ids(db)
                /\ \A r \in RowsWithId(db, cap[w].id) : r.prot => x.prot
                /\ stamp' = stamp + 1
<1> PICK n \in Readings, found \in Findings(cap[w].content) :
      LET prot == cap[w].prot \/ found
          old  == RowsWithId(db, cap[w].id)
          new  == [id |-> IF cap[w].id = 0 THEN stamp + 1 ELSE cap[w].id,
                   content |-> cap[w].content, prot |-> prot, at |-> stamp + 1] IN
      /\ CommitAllowed(w, n, prot)
      /\ db' = (db \ old) \cup {new}
      /\ stamp' = stamp + 1
  BY Zenon DEF Commit
<1> DEFINE prot == cap[w].prot \/ found
           x == [id |-> IF cap[w].id = 0 THEN stamp + 1 ELSE cap[w].id,
                 content |-> cap[w].content, prot |-> prot, at |-> stamp + 1]
<1>1. /\ CommitAllowed(w, n, prot)
      /\ db' = (db \ RowsWithId(db, cap[w].id)) \cup {x}
      /\ stamp' = stamp + 1
  BY Zenon
<1> HIDE DEF prot
<1>2. x.prot = prot /\ x.id = IF cap[w].id = 0 THEN stamp + 1 ELSE cap[w].id
  BY Zenon
<1> HIDE DEF x
<1>3. /\ cap[w].id # 0 => cap[w].id \in Ids(db)
      /\ \A r \in RowsWithId(db, cap[w].id) : r.prot => x.prot
  BY <1>1, <1>2, Zenon DEF CommitAllowed
<1> QED BY <1>1, <1>2, <1>3, Zenon

\* The transaction writes over the row it names, or under a new name.
LEMMA CommitShapes ==
  ASSUME TypeOK, RowsNamed, NEW w \in Workers, Commit(w), ~GiveUp(w)
  PROVE  RowsNamed'
<1> DEFINE i == cap[w].id
<1>1. PICK x : /\ x.id = IF i = 0 THEN stamp + 1 ELSE i
               /\ db' = (db \ RowsWithId(db, i)) \cup {x}
               /\ i # 0 => i \in Ids(db)
               /\ stamp' = stamp + 1
  BY CommitGives
<1>2. stamp \in Nat /\ \A r \in db : r.id \in Int /\ r.id <= stamp
  BY DEF TypeOK, Entry, RowsNamed
<1>3. x.id <= stamp' /\ x.id \in Int
  BY <1>1, <1>2 DEF Ids
<1>4. \A r \in db : r \in db' => r = x \/ r.id # x.id
  BY <1>1, <1>2 DEF RowsWithId
<1>5. ASSUME NEW s \in db' PROVE s.id <= stamp'
  <2>1. s = x \/ (s.id <= stamp /\ s.id \in Int)
    BY <1>1, <1>2
  <2> QED BY <1>1, <1>2, <1>3, <2>1
<1>6. ASSUME NEW s \in db', NEW t \in db', s.id = t.id PROVE s = t
  <2>1. s \in db \cup {x} /\ t \in db \cup {x}
    BY <1>1
  <2> QED BY <1>4, <1>6, <2>1 DEF RowsNamed
<1>7. (\A s \in db : s.id <= stamp)'
  BY <1>5
<1> QED BY <1>6, <1>7 DEF RowsNamed

LEMMA WorkerShapes ==
  ASSUME TypeOK, QueueShape, RowsNamed, ScanInv, EraInv, NEW w \in Workers, WorkerStep(w)
  PROVE  QueueShape' /\ RowsNamed' /\ ScanInv'
<1>1. \A v \in Workers : v # w => Alike(v)
  BY OnlyOwnLocals DEF Quiet, Alike
<1>2. Era(w)
  BY DEF EraInv
<1>3. row' = row \/ row'.epoch = row.epoch + 1
  BY WorkerFrame DEF Surroundings
<1>4. stamp \in Nat
  BY DEF TypeOK
<1>5. CASE ScanRam(w)
  <2>1. UNCHANGED <<ram, stamp, db>>
    BY <1>5, ScanFinds
  <2> QED BY <1>1, <1>5, <2>1, ScanKeeps, QueueShrinks, RowsShrink DEF QueueShape
<1>6. CASE NameEntry(w) /\ ~GiveUp(w)
  <2>1. UNCHANGED <<ram, db>> /\ stamp' \in {stamp, stamp + 1}
    BY <1>6, NamingGives
  <2> QED BY <1>1, <1>6, <2>1, NameKeeps, QueueShrinks, RowsShrink DEF QueueShape
<1>7. CASE PublishSession(w) /\ ~GiveUp(w)
  <2>1. ram' = Stored(w) \ Evicted(Stored(w)) /\ db' = db /\ stamp' = stamp + 1
    BY <1>7, PublishingGives
  <2>2. QueueBounded'
    BY <2>1, PushBounded DEF QueueShape, QueueBounded
  <2>3. ScanInv' /\ QueueNamed'
    BY <1>1, <1>7, PublishKeeps DEF QueueShape
  <2>4. RowsNamed'
    BY <2>1, RowsShrink
  <2> QED BY <2>2, <2>3, <2>4 DEF QueueShape
<1>8. CASE /\ Settled(w) /\ ram' \subseteq ram /\ stamp' \in {stamp, stamp + 1}
           /\ ~(NameEntry(w) /\ ~GiveUp(w)) /\ ~(PublishSession(w) /\ ~GiveUp(w))
  <2>1. Ids(ram') \subseteq Ids(ram)
    BY <1>8 DEF Ids
  <2>2. \A v \in Workers : Settled(v)
    BY <1>1, <1>8 DEF Settled
  <2>3. stamp' \in Nat /\ stamp <= stamp'
    BY <1>4, <1>8
  <2>4. (row'.epoch = row.epoch /\ ram' \subseteq ram) \/ row'.epoch = row.epoch + 1
    BY <1>3, <1>8
  <2>5. ScanInv'
    BY <2>1, <2>2, <2>3, <2>4, SettledKeeps
  <2>6. QueueShape'
    BY <1>8, QueueShrinks
  <2>7. RowsNamed'
    <3>1. CASE Commit(w) /\ ~GiveUp(w)
      BY <3>1, CommitShapes
    <3>2. CASE Commit(w) /\ GiveUp(w)
      <4>1. ~Pass(w, "trim")
        <5>1. GiveUp(w) => stage'[w] = "idle"
          BY DEF GiveUp, Move, TypeOK
        <5> QED BY <3>2, <5>1, PassMoves
      <4>2. db' = db
        BY <3>2, <4>1, Zenon DEF Commit
      <4> QED BY <1>8, <4>2, RowsShrink
    <3>3. CASE ~Commit(w)
      <4>1. db' \subseteq db
        BY <3>3 DEF WorkerStep, Begin, StatusPeek, StatusExpire, TakeTicket, Read, ReadNothing,
           Generated, CheckCapture, Classify, Prepare, FindDuplicate, ScanRam, Trim,
           PublishPersistent, NameEntry, PublishSession, Emit, stores
      <4> QED BY <1>8, <4>1, RowsShrink
    <3> QED BY <3>1, <3>2, <3>3
  <2> QED BY <2>5, <2>6, <2>7
<1> QED BY <1>2, <1>5, <1>6, <1>7, <1>8, StepKinds

\* The inductive invariant of the rows.
RowsInv == IInv /\ QueueShape /\ RowsNamed /\ ScanInv

THEOREM RowsInvariant == Spec => []RowsInv
<1>1. Init => RowsInv
  <2> SUFFICES ASSUME Init PROVE RowsInv
    OBVIOUS
  <2>1. QueueShape
    <3>1. IsFiniteSet(ram) /\ Cardinality(ram) = 0
      BY FS_EmptySet DEF Init
    <3> QED BY <3>1, PipelineAssumption DEF Init, QueueShape, QueueNamed, QueueBounded
  <2>2. ScanInv /\ RowsNamed
    BY DEF Init, ScanInv, Known, FindsHold, Current, Scanned, Named, RowsNamed
  <2> QED BY <2>1, <2>2, InitInvariant DEF RowsInv
<1>2. RowsInv /\ [Next]_vars => RowsInv'
  <2> SUFFICES ASSUME RowsInv, [Next]_vars PROVE RowsInv'
    OBVIOUS
  <2>1. IInv' /\ IInv /\ TypeOK /\ EraInv
    BY NextInvariant DEF RowsInv, IInv
  <2>2. CASE World
    <3>1. stamp' \in Nat /\ stamp <= stamp'
      <4>1. stamp \in Nat
        BY <2>1 DEF TypeOK
      <4> QED BY <2>1, <2>2, <4>1, WorldSettles
    <3>2. ScanInv'
      BY <2>1, <2>2, <3>1, WorldSettles, SettledKeeps DEF RowsInv
    <3> QED BY <2>1, <2>2, <3>2, WorldShapes DEF RowsInv
  <2>3. CASE \E w \in Workers : WorkerStep(w)
    BY <2>1, <2>3, WorkerShapes DEF RowsInv
  <2>4. CASE UNCHANGED vars
    <3>1. UNCHANGED <<row, db, ram, stamp, stage, cap>>
      BY <2>4 DEF vars, stores, locals
    <3>2. ScanInv' /\ QueueShape' /\ RowsNamed'
      <4>1. stamp' \in Nat /\ stamp <= stamp'
        BY <2>1, <3>1 DEF TypeOK
      <4>2. Ids(ram') \subseteq Ids(ram) /\ \A v \in Workers : Settled(v)
        BY <3>1 DEF Settled, Alike
      <4> QED BY <2>1, <3>1, <4>1, <4>2, SettledKeeps, QueueShrinks, RowsShrink DEF RowsInv
    <3> QED BY <2>1, <3>2 DEF RowsInv
  <2> QED BY <2>2, <2>3, <2>4 DEF Next
<1> QED BY <1>1, <1>2, PTL DEF Spec

\* Only the guarded push puts a row in the queue, only the transaction one in
\* the database.
LEMMA StoringSteps ==
  ASSUME IInv, [Next]_vars, NEW w \in Workers
  PROVE  /\ StoresRow(w) => Commit(w) /\ ~GiveUp(w)
         /\ StoresRam(w) => PublishSession(w) /\ ~GiveUp(w)
<1> SUFFICES ASSUME StoresRow(w) \/ StoresRam(w)
             PROVE  /\ StoresRow(w) => Commit(w) /\ ~GiveUp(w)
                    /\ StoresRam(w) => PublishSession(w) /\ ~GiveUp(w)
  OBVIOUS
<1>1. stage'[w] # stage[w] /\ stage[w] # "idle"
  BY DEF StoresRow, StoresRam
<1>2. ASSUME World PROVE FALSE
  BY <1>1, <1>2, WorldFrame DEF IInv, Quiet
<1>3. ASSUME NEW v \in Workers, v # w, WorkerStep(v) PROVE FALSE
  BY <1>1, <1>3, OnlyOwnLocals DEF IInv, Quiet
<1>4. WorkerStep(w)
  BY <1>1, <1>2, <1>3 DEF Next, vars, locals
<1>5. ASSUME NEW to, Pass(w, to) PROVE stage'[w] = to
  BY <1>5, PassMoves DEF IInv
<1>6. ~GiveUp(w)
  <2>1. GiveUp(w) => stage'[w] = "idle"
    BY DEF GiveUp, Move, IInv, TypeOK
  <2> QED BY <2>1 DEF StoresRow, StoresRam
<1>7. StatusExpire(w) => stage' = stage
  BY Zenon DEF StatusExpire
<1>8. StoresRow(w) => Commit(w)
  BY <1>1, <1>4, <1>7
  DEF StoresRow, WorkerStep, Begin, StatusPeek, StatusStages, TakeTicket, Read,
      ReadNothing, Generated, CheckCapture, Classify, Prepare, FindDuplicate,
      ScanRam, Trim, PublishPersistent, NameEntry, PublishSession, Emit
<1>9. StoresRam(w) => PublishSession(w)
  BY <1>1, <1>4, <1>7
  DEF StoresRam, WorkerStep, Begin, StatusPeek, StatusStages, TakeTicket, Read,
      ReadNothing, Generated, CheckCapture, Classify, Prepare, FindDuplicate,
      ScanRam, Commit, Trim, PublishPersistent, NameEntry, Emit
<1> QED BY <1>6, <1>8, <1>9

\* A capture never makes a protected row of the database ordinary.
THEOREM ProtectedRowsStay == Spec => ProtectedRowKept
<1>1. ASSUME RowsInv, [Next]_vars, NEW w \in Workers, StoresRow(w),
             NEW r \in db, NEW s \in db', r.id = s.id, r.prot
      PROVE  s.prot
  <2> DEFINE i == cap[w].id
  <2>1. TypeOK /\ RowsNamed /\ Commit(w) /\ ~GiveUp(w)
    BY <1>1, StoringSteps DEF RowsInv, IInv
  <2>2. PICK x : /\ x.id = IF i = 0 THEN stamp + 1 ELSE i
                 /\ db' = (db \ RowsWithId(db, i)) \cup {x}
                 /\ \A q \in RowsWithId(db, i) : q.prot => x.prot
    BY <2>1, CommitGives
  <2>3. r.id <= stamp /\ r.id \in Int /\ stamp \in Nat
    BY <2>1 DEF TypeOK, Entry, RowsNamed
  <2>4. CASE s \in db
    BY <1>1, <2>1, <2>4 DEF RowsNamed
  <2>5. CASE s = x
    <3>1. i # 0
      BY <1>1, <2>2, <2>3, <2>5
    <3>2. r \in RowsWithId(db, i)
      BY <1>1, <2>2, <2>5, <3>1 DEF RowsWithId
    <3> QED BY <1>1, <2>2, <2>5, <3>2
  <2> QED BY <2>2, <2>4, <2>5
<1>2. RowsInv /\ [Next]_vars =>
        [\A w \in Workers : StoresRow(w) =>
           \A r \in db, s \in db' : r.id = s.id /\ r.prot => s.prot]_vars
  BY <1>1
<1> QED BY <1>2, RowsInvariant, PTL DEF Spec, ProtectedRowKept

\* A session-only capture takes out of the queue only what it duplicates, or the
\* front of a full queue: never a row the user edited after its scan.
THEOREM EditedRowsStay == Spec => EditedRamKept
<1>1. ASSUME RowsInv, [Next]_vars, NEW w \in Workers, StoresRam(w), NEW r \in ram \ ram'
      PROVE  \/ r.content = cap[w].content
             \/ r \in Oldest(ram) /\ Cardinality(ram) = RamCap
  <2>1. TypeOK /\ ScanInv /\ QueueBounded /\ PublishSession(w) /\ ~GiveUp(w)
    BY <1>1, StoringSteps DEF RowsInv, IInv, QueueShape
  <2>2. /\ stage[w] = "publish" /\ ~cap[w].persistent /\ cap[w].ticket = row.epoch
        /\ ram' = Stored(w) \ Evicted(Stored(w))
    BY <2>1, PublishingGives
  <2>3. Scanned(w) /\ Current(w) /\ Known(w) /\ FindsHold(w)
    BY <2>1, <2>2 DEF Scanned, Current, ScanInv
  <2>4. CASE r \in Evicted(Stored(w))
    BY <2>1, <2>4, PushBounded
  <2>5. CASE r \notin Stored(w)
    <3>1. r.id \in cap[w].removals \/ r.id = cap[w].id
      BY <2>5, StoredRows
    <3>2. r.id \in cap[w].removals
      <4>1. CASE cap[w].reused
        BY <2>3, <3>1, <4>1 DEF Known
      <4>2. CASE ~cap[w].reused
        <5>1. cap[w].id \notin Ids(ram)
          BY <2>2, <2>3, <4>2 DEF Known, Named
        <5> QED BY <3>1, <5>1 DEF Ids
      <4> QED BY <4>1, <4>2
    <3> QED BY <2>3, <3>2 DEF FindsHold
  <2> QED BY <2>2, <2>4, <2>5
<1>2. RowsInv /\ [Next]_vars =>
        [\A w \in Workers : StoresRam(w) =>
           \A r \in ram \ ram' :
             \/ r.content = cap[w].content
             \/ r \in Oldest(ram) /\ Cardinality(ram) = RamCap]_vars
  BY <1>1
<1> QED BY <1>2, RowsInvariant, PTL DEF Spec, EditedRamKept

-----------------------------------------------------------------------------
\* Removals

\* Announced, or in the hands of a worker about to announce it.
Accounted(i) ==
  \/ i \in Ids(ram) \cup announced
  \/ \E w \in Workers : stage[w] = "emit" /\ i \in cap[w].removals

\* What is enough for a step that shows nothing new.
LEMMA StillAccounted ==
  ASSUME RemovalsAnnounced, shown' = shown, announced \subseteq announced',
         \A v \in Workers : stage[v] = "emit" =>
           Quiet(v) \/ cap[v].removals \subseteq announced',
         \A i \in Ids(ram) : Accounted(i)'
  PROVE  RemovalsAnnounced'
<1>1. ASSUME NEW i \in shown' PROVE Accounted(i)'
  <2>1. CASE i \in Ids(ram)
    BY <2>1
  <2>2. CASE i \in announced
    BY <2>2 DEF Accounted
  <2>3. CASE \E v \in Workers : stage[v] = "emit" /\ i \in cap[v].removals
    BY <2>3 DEF Accounted, Quiet
  <2> QED BY <2>1, <2>2, <2>3 DEF RemovalsAnnounced
<1> QED BY <1>1 DEF RemovalsAnnounced, Accounted

\* In the queue, or announced.
LEMMA StaysAccounted ==
  ASSUME NEW i \in Ids(ram') \cup announced'
  PROVE  Accounted(i)'
  BY DEF Accounted

LEMMA WorldAnnounces ==
  ASSUME TypeOK, RemovalsAnnounced, World
  PROVE  RemovalsAnnounced'
<1>1. \A v \in Workers : Quiet(v)
  BY WorldFrame
<1>2. ASSUME UNCHANGED <<ram, shown, announced>> PROVE RemovalsAnnounced'
  BY <1>1, <1>2, StillAccounted, StaysAccounted
<1>3. CASE Tick \/ SessionCommand \/ (\E n \in Readings : OtherStatus(n)) \/ ChangePolicy
           \/ (\E r \in db : MarkRow(r) \/ DeleteRow(r))
  <2>1. UNCHANGED <<ram, shown, announced>>
    BY <1>3 DEF Tick, SessionCommand, SetSession, ToggleSession, OtherStatus, ChangePolicy,
       MarkRow, DeleteRow, stores
  <2> QED BY <1>2, <2>1
<1>4. ASSUME NEW r \in ram, NEW c \in Contents, NEW p \in BOOLEAN, EditRam(r, c, p)
      PROVE  RemovalsAnnounced'
  <2> DEFINE x == [r EXCEPT !.content = c, !.prot = p]
  <2>1. ram' = (ram \ {r}) \cup {x} /\ UNCHANGED <<shown, announced>>
    BY <1>4, Zenon DEF EditRam
  <2>2. x.id = r.id
    <3>1. r \in Entry
      BY DEF TypeOK
    <3> QED BY <3>1, Zenon DEF Entry
  <2> HIDE DEF x
  <2>3. Ids(ram) \subseteq Ids(ram')
    BY <2>1, <2>2 DEF Ids
  <2> QED BY <1>1, <2>1, <2>3, StillAccounted, StaysAccounted
<1>5. ASSUME NEW r \in ram, DeleteRam(r) \/ PersistRam(r)
      PROVE  RemovalsAnnounced'
  <2>1. ram' = ram \ {r} /\ announced' = announced \cup {r.id} /\ shown' = shown
    BY <1>5, Zenon DEF DeleteRam, PersistRam
  <2>2. Ids(ram) \subseteq Ids(ram') \cup announced'
    BY <2>1 DEF Ids
  <2> QED BY <1>1, <2>1, <2>2, StillAccounted, StaysAccounted
<1> QED BY <1>3, <1>4, <1>5 DEF World

LEMMA WorkerAnnounces ==
  ASSUME TypeOK, RemovalsAnnounced, NEW w \in Workers, WorkerStep(w)
  PROVE  RemovalsAnnounced'
<1>1. \A v \in Workers : v # w => Quiet(v)
  BY OnlyOwnLocals
<1>2. ASSUME NEW to, Pass(w, to) PROVE stage'[w] = to
  BY <1>2, PassMoves
<1>3. GiveUp(w) => stage'[w] = "idle"
  BY DEF GiveUp, Move, TypeOK
<1>4. CASE PublishPersistent(w)
  <2>1. /\ ram' = {r \in ram : r.id \notin cap[w].removals}
        /\ stage[w] = "publish" /\ stage'[w] = "emit"
        /\ UNCHANGED <<cap, shown, announced>>
    BY <1>2, <1>4 DEF PublishPersistent
  <2>2. ASSUME NEW i \in Ids(ram) PROVE Accounted(i)'
    <3>1. CASE i \in cap[w].removals
      BY <2>1, <3>1 DEF Accounted
    <3>2. CASE i \notin cap[w].removals
      BY <2>1, <3>2 DEF Accounted, Ids
    <3> QED BY <3>1, <3>2
  <2> QED BY <1>1, <2>1, <2>2, StillAccounted
<1>5. CASE PublishSession(w) /\ ~GiveUp(w)
  <2> DEFINE out == Evicted(Stored(w))
  <2>1. /\ stage[w] = "publish" /\ stage'[w] = "emit"
        /\ ram' = Stored(w) \ out /\ shown' = shown \cup {cap[w].id}
        /\ cap'[w].removals = RemovedIds(w, out)
        /\ announced' = announced
    BY <1>5, PublishingGives
  <2>2. PICK x : /\ x.id = cap[w].id
                 /\ Stored(w) = {r \in ram : r.id \notin cap[w].removals /\ r.id # cap[w].id}
                                \cup {x}
    BY StoredRows
  <2> HIDE DEF out
  <2>3. PICK j : j = cap[w].id
    OBVIOUS
  <2>4. ASSUME NEW y \in Stored(w) PROVE Accounted(y.id)'
    <3>1. CASE y \in out
      <4>1. y.id \in cap'[w].removals
        BY <2>1, <3>1 DEF RemovedIds, Ids
      <4> QED BY <2>1, <4>1 DEF Accounted
    <3>2. CASE y \notin out
      <4>1. y.id \in Ids(ram')
        BY <2>1, <3>2 DEF Ids
      <4> QED BY <4>1 DEF Accounted
    <3> QED BY <3>1, <3>2
  <2>5. Accounted(j)'
    <3>1. Accounted(x.id)'
      BY <2>2, <2>4, <2>3
    <3>2. CASE x \in out
      <4>1. j \in cap'[w].removals
        BY <2>1, <2>2, <2>3, <3>2 DEF RemovedIds, Ids
      <4> QED BY <2>1, <4>1 DEF Accounted
    <3>3. CASE x \notin out
      <4>1. j \in Ids(ram')
        BY <2>1, <2>2, <2>3, <3>3 DEF Ids
      <4> QED BY <4>1 DEF Accounted
    <3> QED BY <3>2, <3>3
  <2>6. ASSUME NEW i \in Ids(ram) PROVE Accounted(i)'
    <3>1. PICK r \in ram : r.id = i
      BY DEF Ids
    <3>2. CASE i = cap[w].id
      BY <2>5, <2>3, <3>2
    <3>3. CASE i # cap[w].id /\ i \in cap[w].removals
      <4>1. i \in cap'[w].removals
        BY <2>1, <3>3 DEF RemovedIds
      <4> QED BY <2>1, <4>1 DEF Accounted
    <3>4. CASE i # cap[w].id /\ i \notin cap[w].removals
      BY <2>2, <2>4, <3>1, <3>4
    <3> QED BY <3>2, <3>3, <3>4
  <2>7. ASSUME NEW i \in shown PROVE Accounted(i)'
    <3>1. CASE i \in Ids(ram)
      BY <2>6, <3>1
    <3>2. CASE i \in announced
      BY <2>1, <3>2 DEF Accounted
    <3>3. CASE \E v \in Workers : stage[v] = "emit" /\ i \in cap[v].removals
      BY <1>1, <2>1, <3>3 DEF Accounted, Quiet
    <3> QED BY <3>1, <3>2, <3>3 DEF RemovalsAnnounced
  <2>8. \A i \in shown' : Accounted(i)'
    BY <2>1, <2>5, <2>7, <2>3
  <2> QED BY <2>8 DEF RemovalsAnnounced, Accounted
<1>6. CASE Emit(w)
  <2>1. announced' = announced \cup cap[w].removals /\ UNCHANGED <<ram, shown>>
    BY <1>6 DEF Emit
  <2> QED BY <1>1, <2>1, StillAccounted, StaysAccounted
<1>7. CASE ~PublishPersistent(w) /\ ~(PublishSession(w) /\ ~GiveUp(w)) /\ ~Emit(w)
  <2>1. UNCHANGED <<ram, shown, announced>> /\ (stage[w] # "emit" \/ StatusExpire(w))
    <3>1. CASE PublishSession(w)
      <4>1. ~Pass(w, "emit")
        BY <1>2, <1>3, <1>7, <3>1
      <4> QED BY <3>1, <4>1, Zenon DEF PublishSession
    <3>3. CASE StatusExpire(w)
      BY <3>3, Zenon DEF StatusExpire, stores
    <3>4. CASE ~PublishSession(w) /\ ~StatusExpire(w)
      BY <1>7, <3>4 DEF WorkerStep, Begin, StatusPeek, StatusStages, TakeTicket, Read,
         ReadNothing, Generated, CheckCapture, Classify, Prepare, FindDuplicate, ScanRam,
         Commit, Trim, NameEntry, stores
    <3> QED BY <3>1, <3>3, <3>4
  <2>2. StatusExpire(w) => Quiet(w)
    BY Zenon DEF StatusExpire, Quiet
  <2> QED BY <1>1, <2>1, <2>2, StillAccounted, StaysAccounted
<1> QED BY <1>4, <1>5, <1>6, <1>7

\* Whatever leaves the queue is announced.
THEOREM RemovalsAreAnnounced == Spec => []RemovalsAnnounced
<1>1. Init => RemovalsAnnounced
  BY DEF Init, RemovalsAnnounced
<1>2. IInv /\ RemovalsAnnounced /\ [Next]_vars => RemovalsAnnounced'
  <2> SUFFICES ASSUME IInv, RemovalsAnnounced, [Next]_vars PROVE RemovalsAnnounced'
    OBVIOUS
  <2>1. CASE UNCHANGED vars
    BY <2>1 DEF vars, stores, locals, RemovalsAnnounced
  <2> QED BY <2>1, WorldAnnounces, WorkerAnnounces DEF Next, IInv
<1> QED BY <1>1, <1>2, Invariant, PTL DEF Spec
=============================================================================
