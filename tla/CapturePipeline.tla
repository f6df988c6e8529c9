--------------------------- MODULE CapturePipeline ---------------------------
(***************************************************************************)
(* Automatic capture, from the notification to the history, while the      *)
(* rest of the world moves: CaptureEngine::read_authorized and process     *)
(* (services/capture/engine.rs) over the SQLite store (store.rs,           *)
(* clipboard_repo.rs) and the in-memory queue (api/session_history.rs).    *)
(*                                                                         *)
(* A worker is a thread inside process() or the notification callback:     *)
(* the host's processor thread and each request that captures generated    *)
(* text.  Every action below is one stretch of code that runs under one    *)
(* lock or in one transaction; between two actions of a worker anything    *)
(* may happen.  The database is also written by other processes, which     *)
(* share no mutex with this one, so the host's connection mutex orders     *)
(* nothing the actions rely on and is left out.                            *)
(***************************************************************************)
EXTENDS PrivacyState, FiniteSets

CONSTANTS
  Workers,     \* threads that may be capturing at once
  Contents,    \* payloads, told apart only by equality
  Detectable,  \* those the content scan protects, when its budget lasts
  Durations,   \* session lengths a command may ask for
  RamCap,      \* rows the in-memory queue keeps (500 in the code)
  HistoryLimit,\* app.persistent_limit
  Deduplicate, \* the deduplication setting
  MaxClock,    \* bound: the last instant of the clock
  MaxEpoch,    \* bound: privacy epochs
  MaxCaptures, \* bound: captures started
  MaxEdits     \* bound: user edits that leave the epoch alone

ASSUME PipelineAssumption ==
  /\ RamCap \in Nat \ {0} /\ HistoryLimit \in Nat \ {0}
  /\ MaxClock \in Nat /\ MaxEpoch \in Nat
  /\ MaxCaptures \in Nat /\ MaxEdits \in Nat
  /\ Durations \subseteq Nat \ {0} /\ Deduplicate \in BOOLEAN
  /\ Contents # {} /\ Detectable \subseteq Contents

VARIABLES
  clock,     \* wall clock
  row,       \* privacy_runtime_state
  excluded,  \* the stored policy excludes the application in front
  db,        \* clipboard_history
  ram,       \* SessionHistoryStore rows
  stamp,     \* source of identities and of "moved to the top" order
  stage,     \* where each worker is
  phase,     \* which step of status() it is in
  cap,       \* what each worker carries
  announced, \* RAM identities an EntryDeleted event has named
  shown,     \* RAM identities ever put in the queue
  started, edits,
  spoiled    \* history: a session was active since the worker's ticket

stores == <<db, ram, stamp, announced, shown>>
locals == <<stage, phase, cap>>
vars == <<clock, row, excluded, stores, locals, started, edits, spoiled>>

-----------------------------------------------------------------------------
\* Positive identities are rows of the database, negative ones of the queue.
\* "at" orders rows: oldest first.
Entry == [id : Int, content : Contents, prot : BOOLEAN, at : Nat]

NoTicket == -1

\* What the scan of a payload may find: its budget can run out first.
Findings(c) == IF c \in Detectable THEN BOOLEAN ELSE {FALSE}

\* A worker's locals: its frame and, as it goes, the ticket, the reading of
\* the clock, whether the settings ask for persistence, the row find_duplicate
\* named, what the scan of the queue found, and the identity it stores under.
NoContent == "none"
NullCap == [content |-> NoContent, prot |-> FALSE,
            ticket |-> NoTicket, now |-> 0, persistent |-> FALSE,
            id |-> 0, reused |-> FALSE, removals |-> {}]

CapType == [content : Contents \cup {NoContent}, prot : BOOLEAN, ticket : Nat \cup {NoTicket},
            now : Nat, persistent : BOOLEAN, id : Int, reused : BOOLEAN,
            removals : SUBSET Int]

StatusStages == {"ticket", "recheck", "process", "prepare", "ramcheck"}
Stages == StatusStages \cup
  {"idle", "read", "source", "dedup", "scan", "commit", "trim", "publish", "emit"}

HasTicket(w) == cap[w].ticket # NoTicket

Ids(S) == {r.id : r \in S}
RowsWithId(S, i) == {r \in S : r.id = i}
Oldest(S) == {r \in S : \A s \in S : r.at <= s.at}
\* The rows no limit spares: all but the k newest.
BeyondNewest(S, k) == {r \in S : Cardinality({s \in S : s.at > r.at}) >= k}

\* The clock is read before the lock is taken, and it is a wall clock: any
\* earlier instant may be the one a step works with.
Readings == 0 .. clock

\* Keeps the history variable: called by every action that moves the row or
\* the clock.
Witness == spoiled' = [w \in Workers |->
  spoiled[w] \/ (HasTicket(w) /\ ActiveAt(row', clock'))]

-----------------------------------------------------------------------------
Init ==
  /\ clock = 0
  /\ row \in {OffRow, OnRow}
  /\ excluded = FALSE
  /\ db = {} /\ ram = {} /\ stamp = 0
  /\ stage = [w \in Workers |-> "idle"]
  /\ phase = [w \in Workers |-> "peek"]
  /\ cap = [w \in Workers |-> NullCap]
  /\ announced = {} /\ shown = {}
  /\ started = 0 /\ edits = 0
  /\ spoiled = [w \in Workers |-> FALSE]

Move(w, to) == stage' = [stage EXCEPT ![w] = to]

Carry(w, k) == cap' = [cap EXCEPT ![w] = k]

\* Every early return: the worker drops its frame and its ticket.
GiveUp(w) ==
  /\ Move(w, "idle")
  /\ phase' = [phase EXCEPT ![w] = "peek"]
  /\ Carry(w, NullCap)

-----------------------------------------------------------------------------
\* The world.

Tick ==
  /\ clock < MaxClock
  /\ clock' = clock + 1
  /\ UNCHANGED <<row, excluded, stores, locals, started, edits>>
  /\ Witness

RowStep(new) ==
  /\ row.epoch < MaxEpoch
  /\ row' = new
  /\ UNCHANGED <<clock, locals, started, edits>>
  /\ Witness

\* set_session() and toggle(), by this process or another
SetSession(on, end) ==
  RowStep(SetTx(row, on, end)) /\ UNCHANGED <<excluded, stores>>

ToggleSession(n) ==
  RowStep(ToggleTx(row, n)) /\ UNCHANGED <<excluded, stores>>

SessionCommand ==
  \/ SetSession(FALSE, NoEnd)
  \/ SetSession(TRUE, NoEnd)
  \/ \E n \in Readings, d \in Durations : SetSession(TRUE, n + d)
  \/ \E n \in Readings : ToggleSession(n)

\* status() of anybody else reaching its transaction
OtherStatus(n) ==
  RowStep(ExpireTx(row, n)) /\ UNCHANGED <<excluded, stores>>

\* A write of the excluded applications: the settings trigger moves the epoch.
ChangePolicy ==
  /\ RowStep(Bump(row))
  /\ excluded' = ~excluded
  /\ UNCHANGED stores

\* update_session_manual_authorized, feedback_for_session: the queue's lock is
\* held across the transaction, which moves the epoch.
EditRam(r, c, p) ==
  /\ RowStep(Bump(row))
  /\ ram' = (ram \ {r}) \cup {[r EXCEPT !.content = c, !.prot = p]}
  /\ UNCHANGED <<excluded, db, stamp, announced, shown>>

\* Tagging a database row sensitive, or lifting the tag: the visibility trigger
\* moves the epoch.
MarkRow(r) ==
  /\ RowStep(Bump(row))
  /\ db' = (db \ {r}) \cup {[r EXCEPT !.prot = ~@]}
  /\ UNCHANGED <<excluded, ram, stamp, announced, shown>>

QuietEdit ==
  /\ edits < MaxEdits
  /\ edits' = edits + 1
  /\ UNCHANGED <<clock, row, excluded, locals, started, spoiled>>

DeleteRow(r) ==
  /\ QuietEdit
  /\ db' = db \ {r}
  /\ UNCHANGED <<ram, stamp, announced, shown>>

\* mutate_inner, delete of a negative identity; EntryDeleted, published right
\* after the unlock, is part of the step here and in PersistRam.
DeleteRam(r) ==
  /\ QuietEdit
  /\ ram' = ram \ {r}
  /\ announced' = announced \cup {r.id}
  /\ UNCHANGED <<db, stamp, shown>>

\* mutate_inner, pin or tags on a negative identity: the row moves to the
\* database and leaves the queue, under the queue's lock.
PersistRam(r) ==
  /\ QuietEdit
  /\ stamp' = stamp + 1
  /\ db' = db \cup {[r EXCEPT !.id = stamp + 1, !.at = stamp + 1]}
  /\ ram' = ram \ {r}
  /\ announced' = announced \cup {r.id}
  /\ UNCHANGED shown

World ==
  \/ Tick
  \/ SessionCommand
  \/ \E n \in Readings : ExpiredAt(row, n) /\ OtherStatus(n)
  \/ ChangePolicy
  \/ \E r \in ram, c \in Contents, p \in BOOLEAN : EditRam(r, c, p)
  \/ \E r \in ram : DeleteRam(r) \/ PersistRam(r)
  \/ \E r \in db : MarkRow(r) \/ DeleteRow(r)

-----------------------------------------------------------------------------
\* Tickets and checks.

\* A notification, or a request about to capture the text it generated;
\* "inherited" is inherited_protection.
Begin(w, c, inherited) ==
  /\ stage[w] = "idle" /\ started < MaxCaptures
  /\ Move(w, "ticket")
  /\ Carry(w, [cap[w] EXCEPT !.content = c, !.prot = inherited])
  /\ started' = started + 1
  /\ UNCHANGED <<clock, row, excluded, stores, phase, edits, spoiled>>

\* status(), first half: a look outside any transaction
StatusPeek(w) ==
  /\ stage[w] \in StatusStages /\ phase[w] = "peek"
  /\ \E n \in Readings :
       /\ Carry(w, [cap[w] EXCEPT !.now = n])
       /\ phase' = [phase EXCEPT ![w] = IF ExpiredAt(row, n) THEN "expire" ELSE "test"]
  /\ UNCHANGED <<clock, row, excluded, stores, stage, started, edits, spoiled>>

\* status(), second half
StatusExpire(w) ==
  /\ phase[w] = "expire"
  /\ row' = ExpireTx(row, cap[w].now)
  /\ phase' = [phase EXCEPT ![w] = "test"]
  /\ UNCHANGED <<clock, excluded, stores, stage, cap, started, edits>>
  /\ Witness

Pass(w, to) == Move(w, to) /\ phase' = [phase EXCEPT ![w] = "peek"]

\* capture_ticket() after its status()
TakeTicket(w) ==
  /\ stage[w] = "ticket" /\ phase[w] = "test"
  /\ IF ActiveAt(row, cap[w].now)
     THEN GiveUp(w) /\ UNCHANGED spoiled
     ELSE /\ Pass(w, "read")
          /\ Carry(w, [cap[w] EXCEPT !.ticket = row.epoch])
          /\ spoiled' = [spoiled EXCEPT ![w] = ActiveAt(row, clock)]
  /\ UNCHANGED <<clock, row, excluded, stores, started, edits>>

\* privacy_source and the reader, in read_authorized
Read(w) ==
  /\ stage[w] = "read"
  /\ IF excluded THEN GiveUp(w) ELSE Pass(w, "recheck") /\ UNCHANGED cap
  /\ UNCHANGED <<clock, row, excluded, stores, started, edits, spoiled>>

\* paused, a privacy hint, nothing to read, the selection changed
ReadNothing(w) ==
  /\ stage[w] = "read"
  /\ GiveUp(w)
  /\ UNCHANGED <<clock, row, excluded, stores, started, edits, spoiled>>

\* desktop_copy() hands its own frame to process(), with the ticket it took
Generated(w) ==
  /\ stage[w] = "read"
  /\ Pass(w, "process")
  /\ UNCHANGED <<clock, row, excluded, stores, cap, started, edits, spoiled>>

AfterCheck(s) == CASE s = "recheck" -> "process"
                   [] s = "process" -> "source"
                   [] s = "prepare" -> "dedup"

\* check_capture() after its status(): when the reader returns, and again
\* when process() starts
CheckCapture(w) ==
  /\ stage[w] \in {"recheck", "process"} /\ phase[w] = "test"
  /\ IF CaptureAllowed(row, cap[w].ticket, cap[w].now)
     THEN Pass(w, AfterCheck(stage[w])) /\ UNCHANGED cap
     ELSE GiveUp(w)
  /\ UNCHANGED <<clock, row, excluded, stores, started, edits, spoiled>>

\* privacy_source again, the classification (evidence may protect the entry)
\* and the settings, which say where the entry goes
Classify(w) ==
  /\ stage[w] = "source"
  /\ IF excluded
     THEN GiveUp(w)
     ELSE \E found \in Findings(cap[w].content), persistent \in BOOLEAN :
            /\ Carry(w, [cap[w] EXCEPT !.prot = cap[w].prot \/ found,
                                        !.persistent = persistent])
            /\ Pass(w, IF persistent THEN "prepare" ELSE "scan")
  /\ UNCHANGED <<clock, row, excluded, stores, started, edits, spoiled>>

\* SqliteCaptureStore::prepare asks for a ticket that process() then replaces
\* with the frame's own: only its refusal counts.
Prepare(w) ==
  /\ stage[w] = "prepare" /\ phase[w] = "test"
  /\ IF ActiveAt(row, cap[w].now)
     THEN GiveUp(w)
     ELSE Pass(w, AfterCheck(stage[w])) /\ UNCHANGED cap
  /\ UNCHANGED <<clock, row, excluded, stores, started, edits, spoiled>>

-----------------------------------------------------------------------------
\* Deduplication, the commit and the queue.

\* find_duplicate: the new entry takes the stored row's identity and tags
FindDuplicate(w) ==
  /\ stage[w] = "dedup"
  /\ LET same == {r \in db : Deduplicate /\ r.content = cap[w].content} IN
     IF same = {}
     THEN UNCHANGED cap
     ELSE \E r \in same :
            Carry(w, [cap[w] EXCEPT !.id = r.id, !.prot = cap[w].prot \/ r.prot])
  /\ Pass(w, "scan")
  /\ UNCHANGED <<clock, row, excluded, stores, started, edits, spoiled>>

\* The scan of the queue, under its lock: the matching rows, the last of
\* which a session-only capture will continue (a clone: its tags are taken
\* now).
ScanRam(w) ==
  /\ stage[w] = "scan"
  /\ LET same == {r \in ram : Deduplicate /\ r.content = cap[w].content}
         last == {r \in same : \A s \in same : s.at <= r.at}
         continued == IF cap[w].persistent THEN {} ELSE last IN
     Carry(w, [cap[w] EXCEPT
       !.removals = Ids(same),
       !.reused = continued # {},
       !.id = IF continued = {} THEN cap[w].id ELSE (CHOOSE r \in continued : TRUE).id,
       !.prot = cap[w].prot \/ \E r \in continued : r.prot])
  /\ Pass(w, IF cap[w].persistent THEN "commit" ELSE "ramcheck")
  /\ UNCHANGED <<clock, row, excluded, stores, started, edits, spoiled>>

\* Mutants: the transaction trusts the checks made before it.
CommitUnchecked(w, n, prot) ==
  /\ cap[w].id # 0 => cap[w].id \in Ids(db)
  /\ \A r \in RowsWithId(db, cap[w].id) : r.prot => prot
CommitOverwriting(w, n, prot) == cap[w].id # 0 => cap[w].id \in Ids(db)

\* What the capture's write transaction demands before it writes: the check of
\* the ticket, that the row it updates exists, and that an ordinary entry does
\* not overwrite a protected one.
CommitAllowed(w, n, prot) ==
  /\ CaptureAllowed(row, cap[w].ticket, n)
  /\ cap[w].id # 0 => cap[w].id \in Ids(db)
  /\ \A r \in RowsWithId(db, cap[w].id) : r.prot => prot

\* save_automatic_capture_with_protection, one Immediate transaction.  The
\* policy is evaluated again inside it; updating a row that becomes protected
\* fires the visibility trigger.
Commit(w) ==
  /\ stage[w] = "commit"
  /\ \E n \in Readings, found \in Findings(cap[w].content) :
       LET prot == cap[w].prot \/ found
           old  == RowsWithId(db, cap[w].id)
           new  == [id |-> IF cap[w].id = 0 THEN stamp + 1 ELSE cap[w].id,
                    content |-> cap[w].content, prot |-> prot, at |-> stamp + 1]
           hidden == prot /\ \E r \in old : ~r.prot IN
       IF CommitAllowed(w, n, prot)
       THEN /\ db' = (db \ old) \cup {new}
            /\ stamp' = stamp + 1
            /\ row' = IF hidden THEN Bump(row) ELSE row
            /\ Carry(w, [cap[w] EXCEPT !.id = new.id, !.prot = prot])
            /\ Pass(w, "trim")
       ELSE GiveUp(w) /\ UNCHANGED <<db, stamp, row>>
  /\ UNCHANGED <<clock, excluded, ram, announced, shown, started, edits>>
  /\ Witness

\* enforce_limit_with_conn, after the commit
Trim(w) ==
  /\ stage[w] = "trim"
  /\ db' = db \ BeyondNewest({r \in db : ~r.prot}, HistoryLimit)
  /\ Pass(w, "publish")
  /\ UNCHANGED <<clock, row, excluded, ram, stamp, announced, shown, cap,
                 started, edits, spoiled>>

\* The session-only branch checks its ticket again and settles its identity
\* (next_session_id never repeats one).
NameEntry(w) ==
  /\ stage[w] = "ramcheck" /\ phase[w] = "test"
  /\ IF ~CaptureAllowed(row, cap[w].ticket, cap[w].now)
     THEN GiveUp(w) /\ UNCHANGED stamp
     ELSE /\ Pass(w, "publish")
          /\ IF cap[w].reused
             THEN UNCHANGED <<cap, stamp>>
             ELSE /\ Carry(w, [cap[w] EXCEPT !.id = -(stamp + 1)])
                  /\ stamp' = stamp + 1
  /\ UNCHANGED <<clock, row, excluded, db, ram, announced, shown, started,
                 edits, spoiled>>

\* A committed capture takes its duplicates out of the queue.  Nothing is
\* checked again here.
PublishPersistent(w) ==
  /\ stage[w] = "publish" /\ cap[w].persistent
  /\ ram' = {r \in ram : r.id \notin cap[w].removals}
  /\ Pass(w, "emit")
  /\ UNCHANGED <<clock, row, excluded, db, stamp, announced, shown, cap,
                 started, edits, spoiled>>

\* Mutant: nothing is checked under the queue's lock.
PublishUnguarded(w, n) == TRUE

\* with_capture_guard: ticket, queue and capacity in one transaction held
\* under the queue's lock
PublishGuard(w, n) == CaptureAllowed(row, cap[w].ticket, n)

Stored(w) ==
  LET pending == cap[w].removals \ {cap[w].id}
      kept == {r \in ram : r.id \notin pending}
      old  == RowsWithId(kept, cap[w].id)
      new  == {[id |-> cap[w].id, content |-> cap[w].content, prot |-> cap[w].prot,
                at |-> IF old = {} THEN stamp + 1 ELSE (CHOOSE r \in old : TRUE).at]}
  IN (kept \ old) \cup new

\* push_back beyond the capacity drops the front
Evicted(S) == IF Cardinality(S) > RamCap THEN Oldest(S) ELSE {}

\* Mutant: the row pushed out is forgotten.
RemovedDuplicates(w, out) == cap[w].removals \ {cap[w].id}

\* removed_ids: the duplicates and whatever the capacity pushed out
RemovedIds(w, out) == (cap[w].removals \ {cap[w].id}) \cup Ids(out)

PublishSession(w) ==
  /\ stage[w] = "publish" /\ ~cap[w].persistent
  /\ \E n \in Readings :
       IF PublishGuard(w, n)
       THEN LET stored == Stored(w)  out == Evicted(stored) IN
            /\ ram' = stored \ out
            /\ stamp' = stamp + 1
            /\ shown' = shown \cup {cap[w].id}
            /\ Carry(w, [cap[w] EXCEPT !.removals = RemovedIds(w, out)])
            /\ Pass(w, "emit")
       ELSE GiveUp(w) /\ UNCHANGED <<ram, stamp, shown>>
  /\ UNCHANGED <<clock, row, excluded, db, announced, started, edits, spoiled>>

\* capture_frame: Removed for every identity in removed_ids, then Stored
Emit(w) ==
  /\ stage[w] = "emit"
  /\ announced' = announced \cup cap[w].removals
  /\ GiveUp(w)
  /\ UNCHANGED <<clock, row, excluded, db, ram, stamp, shown, started, edits, spoiled>>

WorkerStep(w) ==
  \/ \E c \in Contents, inherited \in BOOLEAN : Begin(w, c, inherited)
  \/ StatusPeek(w) \/ StatusExpire(w) \/ TakeTicket(w)
  \/ Read(w) \/ ReadNothing(w) \/ Generated(w)
  \/ CheckCapture(w) \/ Classify(w) \/ Prepare(w)
  \/ FindDuplicate(w) \/ ScanRam(w)
  \/ Commit(w) \/ Trim(w) \/ PublishPersistent(w)
  \/ NameEntry(w) \/ PublishSession(w) \/ Emit(w)

Next == World \/ \E w \in Workers : WorkerStep(w)

Spec == Init /\ [][Next]_vars
-----------------------------------------------------------------------------
\* What the promise of CaptureGate means here: a ticket is held from the step
\* that takes it to the step that stores, and from then on the capture is
\* through, until its worker is idle again.
Holding(w) ==
  \/ stage[w] \in {"read", "recheck", "process", "source", "prepare", "dedup",
                   "scan", "commit", "ramcheck"}
  \/ stage[w] = "publish" /\ ~cap[w].persistent

IsStored(w) ==
  \/ stage[w] \in {"trim", "emit"}
  \/ stage[w] = "publish" /\ cap[w].persistent

Through == -2
Held(w) == IF Holding(w) THEN cap[w].ticket
           ELSE IF IsStored(w) THEN Through ELSE NoTicket

Gate == INSTANCE CaptureGate WITH
  era <- row.epoch,
  active <- ActiveAt(row, clock),
  hold <- [w \in Workers |-> Held(w)]

\* The capture pipeline admits captures the way CaptureGate says: only in the
\* era they began in (CaptureTicket, privacy_session.rs).
AdmitsLikeTheGate == Gate!GateSpec

StoresRow(w) == stage[w] = "commit" /\ stage'[w] = "trim"
StoresRam(w) == stage[w] = "publish" /\ ~cap[w].persistent /\ stage'[w] = "emit"

\* Types.  The epoch is a counter that no transaction takes back below zero
\* (Bump, SetTx, ToggleTx, ExpireTx).
TypeOK ==
  /\ clock \in Nat
  /\ row \in RowType
  /\ excluded \in BOOLEAN
  /\ db \subseteq Entry /\ ram \subseteq Entry /\ stamp \in Nat
  /\ stage \in [Workers -> Stages]
  /\ phase \in [Workers -> {"peek", "expire", "test"}]
  /\ cap \in [Workers -> CapType]
  /\ announced \subseteq Int /\ shown \subseteq Int
  /\ started \in Nat /\ edits \in Nat
  /\ spoiled \in [Workers -> BOOLEAN]

\* Nothing is stored by a capture whose life overlaps a privacy session, however
\* briefly the session lasted and whoever opened it
\* (save_capture_guarded_receipt_checked, with_capture_guard).
NoCaptureDuringSession ==
  [][\A w \in Workers : StoresRow(w) \/ StoresRam(w) => ~spoiled[w]]_vars

\* Nothing is stored from an application the policy excludes at that moment,
\* even when it was excluded after the source was looked up (privacy_source and
\* the settings trigger).
NoCaptureFromExcluded ==
  [][\A w \in Workers : StoresRow(w) \/ StoresRam(w) => ~excluded]_vars

\* A capture never makes a protected database row ordinary: find_duplicate's
\* tags, the visibility trigger and the transaction's own look at the row
\* (save_entry_with_policy) together see to it.
ProtectedRowKept ==
  [][\A w \in Workers : StoresRow(w) =>
       \A r \in db, s \in db' : r.id = s.id /\ r.prot => s.prot]_vars

\* The same for the queue, as docs/specs/v0.2-capture-engine.md line 21 has it
\* ("a protected deduplication target is not overwritten by the ordinary tags
\* of a new capture").
ProtectedRamKept ==
  [][\A w \in Workers : StoresRam(w) =>
       \A r \in ram, s \in ram' : r.id = s.id /\ r.prot => s.prot]_vars

\* A session-only capture takes out of the queue only what it duplicates, or
\* the front of a full queue: a row the user edited after the scan stays
\* (process, engine.rs, between its two locks).
EditedRamKept ==
  [][\A w \in Workers : StoresRam(w) =>
       \A r \in ram \ ram' :
         \/ r.content = cap[w].content
         \/ r \in Oldest(ram) /\ Cardinality(ram) = RamCap]_vars

\* Whatever leaves the queue is announced, or is about to be by the capture
\* that took it out (removed_ids of StoredCapture, capture_frame).
RemovalsAnnounced ==
  \A i \in shown :
    \/ i \in Ids(ram) \cup announced
    \/ \E w \in Workers : stage[w] = "emit" /\ i \in cap[w].removals

\* A session that is active ends by the clock or by a command, never because
\* somebody's status() acted on what it had read earlier (status, second half).
OnlyCommandsEndSessions ==
  [][ActiveAt(row, clock) /\ ~ActiveAt(row', clock) => SessionCommand]_vars
=============================================================================
