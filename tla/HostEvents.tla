------------------------------ MODULE HostEvents ------------------------------
(***************************************************************************)
(* What one Host tells its clients, and what it takes back first.  A       *)
(* privacy epoch may move in any process; whoever notices runs             *)
(* Host::synchronize_privacy (router.rs), which revokes the private file   *)
(* exports (private_files.rs), pushes PrivacyStateChanged into the window  *)
(* of recent events (events.rs) and stores the epoch it acted on.  The     *)
(* desktop that is connected to a service polls that window (begin_remote, *)
(* ipc_host.rs).                                                           *)
(*                                                                         *)
(* A thread is inside at most one call at a time: the router in the one    *)
(* request the Host serves, a publisher in publish() after a capture or    *)
(* its follow-up was stored, the remote in its subscription.  Each call    *)
(* runs synchronize_privacy once or twice, so the stages of that routine   *)
(* are common to all of them and the call says what comes after.           *)
(***************************************************************************)
EXTENDS Integers, Sequences, FiniteSets, SequencesExt

CONSTANTS
  Publishers,  \* threads that publish what was captured
  Router,      \* the thread that holds Host::requests
  Remote,      \* the thread that serves the desktop's subscription
  Exports,     \* private exports that may exist at once
  Window,      \* events the window keeps (256)
  MaxEpoch,    \* bound: privacy epochs
  MaxHistory,  \* bound: changes of the history
  MaxMoves,    \* bound: both of these together
  MaxEvents    \* bound: events after which only a change is published

ASSUME EventsAssumption ==
  /\ Router \notin Publishers /\ Remote \notin Publishers /\ Router # Remote
  /\ Window \in Nat \ {0} /\ MaxEpoch \in Nat /\ MaxHistory \in Nat
  /\ MaxMoves \in Nat /\ MaxEvents \in Nat

Threads == Publishers \cup {Router, Remote}

VARIABLES
  epoch,     \* privacy_runtime_state.epoch
  history,   \* its history_revision
  observed,  \* Host::observed_epoch
  holder,    \* who holds its lock
  sequence,  \* Events::sequence
  recent,    \* Events::recent
  at,        \* where each thread is in synchronize_privacy
  call,      \* what it does after
  saw,       \* the epoch it acts on
  names,     \* the epoch the event it is about to push will name
  own,       \* the epoch the router's mutation made
  exports,   \* BoundExport and its entry in ACTIVE
  remote,    \* the desktop's loop
  reply,     \* the EventsResult on its way there
  acked,     \* history: the newest epoch a mutation was acknowledged with
  announced  \* history: every PrivacyStateChanged pushed

clients == <<remote, reply>>
log == <<sequence, recent, announced>>
eventVars == <<epoch, history, observed, holder, log, at, call, saw, names, own,
          exports, clients, acked>>

-----------------------------------------------------------------------------
Kinds == {"privacy", "entry"}
Event == [seq : Nat \ {0}, kind : Kinds]

SyncStages == {"read", "lock", "revoke", "snapshot", "push"}
Calls == {"none", "request", "ack", "publish", "subscribe", "report"}

\* "created" before it is listed in ACTIVE, "listed" before it is looked at
\* again, "open" in its caller's hands, "stray" refused but not closed.
Export == [stage : {"none", "created", "listed", "open", "stray"}, epoch : Nat]
NoExport == [stage |-> "none", epoch |-> 0]
Listed == {"listed", "open", "stray"}

\* after and last are the loop's own; view and rows say of which epoch and of
\* which history the windows last asked for everything, and missed is the
\* last event that it was told to do without.
RemoteState == [after : Nat, last : Nat, view : Nat, rows : Nat, missed : Nat,
                gone : BOOLEAN]
Reply == [events : SUBSET Event, resync : BOOLEAN, sequence : Nat,
          revision : Nat, full : BOOLEAN]
NoReply == [events |-> {}, resync |-> FALSE, sequence |-> 0, revision |-> 0,
            full |-> FALSE]

EventsInit ==
  /\ epoch = 0 /\ history = 0
  /\ observed = 0 /\ holder = {}
  /\ sequence = 0 /\ recent = <<>>
  /\ at = [t \in Threads |-> "rest"]
  /\ call = [t \in Threads |-> "none"]
  /\ saw = [t \in Threads |-> 0]
  /\ names = [t \in Threads |-> 0]
  /\ own = 0
  /\ exports = [x \in Exports |-> NoExport]
  /\ remote = [after |-> 0, last |-> 0, view |-> 0, rows |-> 0, missed |-> 0,
               gone |-> FALSE]
  /\ reply = NoReply
  /\ acked = 0 /\ announced = {}

Enter(t, c) == at' = [at EXCEPT ![t] = "read"] /\ call' = [call EXCEPT ![t] = c]
Leave(t) == at' = [at EXCEPT ![t] = "rest"] /\ call' = [call EXCEPT ![t] = "none"]
Reach(t, stage) == at' = [at EXCEPT ![t] = stage] /\ UNCHANGED call

\* The epoch synchronize_privacy looks at is a local of it.
Forget(t) == saw' = [saw EXCEPT ![t] = 0] /\ names' = [names EXCEPT ![t] = 0]

\* Err: a remote that is refused leaves its loop for good.
CallFails(t) ==
  /\ Leave(t)
  /\ IF t = Remote THEN remote' = [remote EXCEPT !.gone = TRUE] ELSE UNCHANGED remote

-----------------------------------------------------------------------------
\* Host::synchronize_privacy.

SyncRead(t) ==
  /\ at[t] = "read"
  /\ saw' = [saw EXCEPT ![t] = epoch]
  /\ Reach(t, "lock")
  /\ UNCHANGED <<epoch, history, observed, holder, log, names, own, exports,
                 clients, acked>>

\* Nothing to do when somebody else acted on this epoch.
SyncLock(t) ==
  /\ at[t] = "lock" /\ holder = {}
  /\ IF observed = saw[t]
     THEN Reach(t, "done") /\ Forget(t) /\ UNCHANGED holder
     ELSE Reach(t, "revoke") /\ holder' = {t} /\ UNCHANGED <<saw, names>>
  /\ UNCHANGED <<epoch, history, observed, log, own, exports, clients, acked>>

Closed(S) == [x \in Exports |-> IF x \in S THEN NoExport ELSE exports[x]]
InActive == {x \in Exports : exports[x].stage \in Listed}

\* revoke_private_exports, under the lock of ACTIVE; the body snapshots and
\* uploads that are cleared with it carry their own epoch and are left out.
SyncRevoke(t) ==
  /\ at[t] = "revoke"
  /\ exports' = Closed(InActive)
  /\ Reach(t, "snapshot")
  /\ UNCHANGED <<epoch, history, observed, holder, log, saw, names, own, clients,
                 acked>>

\* Mutant: a revocation that failed is not tried again.
RefusedOnce(t) == observed' = saw[t] /\ holder' = {}

\* Err from under the lock: the old epoch stays, and the next call tries again.
Refused(t) == holder' = {} /\ UNCHANGED observed

\* An export, a native owner or its helper could not be closed.
SyncRevokeFails(t) ==
  /\ at[t] = "revoke"
  /\ \E S \in SUBSET InActive : exports' = Closed(S)
  /\ Refused(t) /\ CallFails(t) /\ Forget(t)
  /\ UNCHANGED <<epoch, history, log, own, reply, acked>>

\* self.snapshot(): Busy when the queue moved meanwhile
SyncSnapshot(t) ==
  /\ at[t] = "snapshot"
  /\ \/ /\ names' = [names EXCEPT ![t] = epoch]
        /\ Reach(t, "push")
        /\ UNCHANGED <<holder, observed, saw, remote>>
     \/ Refused(t) /\ CallFails(t) /\ Forget(t)
  /\ UNCHANGED <<epoch, history, log, own, exports, reply, acked>>

\* Events::push drops the oldest event beyond the window.
Windowed(events) == IF Len(events) > Window THEN Tail(events) ELSE events

Push(kind) ==
  /\ sequence' = sequence + 1
  /\ recent' = Windowed(Append(recent, [seq |-> sequence + 1, kind |-> kind]))

SyncPush(t) ==
  /\ at[t] = "push"
  /\ Push("privacy")
  /\ announced' = announced \cup {[seq |-> sequence + 1, epoch |-> names[t]]}
  /\ observed' = saw[t] /\ holder' = {}
  /\ Reach(t, "done") /\ Forget(t)
  /\ UNCHANGED <<epoch, history, own, exports, clients, acked>>

Synchronize(t) ==
  \/ SyncRead(t) \/ SyncLock(t)
  \/ SyncRevoke(t) \/ SyncRevokeFails(t)
  \/ SyncSnapshot(t) \/ SyncPush(t)

Done(t, c) == at[t] = "done" /\ call[t] = c
-----------------------------------------------------------------------------
\* The epoch and the history.

\* Another process, or a trigger of this one's own writes
EpochMoves ==
  /\ epoch < MaxEpoch /\ epoch + history < MaxMoves
  /\ epoch' = epoch + 1
  /\ UNCHANGED <<history, observed, holder, log, at, call, saw, names, own,
                 exports, clients, acked>>

HistoryMoves ==
  /\ history < MaxHistory /\ epoch + history < MaxMoves
  /\ history' = history + 1

\* Another process writes and tells nobody.
OtherWrite ==
  /\ HistoryMoves
  /\ UNCHANGED <<epoch, observed, holder, log, at, call, saw, names, own,
                 exports, clients, acked>>

\* What is published is a change, or the second event of one, or a status.
Noted ==
  \/ HistoryMoves
  \/ sequence < MaxEvents /\ UNCHANGED history

\* A capture, what it removed or its follow-up was stored, and is published.
Captured(t) ==
  /\ t \in Publishers /\ at[t] = "rest"
  /\ Noted
  /\ Enter(t, "publish")
  /\ UNCHANGED <<epoch, observed, holder, log, saw, names, own, exports, clients,
                 acked>>

\* Host::publish; its own snapshot may be Busy.
Publish(t) ==
  /\ Done(t, "publish")
  /\ \/ Push("entry")
     \/ UNCHANGED <<sequence, recent>>
  /\ Leave(t)
  /\ UNCHANGED <<epoch, history, observed, holder, announced, saw, names, own,
                 exports, clients, acked>>

-----------------------------------------------------------------------------
\* Requests, one at a time.

Request ==
  /\ at[Router] = "rest"
  /\ Enter(Router, "request")
  /\ UNCHANGED <<epoch, history, observed, holder, log, saw, names, own, exports,
                 clients, acked>>

\* privacy.set, privacy.toggle, a policy decision: the commit, and then the
\* second synchronize_privacy
Mutate ==
  /\ Done(Router, "request")
  /\ epoch < MaxEpoch /\ epoch + history < MaxMoves
  /\ epoch' = epoch + 1 /\ own' = epoch'
  /\ Enter(Router, "ack")
  /\ UNCHANGED <<history, observed, holder, log, saw, names, exports, clients,
                 acked>>

\* desktop_mutate publishes what it has changed; the deletion and the update that
\* keeping a row publishes are two of these.
Edit ==
  /\ Done(Router, "request")
  /\ Noted
  /\ Enter(Router, "publish")
  /\ UNCHANGED <<epoch, observed, holder, log, saw, names, own, exports, clients,
                 acked>>

\* Any other request, and one that fails
Answered ==
  /\ Done(Router, "request")
  /\ Leave(Router)
  /\ UNCHANGED <<epoch, history, observed, holder, log, saw, names, own, exports,
                 clients, acked>>

Acknowledge ==
  /\ Done(Router, "ack")
  /\ acked' = own
  /\ Leave(Router)
  /\ UNCHANGED <<epoch, history, observed, holder, log, saw, names, own, exports,
                 clients>>

-----------------------------------------------------------------------------
\* BoundExport::with_access.  Whoever opens an entry outside works beside the
\* router; an authorization is current while the epoch is the one it was given
\* under.

Export1(x, from, new) ==
  /\ exports[x].stage = from
  /\ exports' = [exports EXCEPT ![x] = new]
  /\ UNCHANGED <<epoch, history, observed, holder, log, at, call, saw, names, own,
                 clients, acked>>

CreateExport(x) == Export1(x, "none", [stage |-> "created", epoch |-> epoch])
ListExport(x) == Export1(x, "created", [exports[x] EXCEPT !.stage = "listed"])

\* Mutant: the authorization is not looked at again.
HandedAnyway(x) == TRUE

Handed(x) == exports[x].epoch = epoch

HandOut(x) == Handed(x) /\ Export1(x, "listed", [exports[x] EXCEPT !.stage = "open"])

\* Refused, which a session that has run out or an unreadable row is enough for:
\* closed here, or, when that fails, by the next revocation
TakeBack(x) ==
  \/ Export1(x, "listed", NoExport)
  \/ Export1(x, "listed", [exports[x] EXCEPT !.stage = "stray"])

\* Its owner, or the thread that watches over it
CloseExport(x) == Export1(x, "open", NoExport)

ExportStep(x) ==
  CreateExport(x) \/ ListExport(x) \/ HandOut(x) \/ TakeBack(x) \/ CloseExport(x)

-----------------------------------------------------------------------------
\* The desktop's subscription.

Poll ==
  /\ at[Remote] = "rest" /\ ~remote.gone /\ ~reply.full
  /\ Enter(Remote, "subscribe")
  /\ UNCHANGED <<epoch, history, observed, holder, log, saw, names, own, exports,
                 clients, acked>>

OldestSeq == IF recent = <<>> THEN 1 ELSE recent[1].seq

\* Mutant: off by one.
GapBeyondNext(after) == after > sequence \/ after + 2 < OldestSeq

\* resync_required
Gap(after) == after > sequence \/ after + 1 < OldestSeq

After(n) == {e \in ToSet(recent) : e.seq > n}

\* Host::snapshot may refuse; Events::after waits for an event, an interruption
\* or the time limit, whichever is first, and reads the window under its lock.
Collect ==
  /\ Done(Remote, "subscribe")
  /\ \/ /\ Enter(Remote, "report")
        /\ reply' = [NoReply EXCEPT !.resync = Gap(remote.after), !.sequence = sequence,
             !.events = IF Gap(remote.after) THEN {} ELSE After(remote.after)]
        /\ UNCHANGED remote
     \/ CallFails(Remote) /\ UNCHANGED reply
  /\ UNCHANGED <<epoch, history, observed, holder, log, saw, names, own, exports,
                 acked>>

\* The second look: the answer names the latest revision.
Report ==
  /\ Done(Remote, "report")
  /\ \/ /\ Leave(Remote)
        /\ reply' = [reply EXCEPT !.revision = history, !.full = TRUE]
        /\ UNCHANGED remote
     \/ CallFails(Remote) /\ UNCHANGED reply
  /\ UNCHANGED <<epoch, history, observed, holder, log, saw, names, own, exports,
                 acked>>

\* Mutant: a revision that moved without an event is not noticed.
RowsChangedByEvents == reply.resync \/ reply.events # {}

\* clipboard-changed is emitted: the windows ask for the history again.
RowsChanged == reply.resync \/ reply.revision # remote.last

\* Mutant: an answer that brings no new rows is passed over.
PrivacyChangedWithRows == RowsChanged /\ \E e \in reply.events : e.kind = "privacy"

\* privacy-state-changed is emitted: they ask for the privacy state again.
PrivacyChanged == \E e \in reply.events : e.kind = "privacy"

Handle ==
  /\ reply.full
  /\ remote' = [remote EXCEPT
       !.after = reply.sequence, !.last = reply.revision,
       !.view = IF PrivacyChanged THEN epoch ELSE @,
       !.rows = IF RowsChanged THEN history ELSE @,
       !.missed = IF reply.resync THEN reply.sequence ELSE @]
  /\ reply' = NoReply
  /\ UNCHANGED <<epoch, history, observed, holder, log, at, call, saw, names, own,
                 exports, acked>>

RemoteStep == Poll \/ Collect \/ Report \/ Handle

EventsNext ==
  \/ EpochMoves \/ OtherWrite
  \/ \E t \in Publishers : Captured(t)
  \/ \E t \in Threads : Synchronize(t) \/ Publish(t)
  \/ Request \/ Mutate \/ Edit \/ Answered \/ Acknowledge
  \/ \E x \in Exports : ExportStep(x)
  \/ RemoteStep

EventsSpec == EventsInit /\ [][EventsNext]_eventVars

\* Threads run, and one that waits for the lock is not passed over for ever; the
\* loop polls again as soon as it has handled an answer.  Nothing is assumed of
\* requests, of captures or of the exports' owners.
Fairness ==
  /\ \A t \in Threads : WF_eventVars(Synchronize(t)) /\ WF_eventVars(Publish(t))
  /\ \A t \in Threads : SF_eventVars(SyncLock(t))
  /\ WF_eventVars(Mutate \/ Edit \/ Answered) /\ WF_eventVars(Acknowledge)
  /\ WF_eventVars(RemoteStep)

-----------------------------------------------------------------------------
Open(x) == exports[x].stage = "open"

\* Types, and the window within its length (Events::push).
TypeOK ==
  /\ epoch \in Nat /\ history \in Nat /\ observed \in Nat
  /\ holder \subseteq Threads
  /\ sequence \in Nat /\ recent \in Seq(Event) /\ Len(recent) <= Window
  /\ at \in [Threads -> SyncStages \cup {"rest", "done"}]
  /\ call \in [Threads -> Calls]
  /\ saw \in [Threads -> Nat] /\ names \in [Threads -> Nat] /\ own \in Nat
  /\ exports \in [Exports -> Export]
  /\ remote \in RemoteState /\ reply \in Reply
  /\ acked \in Nat
  /\ announced \subseteq [seq : Nat \ {0}, epoch : Nat]

\* A mutation is acknowledged only when every private export of the time before
\* it is closed, and none of them opens later, whichever thread revoked and
\* however late it was with the epoch it had read (synchronize_privacy,
\* with_access).
RevokedBeforeAck ==
  \A x \in Exports : Open(x) => exports[x].epoch >= acked

\* An event is delivered, or the answer that skips it says so (Events::after).
NoEventSkipped ==
  [][reply.full /\ ~reply'.full /\ ~reply.resync =>
       {e.seq : e \in reply.events} = remote.after + 1 .. reply.sequence]_eventVars

\* Once the remote is past the announcement of an epoch, its windows have asked
\* for the privacy state since, unless the answer was that events are lost
\* (begin_remote).
PrivacyViewFollows ==
  \A a \in announced :
    remote.after >= a.seq => remote.view >= a.epoch \/ remote.missed >= a.seq

\* An epoch that moved, in whatever process, is announced, even when the first
\* to notice could not revoke (synchronize_privacy).
EpochAnnounced ==
  \A e \in 1 .. MaxEpoch :
    epoch = e ~> (\E a \in announced : a.epoch >= e) \/ remote.gone

\* A change of the history reaches the desktop's windows, even when no event
\* was published for it (begin_remote).
ChangesReachWindows ==
  \A n \in 1 .. MaxHistory : history = n ~> remote.rows >= n \/ remote.gone
=============================================================================
