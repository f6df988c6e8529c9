--------------------------- MODULE HostEvents_proof ---------------------------
(***************************************************************************)
(* For any number of publishers and exports and any window, an export of   *)
(* the time before an acknowledged mutation is never open, the desktop is  *)
(* told of every event or that some are lost, and what its windows show of *)
(* the privacy state follows what was announced.                           *)
(*                                                                         *)
(* The first is not inductive.  What carries it from the revocation to     *)
(* the acknowledgement is a chain of fences: while a thread pushes, none   *)
(* older than what it saw is open; it stores what it saw, so none older    *)
(* than the observed epoch is; and the router, which looked after it had   *)
(* written, saw or found observed an epoch that is not older than its own. *)
(* An export opens only under the epoch of that moment, and no fence is    *)
(* ahead of it.                                                            *)
(*                                                                         *)
(* The last part is about the bridge between the desktop and its Host:     *)
(* for any number of updates and of things that happen around them, the    *)
(* first installer runs beside no Host of the desktop's.  Until that       *)
(* update is aborted only the first task lives, and what it can take up is *)
(* bounded by closing, which the update sets before it stops anything; the *)
(* invariant (BridgeInv) says which embedded Host may still run, and that  *)
(* an update knows that Host as long as it may.                            *)
(***************************************************************************)
EXTENDS HostEvents, DesktopBridge, TLAPS

\* None that is open is older than e.
Fenced(e) == \A x \in Exports : Open(x) => exports[x].epoch >= e

\* No epoch anybody remembers is ahead of the epoch.
Past ==
  /\ observed <= epoch /\ own <= epoch /\ acked <= epoch
  /\ \A t \in Threads : saw[t] <= epoch

Looked == {"lock", "revoke", "snapshot", "push"}

Fences ==
  /\ Fenced(observed) /\ Fenced(acked)
  /\ \A t \in Threads : at[t] \in {"snapshot", "push"} => Fenced(saw[t])
  /\ call[Router] = "ack" /\ at[Router] \in Looked => saw[Router] >= own
  /\ call[Router] = "ack" /\ at[Router] = "done" => Fenced(own)

\* What the fences need to know of types
Kinded ==
  /\ epoch \in Nat /\ observed \in Nat /\ own \in Nat /\ acked \in Nat
  /\ saw \in [Threads -> Nat]
  /\ at \in [Threads -> SyncStages \cup {"rest", "done"}]
  /\ call \in [Threads -> Calls]
  /\ exports \in [Exports -> Export]

IInv == Kinded /\ Past /\ Fences

LEMMA RouterIsThread == Router \in Threads /\ Remote \in Threads /\ Publishers \subseteq Threads
  BY DEF Threads

-----------------------------------------------------------------------------
\* Fences hold when exports only close, or open under the epoch of the moment.

Careful ==
  \A x \in Exports :
    Open(x)' => \/ Open(x) /\ exports'[x].epoch = exports[x].epoch
                \/ exports'[x].epoch = epoch

FencesKept ==
  \A e \in Nat : e <= epoch /\ Fenced(e) => Fenced(e)'

LEMMA CarefulKeeps ==
  ASSUME Kinded, Careful
  PROVE  FencesKept
<1> SUFFICES ASSUME NEW e \in Nat, e <= epoch, Fenced(e),
                    NEW x \in Exports, Open(x)'
             PROVE  exports'[x].epoch >= e
  BY DEF FencesKept, Fenced
<1>1. CASE Open(x) /\ exports'[x].epoch = exports[x].epoch
  BY <1>1 DEF Fenced
<1>2. CASE exports'[x].epoch = epoch
  BY <1>2 DEF Kinded
<1> QED BY <1>1, <1>2 DEF Careful

LEMMA SameExports ==
  ASSUME exports' = exports
  PROVE  Careful
  BY DEF Careful, Open

LEMMA ClosingIsCareful ==
  ASSUME NEW S \in SUBSET Exports, exports' = Closed(S)
  PROVE  Careful
<1> SUFFICES ASSUME NEW x \in Exports, Open(x)'
             PROVE  Open(x) /\ exports'[x].epoch = exports[x].epoch
  BY DEF Careful
<1>1. exports'[x] = IF x \in S THEN NoExport ELSE exports[x]
  BY DEF Closed
<1>2. x \notin S
  BY <1>1 DEF Open, NoExport
<1> QED BY <1>1, <1>2 DEF Open

LEMMA ClosingTyped ==
  ASSUME NEW S \in SUBSET Exports, exports' = Closed(S), exports \in [Exports -> Export]
  PROVE  exports' \in [Exports -> Export]
  BY DEF Closed, Export, NoExport

-----------------------------------------------------------------------------
\* A thread that moves on alone keeps the fences when it takes none for granted.

Alone(t) ==
  \A u \in Threads \ {t} :
    at'[u] = at[u] /\ saw'[u] = saw[u] /\ call'[u] = call[u]

NoneOpen == \A x \in Exports : ~Open(x)

LEMMA ThreadMoves ==
  ASSUME IInv, NEW t \in Threads, Kinded', Alone(t), Careful,
         epoch' = epoch, own' = own, acked' = acked,
         observed' = observed \/ (observed' = saw[t] /\ at[t] = "push"),
         saw'[t] \in {0, saw[t], epoch},
         at'[t] \in {"snapshot", "push"} =>
           \/ at[t] \in {"snapshot", "push"} /\ saw'[t] = saw[t]
           \/ NoneOpen',
         t = Router /\ call'[t] = "ack" /\ at'[t] \in Looked => saw'[t] >= own,
         t = Router /\ call'[t] = "ack" /\ at'[t] = "done" => Fenced(own)
  PROVE  IInv'
<1>1. FencesKept
  BY CarefulKeeps DEF IInv
<1>2. /\ saw \in [Threads -> Nat] /\ epoch \in Nat /\ own \in Nat /\ acked \in Nat
      /\ observed \in Nat
  BY DEF IInv, Kinded
<1>3. Past'
  <2>1. observed' <= epoch'
    BY <1>2 DEF IInv, Past
  <2>2. \A u \in Threads : saw'[u] <= epoch'
    <3> SUFFICES ASSUME NEW u \in Threads PROVE saw'[u] <= epoch
      OBVIOUS
    <3>1. CASE u = t
      BY <3>1, <1>2 DEF IInv, Past
    <3>2. CASE u # t
      BY <3>2 DEF IInv, Past, Alone
    <3> QED BY <3>1, <3>2
  <2> QED BY <2>1, <2>2 DEF IInv, Past
<1>4. Fenced(observed)'
  <2>1. CASE observed' = observed
    <3>1. Fenced(observed) /\ observed <= epoch
      BY DEF IInv, Fences, Past
    <3> QED BY <3>1, <2>1, <1>1, <1>2 DEF FencesKept, Fenced
  <2>2. CASE observed' = saw[t] /\ at[t] = "push"
    <3>1. Fenced(saw[t]) /\ saw[t] <= epoch /\ saw[t] \in Nat
      BY <2>2, <1>2 DEF IInv, Fences, Past
    <3> QED BY <3>1, <2>2, <1>1 DEF FencesKept, Fenced
  <2> QED BY <2>1, <2>2
<1>5. Fenced(acked)'
  <2>1. Fenced(acked) /\ acked <= epoch
    BY DEF IInv, Fences, Past
  <2> QED BY <2>1, <1>1, <1>2 DEF FencesKept, Fenced
<1>6. ASSUME NEW u \in Threads, at'[u] \in {"snapshot", "push"}
      PROVE  Fenced(saw[u])'
  <2>1. CASE NoneOpen'
    BY <2>1 DEF NoneOpen, Fenced
  <2>2. CASE at[u] \in {"snapshot", "push"} /\ saw'[u] = saw[u]
    <3>1. Fenced(saw[u]) /\ saw[u] <= epoch /\ saw[u] \in Nat
      BY <2>2, <1>2 DEF IInv, Fences, Past
    <3> QED BY <3>1, <2>2, <1>1 DEF FencesKept, Fenced
  <2> QED BY <1>6, <2>1, <2>2 DEF Alone
<1>7. Router \in Threads
  BY DEF Threads
<1>8. call'[Router] = "ack" /\ at'[Router] \in Looked => saw'[Router] >= own'
  <2>1. CASE t = Router
    BY <2>1
  <2>2. CASE t # Router
    BY <2>2, <1>7 DEF IInv, Fences, Alone
  <2> QED BY <2>1, <2>2
<1>9. call'[Router] = "ack" /\ at'[Router] = "done" => Fenced(own)'
  <2> SUFFICES ASSUME call'[Router] = "ack", at'[Router] = "done"
               PROVE  Fenced(own)'
    OBVIOUS
  <2>1. Fenced(own)
    <3>1. CASE t = Router
      BY <3>1
    <3>2. CASE t # Router
      BY <3>2, <1>7 DEF IInv, Fences, Alone
    <3> QED BY <3>1, <3>2
  <2>2. own <= epoch
    BY DEF IInv, Past
  <2> QED BY <2>1, <2>2, <1>1, <1>2 DEF FencesKept, Fenced
<1> QED BY <1>3, <1>4, <1>5, <1>6, <1>8, <1>9 DEF IInv, Fences

\* Only the thread's own place and memory change, and not the fences.
Own(t) ==
  /\ Alone(t) /\ Kinded'
  /\ epoch' = epoch /\ own' = own /\ acked' = acked

LEMMA OwnStep ==
  ASSUME Kinded, NEW t \in Threads,
         NEW a \in SyncStages \cup {"rest", "done"}, NEW c \in Calls, NEW n \in Nat,
         at' = [at EXCEPT ![t] = a], call' = [call EXCEPT ![t] = c],
         saw' = [saw EXCEPT ![t] = n],
         epoch' = epoch, own' = own, acked' = acked, observed' \in Nat,
         exports' \in [Exports -> Export]
  PROVE  Own(t) /\ at'[t] = a /\ call'[t] = c /\ saw'[t] = n
<1>1. Kinded'
  BY DEF Kinded
<1>2. Alone(t) /\ at'[t] = a /\ call'[t] = c /\ saw'[t] = n
  BY DEF Alone, Kinded
<1> QED BY <1>1, <1>2 DEF Own

\* Lookups spelled as updates
LEMMA SameAt ==
  ASSUME Kinded, NEW t \in Threads
  PROVE  /\ at[t] \in SyncStages \cup {"rest", "done"} /\ call[t] \in Calls /\ saw[t] \in Nat
         /\ call = [call EXCEPT ![t] = call[t]] /\ saw = [saw EXCEPT ![t] = saw[t]]
         /\ at = [at EXCEPT ![t] = at[t]]
  BY DEF Kinded

-----------------------------------------------------------------------------
\* synchronize_privacy

LEMMA SyncReadKeeps ==
  ASSUME IInv, NEW t \in Threads, SyncRead(t)
  PROVE  IInv'
<1>1. Own(t) /\ at'[t] = "lock" /\ call'[t] = call[t] /\ saw'[t] = epoch
  <2>1. /\ at' = [at EXCEPT ![t] = "lock"] /\ call' = [call EXCEPT ![t] = call[t]]
        /\ saw' = [saw EXCEPT ![t] = epoch]
    BY SameAt DEF SyncRead, Reach, IInv
  <2>2. /\ epoch' = epoch /\ own' = own /\ acked' = acked /\ observed' = observed
        /\ exports' = exports
    BY DEF SyncRead
  <2> QED BY <2>1, <2>2, SameAt, OwnStep DEF IInv, Kinded, SyncStages
<1>2. Careful
  BY SameExports DEF SyncRead
<1>3. epoch >= own
  BY DEF IInv, Past, Kinded
<1> QED BY <1>1, <1>2, <1>3, ThreadMoves DEF Own, SyncRead, Looked

LEMMA SyncLockKeeps ==
  ASSUME IInv, NEW t \in Threads, SyncLock(t)
  PROVE  IInv'
<1>1. /\ epoch' = epoch /\ own' = own /\ acked' = acked /\ observed' = observed
      /\ exports' = exports /\ at[t] = "lock"
  BY DEF SyncLock
<1>2. Careful
  BY <1>1, SameExports
<1>3. CASE observed = saw[t]
  <2>1. Own(t) /\ at'[t] = "done" /\ call'[t] = call[t] /\ saw'[t] = 0
    <3>1. /\ at' = [at EXCEPT ![t] = "done"] /\ call' = [call EXCEPT ![t] = call[t]]
          /\ saw' = [saw EXCEPT ![t] = 0]
      BY <1>3, SameAt DEF SyncLock, Reach, Forget, IInv
    <3> QED BY <3>1, <1>1, SameAt, OwnStep DEF IInv, Kinded
  <2>2. ASSUME t = Router, call'[t] = "ack"
        PROVE  Fenced(own)
    <3>1. saw[t] >= own
      BY <2>1, <2>2, <1>1 DEF IInv, Fences, Looked
    <3>2. Fenced(observed)
      BY DEF IInv, Fences
    <3>3. \A x \in Exports : exports[x].epoch \in Nat
      BY DEF IInv, Kinded, Export
    <3> QED BY <3>1, <3>2, <3>3, <1>3 DEF Fenced, IInv, Kinded
  <2> QED BY <1>1, <1>2, <2>1, <2>2, ThreadMoves DEF Own, Looked
<1>4. CASE observed # saw[t]
  <2>1. Own(t) /\ at'[t] = "revoke" /\ call'[t] = call[t] /\ saw'[t] = saw[t]
    <3>1. /\ at' = [at EXCEPT ![t] = "revoke"] /\ call' = [call EXCEPT ![t] = call[t]]
          /\ saw' = [saw EXCEPT ![t] = saw[t]]
      BY <1>4, SameAt DEF SyncLock, Reach, IInv
    <3> QED BY <3>1, <1>1, SameAt, OwnStep DEF IInv, Kinded, SyncStages
  <2>2. t = Router /\ call'[t] = "ack" => saw'[t] >= own
    BY <2>1, <1>1 DEF IInv, Fences, Looked
  <2> QED BY <1>1, <1>2, <2>1, <2>2, ThreadMoves DEF Own
<1> QED BY <1>3, <1>4

LEMMA SyncRevokeKeeps ==
  ASSUME IInv, NEW t \in Threads, SyncRevoke(t)
  PROVE  IInv'
<1>1. /\ epoch' = epoch /\ own' = own /\ acked' = acked /\ observed' = observed
      /\ exports' = Closed(InActive) /\ at[t] = "revoke"
  BY DEF SyncRevoke
<1>2. InActive \in SUBSET Exports
  BY DEF InActive
<1>3. Careful /\ exports' \in [Exports -> Export]
  BY <1>1, <1>2, ClosingIsCareful, ClosingTyped DEF IInv, Kinded
<1>4. NoneOpen'
  <2> SUFFICES ASSUME NEW x \in Exports, exports'[x].stage = "open"
               PROVE  FALSE
    BY DEF NoneOpen, Open
  <2>1. exports'[x] = IF x \in InActive THEN NoExport ELSE exports[x]
    BY <1>1 DEF Closed
  <2> QED BY <2>1 DEF InActive, Listed, NoExport
<1>5. Own(t) /\ at'[t] = "snapshot" /\ call'[t] = call[t] /\ saw'[t] = saw[t]
  <2>1. /\ at' = [at EXCEPT ![t] = "snapshot"] /\ call' = [call EXCEPT ![t] = call[t]]
        /\ saw' = [saw EXCEPT ![t] = saw[t]]
    BY SameAt DEF SyncRevoke, Reach, IInv
  <2> QED BY <2>1, <1>1, <1>3, SameAt, OwnStep DEF IInv, Kinded, SyncStages
<1>6. t = Router /\ call'[t] = "ack" => saw'[t] >= own
  BY <1>5, <1>1 DEF IInv, Fences, Looked
<1> QED BY <1>1, <1>3, <1>4, <1>5, <1>6, ThreadMoves DEF Own

\* A call that is refused takes no fence with it.
LEMMA RefusedKeeps ==
  ASSUME IInv, NEW t \in Threads, CallFails(t), Forget(t), Refused(t), Careful,
         exports' \in [Exports -> Export],
         epoch' = epoch, own' = own, acked' = acked
  PROVE  IInv'
<1>1. observed' = observed
  BY DEF Refused
<1>2. Own(t) /\ at'[t] = "rest" /\ call'[t] = "none" /\ saw'[t] = 0
  <2>1. /\ at' = [at EXCEPT ![t] = "rest"] /\ call' = [call EXCEPT ![t] = "none"]
        /\ saw' = [saw EXCEPT ![t] = 0]
    BY DEF CallFails, Leave, Forget
  <2> QED BY <2>1, <1>1, OwnStep DEF IInv, Kinded, Calls
<1> QED BY <1>1, <1>2, ThreadMoves DEF Own, Looked

LEMMA SyncRevokeFailsKeeps ==
  ASSUME IInv, NEW t \in Threads, SyncRevokeFails(t)
  PROVE  IInv'
<1>1. PICK S \in SUBSET InActive : exports' = Closed(S)
  BY DEF SyncRevokeFails
<1>2. Careful /\ exports' \in [Exports -> Export]
  <2>1. S \in SUBSET Exports
    BY DEF InActive
  <2> QED BY <1>1, <2>1, ClosingIsCareful, ClosingTyped DEF IInv, Kinded
<1> QED BY <1>2, RefusedKeeps DEF SyncRevokeFails

LEMMA SyncSnapshotKeeps ==
  ASSUME IInv, NEW t \in Threads, SyncSnapshot(t)
  PROVE  IInv'
<1>1. /\ epoch' = epoch /\ own' = own /\ acked' = acked /\ exports' = exports
      /\ at[t] = "snapshot"
  BY DEF SyncSnapshot
<1>2. Careful
  BY <1>1, SameExports
<1>3. CASE Reach(t, "push") /\ UNCHANGED <<observed, saw>>
  <2>1. Own(t) /\ at'[t] = "push" /\ call'[t] = call[t] /\ saw'[t] = saw[t]
    <3>1. /\ at' = [at EXCEPT ![t] = "push"] /\ call' = [call EXCEPT ![t] = call[t]]
          /\ saw' = [saw EXCEPT ![t] = saw[t]]
      BY <1>3, SameAt DEF Reach, IInv
    <3> QED BY <3>1, <1>1, <1>3, SameAt, OwnStep DEF IInv, Kinded, SyncStages
  <2>2. t = Router /\ call'[t] = "ack" => saw'[t] >= own
    BY <2>1, <1>1 DEF IInv, Fences, Looked
  <2> QED BY <1>1, <1>2, <1>3, <2>1, <2>2, ThreadMoves DEF Own
<1>4. CASE Refused(t) /\ CallFails(t) /\ Forget(t)
  BY <1>1, <1>2, <1>4, RefusedKeeps DEF IInv, Kinded
<1> QED BY <1>3, <1>4 DEF SyncSnapshot

LEMMA SyncPushKeeps ==
  ASSUME IInv, NEW t \in Threads, SyncPush(t)
  PROVE  IInv'
<1>1. /\ epoch' = epoch /\ own' = own /\ acked' = acked /\ observed' = saw[t]
      /\ exports' = exports /\ at[t] = "push"
  BY DEF SyncPush
<1>2. Careful
  BY <1>1, SameExports
<1>3. Own(t) /\ at'[t] = "done" /\ call'[t] = call[t] /\ saw'[t] = 0
  <2>1. /\ at' = [at EXCEPT ![t] = "done"] /\ call' = [call EXCEPT ![t] = call[t]]
        /\ saw' = [saw EXCEPT ![t] = 0]
    BY SameAt DEF SyncPush, Reach, Forget, IInv
  <2> QED BY <2>1, <1>1, SameAt, OwnStep DEF IInv, Kinded
<1>4. ASSUME t = Router, call'[t] = "ack"
      PROVE  Fenced(own)
  <2>1. saw[t] >= own
    BY <1>1, <1>3, <1>4 DEF IInv, Fences, Looked
  <2>2. Fenced(saw[t])
    BY <1>1 DEF IInv, Fences
  <2>3. \A x \in Exports : exports[x].epoch \in Nat
    BY DEF IInv, Kinded, Export
  <2> QED BY <2>1, <2>2, <2>3, SameAt DEF Fenced, IInv, Kinded
<1> QED BY <1>1, <1>2, <1>3, <1>4, ThreadMoves DEF Own, Looked

LEMMA SynchronizeKeeps ==
  ASSUME IInv, NEW t \in Threads, Synchronize(t)
  PROVE  IInv'
  BY SyncReadKeeps, SyncLockKeeps, SyncRevokeKeeps, SyncRevokeFailsKeeps,
     SyncSnapshotKeeps, SyncPushKeeps DEF Synchronize

-----------------------------------------------------------------------------
\* The calls around it

\* A thread enters or leaves a call without an epoch of its own.
LEMMA PlainStep ==
  ASSUME IInv, NEW t \in Threads,
         NEW a \in {"rest", "read"}, NEW c \in Calls,
         at' = [at EXCEPT ![t] = a], call' = [call EXCEPT ![t] = c],
         UNCHANGED <<saw, epoch, own, acked, observed, exports>>
  PROVE  IInv'
<1>1. Careful
  BY SameExports
<1>2. Own(t) /\ at'[t] = a /\ call'[t] = c /\ saw'[t] = saw[t]
  <2>1. saw' = [saw EXCEPT ![t] = saw[t]]
    BY SameAt DEF IInv
  <2>2. a \in SyncStages \cup {"rest", "done"}
    BY DEF SyncStages
  <2> QED BY <2>1, <2>2, SameAt, OwnStep DEF IInv, Kinded
<1> QED BY <1>1, <1>2, ThreadMoves DEF Own, Looked

LEMMA FailKeeps ==
  ASSUME IInv, NEW t \in Threads, CallFails(t),
         UNCHANGED <<saw, epoch, own, acked, observed, exports>>
  PROVE  IInv'
  BY PlainStep DEF CallFails, Leave, Calls

LEMMA PublishKeeps ==
  ASSUME IInv, NEW t \in Threads, Captured(t) \/ Publish(t)
  PROVE  IInv'
<1>1. CASE Captured(t)
  BY <1>1, PlainStep DEF Captured, Enter, Noted, HistoryMoves, Calls
<1>2. CASE Publish(t)
  BY <1>2, PlainStep DEF Publish, Leave, Calls
<1> QED BY <1>1, <1>2

LEMMA RequestKeeps ==
  ASSUME IInv, Request \/ Edit \/ Answered
  PROVE  IInv'
<1>1. CASE Request
  BY <1>1, PlainStep, RouterIsThread DEF Request, Enter, Calls
<1>2. CASE Edit
  BY <1>2, PlainStep, RouterIsThread DEF Edit, Enter, Noted, HistoryMoves, Calls
<1>3. CASE Answered
  BY <1>3, PlainStep, RouterIsThread DEF Answered, Leave, Calls
<1> QED BY <1>1, <1>2, <1>3

LEMMA RemoteKeeps ==
  ASSUME IInv, RemoteStep
  PROVE  IInv'
<1>1. CASE Poll
  BY <1>1, PlainStep, RouterIsThread DEF Poll, Enter, Calls
<1>2. CASE Collect
  <2>1. UNCHANGED <<saw, epoch, own, acked, observed, exports>>
    BY <1>2 DEF Collect
  <2>2. CASE Enter(Remote, "report")
    BY <2>1, <2>2, PlainStep, RouterIsThread DEF Enter, Calls
  <2>3. CASE CallFails(Remote)
    BY <2>1, <2>3, FailKeeps, RouterIsThread
  <2> QED BY <1>2, <2>2, <2>3 DEF Collect
<1>3. CASE Report
  <2>1. UNCHANGED <<saw, epoch, own, acked, observed, exports>>
    BY <1>3 DEF Report
  <2>2. CASE Leave(Remote)
    BY <2>1, <2>2, PlainStep, RouterIsThread DEF Leave, Calls
  <2>3. CASE CallFails(Remote)
    BY <2>1, <2>3, FailKeeps, RouterIsThread
  <2> QED BY <1>3, <2>2, <2>3 DEF Report
<1>4. CASE Handle
  <2>1. UNCHANGED <<at, call, saw, epoch, own, acked, observed, exports>>
    BY <1>4 DEF Handle
  <2> QED BY <2>1 DEF IInv, Kinded, Past, Fences, Fenced, Open
<1> QED BY <1>1, <1>2, <1>3, <1>4 DEF RemoteStep

\* The epoch only moves away from the fences.
LEMMA EpochKeeps ==
  ASSUME IInv, EpochMoves
  PROVE  IInv'
<1>1. /\ UNCHANGED <<at, call, saw, own, acked, observed, exports>>
      /\ epoch' = epoch + 1
  BY DEF EpochMoves
<1>2. Kinded'
  BY <1>1 DEF IInv, Kinded
<1>3. Past'
  BY <1>1 DEF IInv, Kinded, Past
<1>4. Fences'
  BY <1>1 DEF IInv, Fences, Fenced, Open
<1> QED BY <1>2, <1>3, <1>4 DEF IInv

LEMMA WriteKeeps ==
  ASSUME IInv, OtherWrite
  PROVE  IInv'
<1>1. UNCHANGED <<at, call, saw, epoch, own, acked, observed, exports>>
  BY DEF OtherWrite
<1> QED BY <1>1 DEF IInv, Kinded, Past, Fences, Fenced, Open

\* The router has looked at nothing yet when it has just written.
LEMMA MutateKeeps ==
  ASSUME IInv, Mutate
  PROVE  IInv'
<1>1. /\ UNCHANGED <<saw, acked, observed, exports>>
      /\ epoch' = epoch + 1 /\ own' = epoch + 1
      /\ at' = [at EXCEPT ![Router] = "read"] /\ call' = [call EXCEPT ![Router] = "ack"]
  BY DEF Mutate, Enter
<1>2. Kinded'
  <2>1. epoch' \in Nat /\ own' \in Nat
    BY <1>1 DEF IInv, Kinded
  <2>2. /\ at' \in [Threads -> SyncStages \cup {"rest", "done"}]
        /\ call' \in [Threads -> Calls]
    BY <1>1 DEF IInv, Kinded, SyncStages, Calls
  <2> QED BY <1>1, <2>1, <2>2 DEF IInv, Kinded
<1>3. Past'
  BY <1>1 DEF IInv, Kinded, Past
<1>4. at'[Router] = "read" /\ \A t \in Threads : at'[t] = at[t] \/ at'[t] = "read"
  BY <1>1, RouterIsThread DEF IInv, Kinded
<1>5. Fences'
  BY <1>1, <1>4 DEF IInv, Fences, Fenced, Open, Looked
<1> QED BY <1>2, <1>3, <1>5 DEF IInv

LEMMA AcknowledgeKeeps ==
  ASSUME IInv, Acknowledge
  PROVE  IInv'
<1>1. /\ UNCHANGED <<saw, epoch, own, observed, exports>> /\ acked' = own
      /\ at' = [at EXCEPT ![Router] = "rest"] /\ call' = [call EXCEPT ![Router] = "none"]
      /\ at[Router] = "done" /\ call[Router] = "ack"
  BY DEF Acknowledge, Leave, Done
<1>2. Kinded'
  BY <1>1 DEF IInv, Kinded, Calls
<1>3. Past'
  BY <1>1 DEF IInv, Past
<1>4. at'[Router] = "rest" /\ \A t \in Threads : at'[t] = at[t] \/ at'[t] = "rest"
  BY <1>1, RouterIsThread DEF IInv, Kinded
<1>5. Fenced(own)
  BY <1>1 DEF IInv, Fences
<1>6. Fences'
  BY <1>1, <1>4, <1>5 DEF IInv, Fences, Fenced, Open, Looked
<1> QED BY <1>2, <1>3, <1>6 DEF IInv

-----------------------------------------------------------------------------
\* The exports

LEMMA ExportKeeps ==
  ASSUME IInv, NEW x \in Exports, NEW from, NEW new \in Export, Export1(x, from, new),
         new.stage = "open" => new.epoch = epoch
  PROVE  IInv'
<1>1. /\ UNCHANGED <<at, call, saw, epoch, own, acked, observed>>
      /\ exports' = [exports EXCEPT ![x] = new]
  BY DEF Export1
<1>2. exports \in [Exports -> Export]
  BY DEF IInv, Kinded
<1>3. \A y \in Exports : exports'[y] = IF y = x THEN new ELSE exports[y]
  BY <1>1, <1>2
<1>4. Careful
  BY <1>3 DEF Careful, Open
<1>5. FencesKept
  BY <1>4, CarefulKeeps DEF IInv
<1>6. Kinded'
  BY <1>1, <1>2 DEF IInv, Kinded
<1>7. Past'
  BY <1>1 DEF IInv, Past
<1>8. \A e \in Nat : e <= epoch /\ Fenced(e) => \A y \in Exports : Open(y)' => exports'[y].epoch >= e
  BY <1>5 DEF FencesKept, Fenced
<1>9. Fences'
  <2>1. /\ observed \in Nat /\ acked \in Nat /\ own \in Nat /\ \A t \in Threads : saw[t] \in Nat
    BY DEF IInv, Kinded
  <2>2. Fenced(observed)' /\ Fenced(acked)'
    BY <1>1, <1>8, <2>1 DEF IInv, Past, Fences, Fenced
  <2>3. \A t \in Threads : at'[t] \in {"snapshot", "push"} => Fenced(saw[t])'
    BY <1>1, <1>8, <2>1 DEF IInv, Past, Fences, Fenced
  <2>4. call'[Router] = "ack" /\ at'[Router] = "done" => Fenced(own)'
    BY <1>1, <1>8, <2>1 DEF IInv, Past, Fences, Fenced
  <2>5. call'[Router] = "ack" /\ at'[Router] \in Looked => saw'[Router] >= own'
    BY <1>1 DEF IInv, Fences
  <2> QED BY <2>2, <2>3, <2>4, <2>5 DEF Fences
<1> QED BY <1>6, <1>7, <1>9 DEF IInv

LEMMA ExportStepKeeps ==
  ASSUME IInv, NEW x \in Exports, ExportStep(x)
  PROVE  IInv'
<1>1. exports[x] \in Export /\ epoch \in Nat
  BY DEF IInv, Kinded
<1>2. CASE CreateExport(x)
  BY <1>1, <1>2, ExportKeeps DEF CreateExport, Export
<1>3. CASE ListExport(x)
  <2> DEFINE new == [exports[x] EXCEPT !.stage = "listed"]
  <2>1. new \in Export /\ new.stage = "listed"
    BY <1>1 DEF Export
  <2>2. Export1(x, "created", new)
    BY <1>3 DEF ListExport
  <2> HIDE DEF new
  <2> QED BY <2>1, <2>2, ExportKeeps
<1>4. CASE HandOut(x)
  <2> DEFINE new == [exports[x] EXCEPT !.stage = "open"]
  <2>1. new \in Export /\ new.epoch = exports[x].epoch
    BY <1>1 DEF Export
  <2>2. Export1(x, "listed", new) /\ exports[x].epoch = epoch
    BY <1>4 DEF HandOut, Handed
  <2> HIDE DEF new
  <2> QED BY <2>1, <2>2, ExportKeeps
<1>5. CASE TakeBack(x)
  <2> DEFINE new == [exports[x] EXCEPT !.stage = "stray"]
  <2>1. new \in Export /\ new.stage = "stray"
    BY <1>1 DEF Export
  <2>2. NoExport \in Export /\ NoExport.stage = "none"
    BY DEF Export, NoExport
  <2>3. Export1(x, "listed", NoExport) \/ Export1(x, "listed", new)
    BY <1>5 DEF TakeBack
  <2> HIDE DEF new
  <2> QED BY <2>1, <2>2, <2>3, ExportKeeps
<1>6. CASE CloseExport(x)
  <2>1. NoExport \in Export /\ NoExport.stage = "none"
    BY DEF Export, NoExport
  <2> QED BY <2>1, <1>6, ExportKeeps DEF CloseExport
<1> QED BY <1>2, <1>3, <1>4, <1>5, <1>6 DEF ExportStep

-----------------------------------------------------------------------------
LEMMA InitFences == EventsInit => IInv
<1> SUFFICES ASSUME EventsInit PROVE IInv
  OBVIOUS
<1>1. Kinded
  BY DEF EventsInit, Kinded, Calls, Export, NoExport
<1>2. Past
  BY DEF EventsInit, Past
<1>3. \A x \in Exports : ~Open(x)
  BY DEF EventsInit, Open, NoExport
<1>4. at[Router] = "rest" /\ \A t \in Threads : at[t] = "rest"
  BY RouterIsThread DEF EventsInit
<1>5. Fences
  BY <1>3, <1>4 DEF Fences, Fenced, Looked
<1> QED BY <1>1, <1>2, <1>5 DEF IInv

LEMMA NextFences == IInv /\ [EventsNext]_eventVars => IInv'
<1> SUFFICES ASSUME IInv, [EventsNext]_eventVars PROVE IInv'
  OBVIOUS
<1>1. CASE UNCHANGED eventVars
  BY <1>1 DEF eventVars, IInv, Kinded, Past, Fences, Fenced, Open
<1>2. CASE EventsNext
  <2>1. CASE EpochMoves \/ OtherWrite
    BY <2>1, EpochKeeps, WriteKeeps
  <2>2. CASE \E t \in Publishers : Captured(t)
    BY <2>2, PublishKeeps, RouterIsThread
  <2>3. CASE \E t \in Threads : Synchronize(t) \/ Publish(t)
    BY <2>3, SynchronizeKeeps, PublishKeeps
  <2>4. CASE Request \/ Mutate \/ Edit \/ Answered \/ Acknowledge
    BY <2>4, RequestKeeps, MutateKeeps, AcknowledgeKeeps
  <2>5. CASE \E x \in Exports : ExportStep(x)
    BY <2>5, ExportStepKeeps
  <2>6. CASE RemoteStep
    BY <2>6, RemoteKeeps
  <2> QED BY <1>2, <2>1, <2>2, <2>3, <2>4, <2>5, <2>6 DEF EventsNext
<1> QED BY <1>1, <1>2

\* No private export of the time before an acknowledged privacy change is open,
\* whichever thread revoked for it (Host::synchronize_privacy, with_access).
THEOREM AcknowledgedIsRevoked == EventsSpec => []RevokedBeforeAck
<1>1. IInv => RevokedBeforeAck
  BY DEF IInv, Fences, Fenced, RevokedBeforeAck
<1> QED BY InitFences, NextFences, <1>1, PTL DEF EventsSpec

-----------------------------------------------------------------------------
\* The rest of the types: the window and the desktop's loop

Windows ==
  /\ sequence \in Nat
  /\ recent \in Seq(Event) /\ Len(recent) <= Window

Rest ==
  /\ history \in Nat /\ holder \subseteq Threads
  /\ names \in [Threads -> Nat]
  /\ announced \subseteq [seq : Nat \ {0}, epoch : Nat]

Loop == remote \in RemoteState /\ reply \in Reply

LEMMA OneMore == \A n \in Nat : n + 1 \in Nat /\ n + 1 \in Nat \ {0}
  OBVIOUS

LEMMA WindowedFits ==
  ASSUME Windows, NEW e \in Event
  PROVE  /\ Windowed(Append(recent, e)) \in Seq(Event)
         /\ Len(Windowed(Append(recent, e))) <= Window
<1> DEFINE longer == Append(recent, e)
<1>1. longer \in Seq(Event) /\ Len(longer) = Len(recent) + 1 /\ longer # <<>>
  BY DEF Windows
<1>2. Tail(longer) \in Seq(Event) /\ Len(Tail(longer)) = Len(longer) - 1
  BY <1>1
<1> QED BY <1>1, <1>2, EventsAssumption DEF Windowed, Windows

LEMMA PushFits ==
  ASSUME Windows, NEW kind \in Kinds, Push(kind)
  PROVE  Windows' /\ sequence + 1 \in Nat \ {0}
<1> DEFINE e == [seq |-> sequence + 1, kind |-> kind]
<1>1. e \in Event
  BY OneMore DEF Windows, Event
<1>2. sequence' = sequence + 1 /\ recent' = Windowed(Append(recent, e))
  BY DEF Push
<1> HIDE DEF e
<1> QED BY <1>1, <1>2, WindowedFits, OneMore DEF Windows

LEMMA GoneTyped ==
  ASSUME remote \in RemoteState, NEW t \in Threads, CallFails(t)
  PROVE  remote' \in RemoteState
<1>1. [remote EXCEPT !.gone = TRUE] \in RemoteState
  BY DEF RemoteState
<1> QED BY <1>1 DEF CallFails

LEMMA SyncRest ==
  ASSUME IInv, Windows, Rest, Loop, NEW t \in Threads, Synchronize(t)
  PROVE  Windows' /\ Rest' /\ Loop'
<1>1. CASE SyncRead(t)
  BY <1>1 DEF SyncRead, Windows, Rest, Loop, log, clients
<1>2. CASE SyncLock(t)
  <2>1. Windows' /\ Loop'
    BY <1>2 DEF SyncLock, Windows, Loop, log, clients
  <2>2. holder' \in {holder, {t}} /\ names' \in {names, [names EXCEPT ![t] = 0]}
        /\ history' = history /\ announced' = announced
    BY <1>2 DEF SyncLock, Forget, log
  <2>3. holder' \subseteq Threads /\ names' \in [Threads -> Nat]
    BY <2>2 DEF Rest
  <2> QED BY <2>1, <2>2, <2>3 DEF Rest
<1>3. CASE SyncRevoke(t)
  BY <1>3 DEF SyncRevoke, Windows, Rest, Loop, log, clients
<1>4. CASE SyncRevokeFails(t)
  <2>1. Windows' /\ reply' = reply
    BY <1>4 DEF SyncRevokeFails, Windows, log
  <2>2. remote' \in RemoteState
    BY <1>4, GoneTyped DEF SyncRevokeFails, Loop
  <2>3. holder' = {} /\ names' = [names EXCEPT ![t] = 0]
        /\ history' = history /\ announced' = announced
    BY <1>4 DEF SyncRevokeFails, Refused, Forget, log
  <2>4. Rest'
    BY <2>3 DEF Rest
  <2> QED BY <2>1, <2>2, <2>4 DEF Loop
<1>5. CASE SyncSnapshot(t)
  <2>1. Windows' /\ reply' = reply /\ history' = history /\ announced' = announced
    BY <1>5 DEF SyncSnapshot, Windows, log
  <2>2. CASE names' = [names EXCEPT ![t] = epoch] /\ UNCHANGED <<holder, observed, saw, remote>>
    <3>1. names' \in [Threads -> Nat]
      BY <2>2 DEF Rest, IInv, Kinded
    <3> QED BY <2>1, <2>2, <3>1 DEF Rest, Loop
  <2>3. CASE Refused(t) /\ CallFails(t) /\ Forget(t)
    <3>1. remote' \in RemoteState
      BY <2>3, GoneTyped DEF Loop
    <3>2. holder' = {} /\ names' = [names EXCEPT ![t] = 0]
      BY <2>3 DEF Refused, Forget
    <3>3. Rest'
      BY <2>1, <3>2 DEF Rest
    <3> QED BY <2>1, <3>1, <3>3 DEF Loop
  <2> QED BY <1>5, <2>2, <2>3 DEF SyncSnapshot
<1>6. CASE SyncPush(t)
  <2>1. Windows' /\ sequence + 1 \in Nat \ {0}
    BY <1>6, PushFits DEF SyncPush, Kinds
  <2>2. Loop'
    BY <1>6 DEF SyncPush, Loop, clients
  <2>3. /\ holder' = {} /\ names' = [names EXCEPT ![t] = 0] /\ history' = history
        /\ announced' = announced \cup {[seq |-> sequence + 1, epoch |-> names[t]]}
    BY <1>6 DEF SyncPush, Forget
  <2>4. [seq |-> sequence + 1, epoch |-> names[t]] \in [seq : Nat \ {0}, epoch : Nat]
    BY <2>1 DEF Rest
  <2>5. Rest'
    BY <2>3, <2>4 DEF Rest
  <2> QED BY <2>1, <2>2, <2>5
<1> QED BY <1>1, <1>2, <1>3, <1>4, <1>5, <1>6 DEF Synchronize

LEMMA PublishRest ==
  ASSUME Windows, Rest, Loop, NEW t \in Threads, Publish(t)
  PROVE  Windows' /\ Rest' /\ Loop'
<1>1. Windows'
  BY PushFits DEF Publish, Kinds, Windows
<1>2. Rest' /\ Loop'
  BY DEF Publish, Rest, Loop, clients
<1> QED BY <1>1, <1>2

LEMMA RequestRest ==
  ASSUME Windows, Rest, Loop,
         \/ EpochMoves \/ OtherWrite \/ \E t \in Publishers : Captured(t)
         \/ Request \/ Mutate \/ Edit \/ Answered \/ Acknowledge
         \/ \E x \in Exports : ExportStep(x)
  PROVE  Windows' /\ Rest' /\ Loop'
<1>1. UNCHANGED <<holder, names, log, clients>>
  BY DEF EpochMoves, OtherWrite, Captured, Request, Mutate, Edit, Answered, Acknowledge,
         ExportStep, CreateExport, ListExport, HandOut, TakeBack, CloseExport, Export1,
         Noted, HistoryMoves
<1>2. history' = history \/ history' = history + 1
  BY DEF EpochMoves, OtherWrite, Captured, Request, Mutate, Edit, Answered, Acknowledge,
         ExportStep, CreateExport, ListExport, HandOut, TakeBack, CloseExport, Export1,
         Noted, HistoryMoves
<1>3. history' \in Nat
  BY <1>2, OneMore DEF Rest
<1> QED BY <1>1, <1>3 DEF log, clients, Windows, Rest, Loop

LEMMA RemoteRest ==
  ASSUME IInv, Windows, Rest, Loop, RemoteStep
  PROVE  Windows' /\ Rest' /\ Loop'
<1>1. Windows' /\ Rest'
  BY DEF RemoteStep, Poll, Collect, Report, Handle, Windows, Rest, log
<1>2. CASE Poll
  BY <1>1, <1>2 DEF Poll, Loop, clients
<1>3. CASE Collect
  <2>1. CASE CallFails(Remote) /\ UNCHANGED reply
    BY <1>1, <2>1, GoneTyped, RouterIsThread DEF Loop
  <2>2. CASE /\ UNCHANGED remote
             /\ reply' = [NoReply EXCEPT !.resync = Gap(remote.after), !.sequence = sequence,
                  !.events = IF Gap(remote.after) THEN {} ELSE After(remote.after)]
    <3> DEFINE some == IF Gap(remote.after) THEN {} ELSE After(remote.after)
    <3>1. After(remote.after) \subseteq Event
      BY DEF After, ToSet, Windows
    <3>2. some \in SUBSET Event /\ sequence \in Nat
      BY <3>1 DEF Windows
    <3>3. Gap(remote.after) \in BOOLEAN
      BY DEF Gap
    <3>4. reply' = [events |-> some, resync |-> Gap(remote.after), sequence |-> sequence,
                    revision |-> 0, full |-> FALSE]
      BY <2>2 DEF NoReply
    <3> HIDE DEF some
    <3>5. reply' \in Reply
      BY <3>2, <3>3, <3>4 DEF Reply
    <3> QED BY <1>1, <2>2, <3>5 DEF Loop
  <2> QED BY <1>3, <2>1, <2>2 DEF Collect
<1>4. CASE Report
  <2>1. CASE CallFails(Remote) /\ UNCHANGED reply
    BY <1>1, <2>1, GoneTyped, RouterIsThread DEF Loop
  <2>2. CASE reply' = [reply EXCEPT !.revision = history, !.full = TRUE] /\ UNCHANGED remote
    <3>1. reply' \in Reply
      BY <2>2 DEF Loop, Reply, Rest
    <3> QED BY <1>1, <2>2, <3>1 DEF Loop
  <2> QED BY <1>4, <2>1, <2>2 DEF Report
<1>5. CASE Handle
  <2> DEFINE view == IF PrivacyChanged THEN epoch ELSE remote.view
             rows == IF RowsChanged THEN history ELSE remote.rows
             missed == IF reply.resync THEN reply.sequence ELSE remote.missed
  <2>1. view \in Nat /\ rows \in Nat /\ missed \in Nat
        /\ reply.sequence \in Nat /\ reply.revision \in Nat /\ remote.gone \in BOOLEAN
    BY DEF Loop, Rest, IInv, Kinded, RemoteState, Reply
  <2>2. remote' = [remote EXCEPT !.after = reply.sequence, !.last = reply.revision,
                     !.view = view, !.rows = rows, !.missed = missed]
    BY <1>5 DEF Handle
  <2> HIDE DEF view, rows, missed
  <2>3. remote' \in RemoteState
    BY <2>1, <2>2 DEF Loop, RemoteState
  <2>4. reply' \in Reply
    BY <1>5 DEF Handle, NoReply, Reply
  <2> QED BY <1>1, <2>3, <2>4 DEF Loop
<1> QED BY <1>2, <1>3, <1>4, <1>5 DEF RemoteStep

LEMMA InitRest == EventsInit => Windows /\ Rest /\ Loop
<1> SUFFICES ASSUME EventsInit PROVE Windows /\ Rest /\ Loop
  OBVIOUS
<1>1. Windows
  BY EventsAssumption DEF EventsInit, Windows
<1>2. Rest
  BY DEF EventsInit, Rest
<1>3. Loop
  BY DEF EventsInit, Loop, RemoteState, Reply, NoReply
<1> QED BY <1>1, <1>2, <1>3

LEMMA NextRest == IInv /\ Windows /\ Rest /\ Loop /\ [EventsNext]_eventVars => Windows' /\ Rest' /\ Loop'
<1> SUFFICES ASSUME IInv, Windows, Rest, Loop, [EventsNext]_eventVars PROVE Windows' /\ Rest' /\ Loop'
  OBVIOUS
<1>1. CASE UNCHANGED eventVars
  BY <1>1 DEF eventVars, log, clients, Windows, Rest, Loop
<1>2. CASE EventsNext
  BY <1>2, SyncRest, PublishRest, RequestRest, RemoteRest DEF EventsNext
<1> QED BY <1>1, <1>2

\* The state stays within its types, and the window within its length.
THEOREM Typed == EventsSpec => []TypeOK
<1>1. IInv /\ Windows /\ Rest /\ Loop => TypeOK
  BY DEF IInv, Kinded, Windows, Rest, Loop, TypeOK
<1> QED BY InitFences, NextFences, InitRest, NextRest, <1>1, PTL DEF EventsSpec

-----------------------------------------------------------------------------
\* What the desktop learns of the events.  The numbers in the window have no hole,
\* so an answer without a gap holds every event since the last one handled, and an
\* announcement that lies between is among them.

\* The window is a run of consecutive numbers that ends with the last.
Consecutive ==
  /\ Len(recent) <= sequence
  /\ recent = <<>> => sequence = 0
  /\ \A i \in 1 .. Len(recent) : recent[i].seq = sequence - Len(recent) + i

\* An answer is on its way, and says of the events after the last one handled ...
Pending == reply.full \/ call[Remote] = "report"
Between(a) == remote.after < a.seq /\ a.seq <= reply.sequence

\* ... all there are, and of privacy when an epoch was announced among them.
Answers ==
  /\ reply.full => call[Remote] = "none"
  /\ reply.sequence <= sequence /\ remote.after <= sequence
  /\ Pending /\ ~reply.resync =>
       /\ {e.seq : e \in reply.events} = remote.after + 1 .. reply.sequence
       /\ \A a \in announced : Between(a) => PrivacyChanged

\* An announcement is of an epoch there was, and its event one of privacy.
Announcements ==
  /\ \A t \in Threads : names[t] <= epoch
  /\ remote.view <= epoch
  /\ \A a \in announced :
       /\ a.seq <= sequence /\ a.epoch <= epoch
       /\ \A i \in 1 .. Len(recent) : recent[i].seq = a.seq => recent[i].kind = "privacy"

Follows == Consecutive /\ Answers /\ Announcements /\ PrivacyViewFollows

\* An event in the window of n + 1 is the new one, or was in the window of n.
LEMMA WindowMoves ==
  ASSUME TypeOK, Consecutive, NEW kind \in Kinds, Push(kind)
  PROVE  /\ Consecutive'
         /\ \A i \in 1 .. Len(recent') :
              \/ recent'[i] = [seq |-> sequence + 1, kind |-> kind]
              \/ \E j \in 1 .. Len(recent) : recent'[i] = recent[j]
<1> DEFINE e == [seq |-> sequence + 1, kind |-> kind]
<1> DEFINE n == Len(recent)
<1> DEFINE longer == Append(recent, e)
<1>1. /\ recent \in Seq(Event) /\ sequence \in Nat /\ n \in Nat /\ n <= sequence
      /\ Window \in Nat \ {0}
  BY EventsAssumption DEF TypeOK, Consecutive
<1>2. e \in Event
  BY <1>1 DEF Event
<1>3. /\ longer \in Seq(Event) /\ Len(longer) = n + 1 /\ longer # <<>>
      /\ longer[n + 1] = e /\ \A i \in 1 .. n : longer[i] = recent[i]
  BY <1>1, <1>2
<1>4. /\ Tail(longer) \in Seq(Event) /\ Len(Tail(longer)) = n
      /\ \A i \in 1 .. n : Tail(longer)[i] = longer[i + 1]
  BY <1>1, <1>3
<1>5. sequence' = sequence + 1 /\ recent' = Windowed(longer)
  BY DEF Push
<1>6. CASE n + 1 > Window
  <2>1. recent' = Tail(longer) /\ Len(recent') = n /\ n # 0
    BY <1>1, <1>3, <1>4, <1>5, <1>6 DEF Windowed
  <2>2. \A i \in 1 .. n : recent'[i] = IF i = n THEN e ELSE recent[i + 1]
    BY <1>1, <1>3, <1>4, <2>1
  <2> HIDE DEF longer
  <2>3. \A i \in 1 .. n : recent'[i].seq = sequence + 1 - n + i
    <3> SUFFICES ASSUME NEW i \in 1 .. n PROVE recent'[i].seq = sequence + 1 - n + i
      OBVIOUS
    <3>1. CASE i = n
      BY <1>1, <2>2, <3>1
    <3>2. CASE i # n
      <4>1. i + 1 \in 1 .. n /\ recent'[i] = recent[i + 1]
        BY <1>1, <2>2, <3>2
      <4>2. recent[i + 1].seq = sequence - n + (i + 1)
        BY <4>1 DEF Consecutive
      <4> QED
        BY <1>1, <4>1, <4>2
    <3> QED
      BY <3>1, <3>2
  <2>4. \A i \in 1 .. n : recent'[i] = e \/ \E j \in 1 .. n : recent'[i] = recent[j]
    <3> SUFFICES ASSUME NEW i \in 1 .. n, i # n PROVE \E j \in 1 .. n : recent'[i] = recent[j]
      BY <2>2
    <3>1. i + 1 \in 1 .. n
      BY <1>1
    <3> QED
      BY <2>2, <3>1
  <2>5. recent' # <<>>
    BY <2>1
  <2>6. Len(recent') <= sequence' /\ sequence' - Len(recent') = sequence + 1 - n
    <3>1. sequence' = sequence + 1 /\ Len(recent') = n
      BY <1>5, <2>1
    <3> HIDE DEF n
    <3> QED
      BY <1>1, <3>1
  <2>7. \A i \in 1 .. Len(recent') : recent'[i].seq = sequence' - Len(recent') + i
    BY <2>1, <2>3, <2>6
  <2>8. Consecutive'
    BY <2>5, <2>6, <2>7 DEF Consecutive
  <2> QED
    BY <2>1, <2>4, <2>8
<1>7. CASE ~(n + 1 > Window)
  <2>1. recent' = longer /\ Len(recent') = n + 1
    BY <1>3, <1>5, <1>7 DEF Windowed
  <2>2. \A i \in 1 .. n + 1 : recent'[i] = IF i = n + 1 THEN e ELSE recent[i]
    BY <1>1, <1>3, <2>1
  <2> HIDE DEF longer
  <2>3. \A i \in 1 .. n + 1 : recent'[i].seq = sequence + 1 - (n + 1) + i
    BY <1>1, <2>2 DEF Consecutive
  <2>4. \A i \in 1 .. n + 1 : recent'[i] = e \/ \E j \in 1 .. n : recent'[i] = recent[j]
    <3> SUFFICES ASSUME NEW i \in 1 .. n + 1, i # n + 1
                 PROVE  \E j \in 1 .. n : recent'[i] = recent[j]
      BY <2>2
    <3>1. i \in 1 .. n
      BY <1>1
    <3> QED
      BY <2>2, <3>1
  <2>5. recent' # <<>>
    BY <1>1, <2>1
  <2>6. Consecutive'
    BY <1>1, <1>5, <2>1, <2>3, <2>5 DEF Consecutive
  <2> QED
    BY <2>1, <2>4, <2>6
<1> QED
  BY <1>6, <1>7

\* Without a gap the window holds every event after n, each once.
LEMMA WindowReaches ==
  ASSUME TypeOK, Consecutive, NEW n \in Nat, ~Gap(n)
  PROVE  /\ n <= sequence
         /\ {e.seq : e \in After(n)} = n + 1 .. sequence
         /\ \A s \in n + 1 .. sequence : \E i \in 1 .. Len(recent) : recent[i].seq = s
<1> DEFINE k == Len(recent)
<1>1. /\ recent \in Seq(Event) /\ sequence \in Nat /\ k \in Nat /\ k <= sequence
      /\ n <= sequence
  BY DEF TypeOK, Consecutive, Gap
<1>2. \A i \in 1 .. k : recent[i] \in ToSet(recent) /\ recent[i].seq = sequence - k + i
  BY <1>1 DEF ToSet, Consecutive
<1>3. \A e \in ToSet(recent) : \E i \in 1 .. k : e = recent[i]
  BY <1>1 DEF ToSet
<1>4. k # 0 => n + 1 >= sequence - k + 1
  <2> SUFFICES ASSUME k # 0 PROVE n + 1 >= sequence - k + 1
    OBVIOUS
  <2>1. recent # <<>> /\ 1 \in 1 .. k
    BY <1>1
  <2>2. OldestSeq = sequence - k + 1
    BY <1>2, <2>1 DEF OldestSeq
  <2>3. ~(n + 1 < OldestSeq)
    BY DEF Gap
  <2> QED
    BY <1>1, <2>2, <2>3
<1>5. k = 0 => sequence = 0
  BY <1>1 DEF Consecutive
<1>6. ASSUME NEW s \in n + 1 .. sequence
      PROVE  \E i \in 1 .. k : recent[i].seq = s
  <2>1. k # 0
    BY <1>1, <1>5, <1>6
  <2>2. s - sequence + k \in 1 .. k
    BY <1>1, <1>4, <1>6, <2>1
  <2>3. recent[s - sequence + k].seq = s
    BY <1>1, <1>2, <1>6, <2>2
  <2> QED
    BY <2>2, <2>3
<1>7. {e.seq : e \in After(n)} \subseteq n + 1 .. sequence
  <2> SUFFICES ASSUME NEW e \in After(n) PROVE e.seq \in n + 1 .. sequence
    OBVIOUS
  <2>1. PICK i \in 1 .. k : e = recent[i]
    BY <1>3 DEF After
  <2>2. e.seq > n /\ e.seq = sequence - k + i
    BY <1>2, <2>1 DEF After
  <2> QED
    BY <1>1, <2>2
<1>8. n + 1 .. sequence \subseteq {e.seq : e \in After(n)}
  <2> SUFFICES ASSUME NEW s \in n + 1 .. sequence PROVE \E e \in After(n) : e.seq = s
    OBVIOUS
  <2>1. PICK i \in 1 .. k : recent[i].seq = s
    BY <1>6
  <2>2. recent[i] \in After(n)
    BY <1>1, <1>2, <2>1 DEF After
  <2> QED
    BY <2>1, <2>2
<1> QED
  BY <1>1, <1>6, <1>7, <1>8

-----------------------------------------------------------------------------
\* What an answer says and what the windows have asked for stay true of every step
\* that neither pushes nor moves the answer.

Names == \A t \in Threads : names'[t] <= epoch'

LoopKept ==
  /\ remote'.after = remote.after /\ remote'.view = remote.view
  /\ remote'.missed = remote.missed
  /\ reply' = reply

\* No answer is begun.
NoneBegun ==
  /\ reply.full => call'[Remote] = "none"
  /\ call'[Remote] = "report" => call[Remote] = "report"

LEMMA AnswersKept ==
  ASSUME Answers, LoopKept, NoneBegun, sequence <= sequence', sequence' \in Nat, TypeOK,
         \A a \in announced' : a \in announced \/ (a.seq \in Nat /\ a.seq > sequence)
  PROVE  Answers'
<1>1. Pending' => Pending
  BY DEF Pending, NoneBegun, LoopKept
<1>2. /\ sequence \in Nat /\ reply.sequence \in Nat /\ remote.after \in Nat
  BY DEF TypeOK, RemoteState, Reply
<1>3. /\ reply'.full => call'[Remote] = "none"
      /\ reply'.sequence <= sequence' /\ remote'.after <= sequence'
  BY <1>2 DEF Answers, NoneBegun, LoopKept
<1>4. ASSUME Pending', ~reply'.resync
      PROVE  {e.seq : e \in reply'.events} = remote'.after + 1 .. reply'.sequence
  BY <1>1, <1>4 DEF Answers, LoopKept
<1>5. ASSUME Pending', ~reply'.resync, NEW a \in announced', Between(a)'
      PROVE  PrivacyChanged'
  <2>1. ASSUME a \in announced PROVE PrivacyChanged'
    <3>1. Between(a)
      BY <1>5 DEF Between, LoopKept
    <3> QED
      BY <1>1, <1>5, <2>1, <3>1 DEF Answers, LoopKept, PrivacyChanged
  <2>2. ~(a.seq \in Nat /\ a.seq > sequence)
    <3>1. a.seq <= reply.sequence /\ reply.sequence <= sequence
      BY <1>5 DEF Between, LoopKept, Answers
    <3> QED
      BY <1>2, <3>1
  <2> QED
    BY <2>1, <2>2
<1> QED
  BY <1>3, <1>4, <1>5 DEF Answers

LEMMA StillFollows ==
  ASSUME TypeOK, Follows, LoopKept, NoneBegun, Names, epoch <= epoch', epoch' \in Nat,
         UNCHANGED <<recent, sequence, announced>>
  PROVE  Follows'
<1>1. Consecutive'
  BY DEF Follows, Consecutive
<1>2. sequence \in Nat /\ epoch \in Nat /\ remote.view \in Nat
  BY DEF TypeOK, RemoteState
<1>3. Answers'
  BY <1>2, AnswersKept DEF Follows
<1>4. Announcements'
  <2>1. remote'.view <= epoch'
    BY <1>2 DEF Follows, Announcements, LoopKept
  <2>2. ASSUME NEW a \in announced
        PROVE  a.epoch <= epoch'
    <3>1. a.epoch \in Nat /\ a.epoch <= epoch
      BY DEF TypeOK, Follows, Announcements
    <3> QED
      BY <1>2, <3>1
  <2> QED
    BY <2>1, <2>2 DEF Follows, Announcements, Names
<1>5. PrivacyViewFollows'
  BY DEF Follows, PrivacyViewFollows, LoopKept
<1> QED
  BY <1>1, <1>3, <1>4, <1>5 DEF Follows

\* An event is pushed; when it is one of privacy, its epoch is noted.
LEMMA PushFollows ==
  ASSUME TypeOK, TypeOK', Follows, LoopKept, NoneBegun, Names, epoch' = epoch,
         NEW kind \in Kinds, Push(kind),
         NEW n \in Nat, n <= epoch,
         \/ announced' = announced
         \/ /\ kind = "privacy"
            /\ announced' = announced \cup {[seq |-> sequence + 1, epoch |-> n]}
  PROVE  Follows'
<1> DEFINE new == [seq |-> sequence + 1, epoch |-> n]
<1>1. /\ sequence \in Nat /\ sequence' = sequence + 1 /\ epoch \in Nat
      /\ remote.after \in Nat /\ remote.after <= sequence
  BY DEF TypeOK, RemoteState, Push, Follows, Answers
<1>2. \A a \in announced' : a \in announced \/ (kind = "privacy" /\ a = new)
  OBVIOUS
<1>3. new.seq = sequence + 1 /\ new.epoch = n
  OBVIOUS
<1> HIDE DEF new
<1>4. /\ Consecutive'
      /\ \A i \in 1 .. Len(recent') :
           \/ recent'[i] = [seq |-> sequence + 1, kind |-> kind]
           \/ \E j \in 1 .. Len(recent) : recent'[i] = recent[j]
  BY WindowMoves DEF Follows
<1>5. Answers'
  <2>1. sequence <= sequence' /\ sequence' \in Nat
    BY <1>1
  <2>2. \A a \in announced' : a \in announced \/ (a.seq \in Nat /\ a.seq > sequence)
    BY <1>1, <1>2, <1>3
  <2> QED
    BY <2>1, <2>2, AnswersKept DEF Follows
<1>6. \A a \in announced : a.seq \in Nat /\ a.epoch \in Nat /\ a.seq <= sequence /\ a.epoch <= epoch
  BY DEF TypeOK, Follows, Announcements
<1>7. ASSUME NEW a \in announced'
      PROVE  /\ a.seq <= sequence' /\ a.epoch <= epoch'
             /\ \A i \in 1 .. Len(recent') :
                  recent'[i].seq = a.seq => recent'[i].kind = "privacy"
  <2>1. CASE a \in announced
    <3>1. ASSUME NEW i \in 1 .. Len(recent'), recent'[i].seq = a.seq
          PROVE  recent'[i].kind = "privacy"
      <4>1. recent'[i] # [seq |-> sequence + 1, kind |-> kind]
        BY <1>1, <1>6, <2>1, <3>1
      <4>2. PICK j \in 1 .. Len(recent) : recent'[i] = recent[j]
        BY <1>4, <4>1
      <4> QED
        BY <2>1, <3>1, <4>2 DEF Follows, Announcements
    <3> QED
      BY <1>1, <1>6, <2>1, <3>1
  <2>2. CASE kind = "privacy" /\ a = new
    <3>1. ASSUME NEW i \in 1 .. Len(recent'), recent'[i].seq = a.seq
          PROVE  recent'[i].kind = "privacy"
      <4>1. ASSUME NEW j \in 1 .. Len(recent) PROVE recent[j].seq # sequence + 1
        <5>1. recent[j].seq = sequence - Len(recent) + j
          BY DEF Follows, Consecutive
        <5>2. Len(recent) \in Nat
          BY DEF TypeOK
        <5> QED
          BY <1>1, <5>1, <5>2
      <4>2. recent'[i].seq = sequence + 1
        BY <1>3, <2>2, <3>1
      <4>3. recent'[i] = [seq |-> sequence + 1, kind |-> kind]
        BY <1>4, <4>1, <4>2
      <4> QED
        BY <2>2, <4>3
    <3> QED
      BY <1>1, <1>3, <2>2, <3>1
  <2> QED
    BY <1>2, <2>1, <2>2
<1>8. Announcements'
  BY <1>7 DEF Announcements, Names, Follows, LoopKept
<1>9. PrivacyViewFollows'
  <2> SUFFICES ASSUME NEW a \in announced', remote'.after >= a.seq
               PROVE  remote'.view >= a.epoch \/ remote'.missed >= a.seq
    BY DEF PrivacyViewFollows
  <2>1. a # new
    BY <1>1, <1>3 DEF LoopKept
  <2> QED
    BY <1>2, <2>1 DEF Follows, PrivacyViewFollows, LoopKept
<1> QED
  BY <1>4, <1>5, <1>8, <1>9 DEF Follows

\* A remote that is refused keeps what it knew.
LEMMA FailingKeepsLoop ==
  ASSUME TypeOK, NEW t \in Threads, CallFails(t), UNCHANGED reply
  PROVE  LoopKept
<1>1. remote \in RemoteState
  BY DEF TypeOK
<1>2. remote' = remote \/ remote' = [remote EXCEPT !.gone = TRUE]
  BY DEF CallFails
<1> QED
  BY <1>1, <1>2 DEF LoopKept, RemoteState

-----------------------------------------------------------------------------
\* The steps

\* synchronize_privacy begins no answer, and the epoch it announces is one there was.
LEMMA SyncFollows ==
  ASSUME TypeOK, TypeOK', Follows, NEW t \in Threads, Synchronize(t)
  PROVE  Follows'
<1>0. /\ epoch \in Nat /\ \A u \in Threads : names[u] <= epoch
      /\ names \in [Threads -> Nat] /\ call \in [Threads -> Calls]
  BY DEF TypeOK, Follows, Announcements
<1>1. epoch' = epoch
  BY DEF Synchronize, SyncRead, SyncLock, SyncRevoke, SyncRevokeFails, SyncSnapshot, SyncPush
<1>2. Names
  <2>1. \/ names' = names \/ names' = [names EXCEPT ![t] = 0]
        \/ names' = [names EXCEPT ![t] = epoch]
    BY DEF Synchronize, SyncRead, SyncLock, SyncRevoke, SyncRevokeFails, SyncSnapshot, SyncPush,
           Forget
  <2>2. names'[t] \in {names[t], 0, epoch} /\ \A u \in Threads \ {t} : names'[u] = names[u]
    BY <1>0, <2>1
  <2> QED
    BY <1>0, <1>1, <2>2 DEF Names
<1>3. LoopKept
  BY ZenonT(30) DEF Synchronize, SyncRead, SyncLock, SyncRevoke, SyncRevokeFails, SyncSnapshot, SyncPush,
         CallFails, clients, LoopKept, TypeOK, RemoteState
<1>4. NoneBegun
  <2>1. call' = call \/ call' = [call EXCEPT ![t] = "none"]
    BY DEF Synchronize, SyncRead, SyncLock, SyncRevoke, SyncRevokeFails, SyncSnapshot, SyncPush,
           CallFails, Leave, Reach
  <2>2. call'[Remote] \in {call[Remote], "none"}
    BY <1>0, <2>1, RouterIsThread
  <2> QED
    BY <2>2 DEF NoneBegun, Follows, Answers
<1>5. CASE SyncPush(t)
  <2>1. Push("privacy") /\ names[t] \in Nat /\ names[t] <= epoch
        /\ announced' = announced \cup {[seq |-> sequence + 1, epoch |-> names[t]]}
    BY <1>0, <1>5 DEF SyncPush
  <2> QED
    BY <1>1, <1>2, <1>3, <1>4, <2>1, PushFollows DEF Kinds
<1>6. CASE ~SyncPush(t)
  <2>1. UNCHANGED <<recent, sequence, announced>>
    BY <1>6 DEF Synchronize, SyncRead, SyncLock, SyncRevoke, SyncRevokeFails, SyncSnapshot, log
  <2> QED
    BY <1>0, <1>1, <1>2, <1>3, <1>4, <2>1, StillFollows
<1> QED
  BY <1>5, <1>6

LEMMA PublishFollows ==
  ASSUME TypeOK, TypeOK', Follows, NEW t \in Threads, Publish(t)
  PROVE  Follows'
<1>1. /\ epoch' = epoch /\ epoch \in Nat /\ announced' = announced
      /\ Names /\ LoopKept
  BY DEF Publish, TypeOK, Names, LoopKept, clients, Follows, Announcements
<1>2. NoneBegun
  <2>1. call'[Remote] \in {call[Remote], "none"}
    BY RouterIsThread DEF Publish, Leave, TypeOK
  <2> QED
    BY <2>1 DEF NoneBegun, Follows, Answers
<1>3. CASE Push("entry")
  BY <1>1, <1>2, <1>3, PushFollows DEF Kinds
<1>4. CASE UNCHANGED <<sequence, recent>>
  BY <1>1, <1>2, <1>4, StillFollows
<1> QED
  BY <1>3, <1>4 DEF Publish

LEMMA OtherFollows ==
  ASSUME TypeOK, TypeOK', Follows,
         \/ EpochMoves \/ OtherWrite \/ \E t \in Publishers : Captured(t)
         \/ Request \/ Mutate \/ Edit \/ Answered \/ Acknowledge
         \/ \E x \in Exports : ExportStep(x)
  PROVE  Follows'
<1>1. UNCHANGED <<names, recent, sequence, announced, remote, reply>>
  BY DEF EpochMoves, OtherWrite, Captured, Request, Mutate, Edit, Answered, Acknowledge,
         ExportStep, CreateExport, ListExport, HandOut, TakeBack, CloseExport, Export1,
         log, clients
<1>2. epoch' = epoch \/ epoch' = epoch + 1
  BY DEF EpochMoves, OtherWrite, Captured, Request, Mutate, Edit, Answered, Acknowledge,
         ExportStep, CreateExport, ListExport, HandOut, TakeBack, CloseExport, Export1
<1>3. \/ call' = call
      \/ \E t \in Publishers \cup {Router}, c \in Calls : call' = [call EXCEPT ![t] = c]
  BY DEF EpochMoves, OtherWrite, Captured, Request, Mutate, Edit, Answered, Acknowledge,
         ExportStep, CreateExport, ListExport, HandOut, TakeBack, CloseExport, Export1,
         Enter, Leave, Calls
<1>4. call'[Remote] = call[Remote]
  BY <1>3, RouterIsThread, EventsAssumption DEF TypeOK
<1>5. epoch \in Nat /\ epoch <= epoch' /\ epoch' \in Nat
  BY <1>2 DEF TypeOK
<1>6. Names
  BY <1>1, <1>5 DEF Names, TypeOK, Follows, Announcements
<1> QED
  BY <1>1, <1>4, <1>5, <1>6, StillFollows DEF LoopKept, NoneBegun, Follows, Answers

LEMMA PollFollows ==
  ASSUME TypeOK, TypeOK', Follows, Poll
  PROVE  Follows'
<1>1. call'[Remote] = "subscribe"
  BY RouterIsThread DEF Poll, Enter, TypeOK
<1>2. ~reply.full /\ UNCHANGED <<epoch, names, recent, sequence, announced, remote, reply>>
  BY DEF Poll, log, clients
<1> QED
  BY <1>1, <1>2, StillFollows
  DEF LoopKept, NoneBegun, Names, TypeOK, Follows, Announcements

\* The answer holds what the window holds, which without a gap is all there is.
LEMMA CollectFollows ==
  ASSUME TypeOK, TypeOK', Follows, Collect
  PROVE  Follows'
<1>0. /\ UNCHANGED <<epoch, names, recent, sequence, announced>>
      /\ epoch \in Nat /\ call[Remote] = "subscribe" /\ ~reply.full
  BY DEF Collect, log, TypeOK, Done, Follows, Answers
<1>1. CASE CallFails(Remote) /\ UNCHANGED reply
  <2>1. call'[Remote] = "none"
    BY <1>1, RouterIsThread DEF CallFails, Leave, TypeOK
  <2>2. LoopKept
    BY <1>1, FailingKeepsLoop, RouterIsThread
  <2> QED
    BY <1>0, <2>1, <2>2, StillFollows
    DEF NoneBegun, Names, Follows, Announcements
<1>2. CASE /\ Enter(Remote, "report") /\ UNCHANGED remote
           /\ reply' = [NoReply EXCEPT !.resync = Gap(remote.after), !.sequence = sequence,
                !.events = IF Gap(remote.after) THEN {} ELSE After(remote.after)]
  <2>1. /\ reply'.resync = Gap(remote.after) /\ reply'.sequence = sequence /\ ~reply'.full
        /\ reply'.events = IF Gap(remote.after) THEN {} ELSE After(remote.after)
    BY <1>2 DEF NoReply
  <2>2. remote' = remote /\ remote.after \in Nat /\ sequence \in Nat /\ remote.after <= sequence
    BY <1>2 DEF TypeOK, RemoteState, Follows, Answers
  <2>3. ASSUME ~reply'.resync
        PROVE  /\ {e.seq : e \in reply'.events} = remote'.after + 1 .. reply'.sequence
               /\ \A a \in announced' : Between(a)' => PrivacyChanged'
    <3>1. ~Gap(remote.after) /\ reply'.events = After(remote.after)
      BY <2>1, <2>3
    <3>2. /\ {e.seq : e \in After(remote.after)} = remote.after + 1 .. sequence
          /\ \A s \in remote.after + 1 .. sequence :
               \E i \in 1 .. Len(recent) : recent[i].seq = s
      BY <2>2, <3>1, WindowReaches DEF Follows
    <3>3. ASSUME NEW a \in announced, remote.after < a.seq, a.seq <= sequence
          PROVE  \E e \in After(remote.after) : e.kind = "privacy"
      <4>1. a.seq \in remote.after + 1 .. sequence
        BY SMTT(20), <2>2, <3>3 DEF TypeOK
      <4>2. PICK i \in 1 .. Len(recent) : recent[i].seq = a.seq
        BY <3>2, <4>1
      <4>3. recent[i] \in After(remote.after)
        BY SMTT(20), <3>3, <4>2 DEF After, ToSet, TypeOK
      <4>4. recent[i].kind = "privacy"
        BY <4>2 DEF Follows, Announcements
      <4> QED
        BY <4>3, <4>4
    <3>4. ASSUME NEW a \in announced', Between(a)' PROVE PrivacyChanged'
      <4>1. a \in announced /\ remote.after < a.seq /\ a.seq <= sequence
        BY <1>0, <2>1, <2>2, <3>4 DEF Between
      <4> QED
        BY <3>1, <3>3, <4>1 DEF PrivacyChanged
    <3> QED
      BY <2>1, <2>2, <3>1, <3>2, <3>4
  <2>4. Answers'
    BY <1>0, <2>1, <2>2, <2>3 DEF Answers
  <2>5. Consecutive' /\ Announcements' /\ PrivacyViewFollows'
    BY <1>0, <2>2 DEF Follows, Consecutive, Announcements, PrivacyViewFollows
  <2> QED
    BY <2>4, <2>5 DEF Follows
<1> QED
  BY <1>1, <1>2 DEF Collect

LEMMA ReportFollows ==
  ASSUME TypeOK, TypeOK', Follows, Report
  PROVE  Follows'
<1>0. /\ UNCHANGED <<epoch, names, recent, sequence, announced>>
      /\ epoch \in Nat /\ call[Remote] = "report" /\ call'[Remote] = "none"
  BY RouterIsThread DEF Report, log, TypeOK, Done, CallFails, Leave
<1>1. CASE CallFails(Remote) /\ UNCHANGED reply
  <2>1. LoopKept
    BY <1>1, FailingKeepsLoop, RouterIsThread
  <2>2. NoneBegun
    BY <1>0 DEF NoneBegun
  <2>3. Names /\ epoch <= epoch' /\ epoch' \in Nat
    BY <1>0 DEF Names, Follows, Announcements
  <2> QED
    BY <1>0, <2>1, <2>2, <2>3, StillFollows
<1>2. CASE /\ reply' = [reply EXCEPT !.revision = history, !.full = TRUE]
           /\ UNCHANGED remote
  <2>1. /\ reply'.resync = reply.resync /\ reply'.sequence = reply.sequence
        /\ reply'.events = reply.events /\ remote' = remote
    BY <1>2 DEF TypeOK, Reply
  <2>2. Pending
    BY <1>0 DEF Pending
  <2>3. Answers'
    BY <1>0, <2>1, <2>2 DEF Follows, Answers, Between, PrivacyChanged
  <2>4. Consecutive' /\ Announcements' /\ PrivacyViewFollows'
    BY <1>0, <2>1 DEF Follows, Consecutive, Announcements, PrivacyViewFollows
  <2> QED
    BY <2>3, <2>4 DEF Follows
<1> QED
  BY <1>1, <1>2 DEF Report

\* The windows ask under the epoch of the moment, which is not behind any that was
\* announced.
LEMMA HandleFollows ==
  ASSUME TypeOK, TypeOK', Follows, Handle
  PROVE  Follows'
<1>0. /\ UNCHANGED <<epoch, names, recent, sequence, announced, call>>
      /\ epoch \in Nat /\ reply.full /\ ~reply'.full
  BY DEF Handle, NoReply, log, TypeOK
<1>1. /\ remote'.after = reply.sequence
      /\ remote'.view = IF PrivacyChanged THEN epoch ELSE remote.view
      /\ remote'.missed = IF reply.resync THEN reply.sequence ELSE remote.missed
  BY DEF Handle, TypeOK, RemoteState
<1>2. /\ sequence \in Nat /\ reply.sequence \in Nat /\ remote.view \in Nat
      /\ remote.after \in Nat /\ remote.view <= epoch
      /\ call[Remote] = "none" /\ Pending
  BY <1>0 DEF TypeOK, RemoteState, Reply, Follows, Answers, Announcements, Pending
<1>3. Answers'
  <2>1. ~Pending'
    BY <1>0, <1>2 DEF Pending
  <2>2. reply'.sequence = 0
    BY DEF Handle, NoReply
  <2> QED
    BY <1>0, <1>1, <1>2, <2>1, <2>2 DEF Answers, Follows
<1>4. Announcements'
  BY <1>0, <1>1, <1>2 DEF Follows, Announcements
<1>5. PrivacyViewFollows'
  <2> SUFFICES ASSUME NEW a \in announced, reply.sequence >= a.seq
               PROVE  remote'.view >= a.epoch \/ remote'.missed >= a.seq
    BY <1>0, <1>1 DEF PrivacyViewFollows
  <2>1. a.seq \in Nat /\ a.epoch \in Nat /\ a.epoch <= epoch
    BY DEF TypeOK, Follows, Announcements
  <2>2. CASE reply.resync
    BY <1>1, <2>2
  <2>3. CASE ~reply.resync /\ PrivacyChanged
    BY <1>1, <1>2, <2>1, <2>3
  <2>4. CASE ~reply.resync /\ ~PrivacyChanged
    <3>1. ~Between(a)
      BY <1>2, <2>4 DEF Follows, Answers
    <3>2. remote.after >= a.seq
      BY <1>2, <2>1, <3>1 DEF Between
    <3> QED
      BY <1>1, <2>4, <3>2 DEF Follows, PrivacyViewFollows
  <2> QED
    BY <2>2, <2>3, <2>4
<1>6. Consecutive'
  BY <1>0 DEF Follows, Consecutive
<1> QED
  BY <1>3, <1>4, <1>5, <1>6 DEF Follows

LEMMA InitFollows == EventsInit => Follows
<1> SUFFICES ASSUME EventsInit PROVE Follows
  OBVIOUS
<1>1. Consecutive
  BY DEF EventsInit, Consecutive
<1>2. Answers
  <2>1. call[Remote] = "none" /\ ~reply.full /\ reply.sequence = 0 /\ remote.after = 0
        /\ sequence = 0
    BY RouterIsThread DEF EventsInit, NoReply
  <2> QED
    BY <2>1 DEF Answers, Pending
<1>3. Announcements /\ PrivacyViewFollows
  BY DEF EventsInit, Announcements, PrivacyViewFollows
<1> QED
  BY <1>1, <1>2, <1>3 DEF Follows

LEMMA NextFollows == TypeOK /\ TypeOK' /\ Follows /\ [EventsNext]_eventVars => Follows'
<1> SUFFICES ASSUME TypeOK, TypeOK', Follows, [EventsNext]_eventVars PROVE Follows'
  OBVIOUS
<1>1. CASE UNCHANGED eventVars
  <2>1. UNCHANGED <<epoch, names, recent, sequence, announced, remote, reply, call>>
    BY <1>1 DEF eventVars, log, clients
  <2>2. Names /\ LoopKept /\ NoneBegun
    BY <2>1 DEF Names, LoopKept, NoneBegun, Follows, Announcements, Answers
  <2> QED
    BY <2>1, <2>2, StillFollows DEF TypeOK
<1>2. CASE EventsNext
  BY <1>2, SyncFollows, PublishFollows, OtherFollows, PollFollows, CollectFollows,
     ReportFollows, HandleFollows DEF EventsNext, RemoteStep
<1> QED
  BY <1>1, <1>2

LEMMA AlwaysFollows == EventsSpec => []Follows
  BY Typed, InitFollows, NextFollows, PTL DEF EventsSpec

\* Once the remote is past the announcement of an epoch, its windows have asked
\* for the privacy state since, unless the answer was that events are lost
\* (begin_remote).
THEOREM ViewsFollow == EventsSpec => []PrivacyViewFollows
<1>1. Follows => PrivacyViewFollows
  BY DEF Follows
<1> QED
  BY <1>1, AlwaysFollows, PTL

\* What the remote takes from the window is every event since the last, or the answer
\* says that some are lost (Events::after).
THEOREM NothingSkipped == EventsSpec => NoEventSkipped
<1>1. ASSUME Follows, [EventsNext]_eventVars
      PROVE  [reply.full /\ ~reply'.full /\ ~reply.resync =>
                {e.seq : e \in reply.events} = remote.after + 1 .. reply.sequence]_eventVars
  BY <1>1 DEF Follows, Answers, Pending
<1>2. Follows /\ [EventsNext]_eventVars =>
        [reply.full /\ ~reply'.full /\ ~reply.resync =>
           {e.seq : e \in reply.events} = remote.after + 1 .. reply.sequence]_eventVars
  BY <1>1
<1> QED
  BY <1>2, AlwaysFollows, PTL DEF EventsSpec, NoEventSkipped

-----------------------------------------------------------------------------
\* The bridge to the Host: what its variables are.

HostPlaces == {"fresh", "serving", "stopped", "stuck", "booting", "gone"}
HostState == [kind : {"embedded", "service"}, at : HostPlaces]
TaskPlaces == {"connect", "begin", "start", "serve", "drain", "shutdown", "settled", "find",
               "poll", "lost", "end"}
TaskState == [at : TaskPlaces, host : Nat]
ModeState == [is : {"starting", "unavailable", "embedded", "remote"}, host : Nat]
UpdatePlaces == {"idle", "stop_host", "wait_server", "ask", "stop_service", "wait_exit",
                 "install", "abort", "start", "handoff", "spawn", "reconnect", "restarted"}
UpdateState == [at : UpdatePlaces, host : Nat]
BridgeTyped ==
  /\ hosts \in Seq(HostState) /\ endpoint \in 0 .. Len(hosts) /\ mode \in ModeState
  /\ tasks \in [0 .. MaxUpdates -> TaskState] /\ update \in UpdateState
  /\ updates \in 0 .. MaxUpdates

\* Only what becomes of a Host is written, never its kind.
LEMMA HostBecomes ==
  ASSUME BridgeTyped, NEW h, NEW place \in HostPlaces, Become(h, place)
  PROVE  /\ hosts' \in Seq(HostState)
         /\ Len(hosts') = Len(hosts) /\ DOMAIN hosts' = DOMAIN hosts
         /\ \A g \in DOMAIN hosts :
              /\ hosts'[g].kind = hosts[g].kind
              /\ g = h => hosts'[g].at = place
              /\ g # h => hosts'[g] = hosts[g]
<1>1. hosts \in Seq(HostState)
  BY DEF BridgeTyped
<1>2. /\ DOMAIN hosts = 1 .. Len(hosts) /\ Len(hosts) \in Nat
      /\ hosts \in [1 .. Len(hosts) -> HostState]
  BY <1>1
<1>3. hosts' = [g \in 1 .. Len(hosts) |->
                 IF g = h THEN [hosts[g] EXCEPT !.at = place] ELSE hosts[g]]
  BY <1>2 DEF Become
<1>4. \A g \in 1 .. Len(hosts) : hosts[g] \in HostState
  BY <1>2
<1>5. \A g \in 1 .. Len(hosts) :
        hosts'[g] = IF g = h THEN [kind |-> hosts[g].kind, at |-> place] ELSE hosts[g]
  BY <1>3, <1>4 DEF HostState
<1>6. \A g \in 1 .. Len(hosts) : hosts'[g] \in HostState
  <2>1. TAKE g \in 1 .. Len(hosts)
  <2>2. hosts[g].kind \in {"embedded", "service"} /\ hosts[g] \in HostState
    BY <1>4 DEF HostState
  <2>3. [kind |-> hosts[g].kind, at |-> place] \in HostState
    BY <2>2 DEF HostState
  <2> QED
    BY <1>5, <2>2, <2>3
<1>7. hosts' \in [1 .. Len(hosts) -> HostState]
  BY <1>3, <1>6
<1>8. hosts' \in Seq(HostState) /\ Len(hosts') = Len(hosts) /\ DOMAIN hosts' = 1 .. Len(hosts)
  BY <1>2, <1>7
<1>9. ASSUME NEW g \in 1 .. Len(hosts)
      PROVE  /\ hosts'[g].kind = hosts[g].kind
             /\ g = h => hosts'[g].at = place
             /\ g # h => hosts'[g] = hosts[g]
  <2>1. CASE g = h
    <3>1. hosts'[g] = [kind |-> hosts[g].kind, at |-> place]
      BY <1>5, <2>1
    <3> QED
      BY <2>1, <3>1
  <2>2. CASE g # h
    BY <1>5, <2>2
  <2> QED
    BY <2>1, <2>2
<1> QED
  BY <1>2, <1>8, <1>9

\* A Host that is new is the last one; the others stay.
LEMMA HostAppended ==
  ASSUME BridgeTyped, NEW g \in HostState, hosts' = Append(hosts, g)
  PROVE  /\ hosts' \in Seq(HostState) /\ Len(hosts') = Len(hosts) + 1
         /\ DOMAIN hosts' = DOMAIN hosts \cup {Len(hosts) + 1}
         /\ Len(hosts) + 1 \notin DOMAIN hosts
         /\ hosts'[Len(hosts) + 1] = g /\ \A h \in DOMAIN hosts : hosts'[h] = hosts[h]
  BY DEF BridgeTyped

\* A task that moves takes no other along.
LEMMA TaskGoes ==
  ASSUME BridgeTyped, NEW t \in 0 .. MaxUpdates, NEW place \in TaskPlaces, TaskTo(t, place)
  PROVE  /\ tasks' \in [0 .. MaxUpdates -> TaskState]
         /\ \A s \in 0 .. MaxUpdates :
              tasks'[s] = IF s = t THEN [at |-> place, host |-> tasks[s].host] ELSE tasks[s]
<1>1. tasks \in [0 .. MaxUpdates -> TaskState] /\ tasks[t] \in TaskState
  BY DEF BridgeTyped
<1>2. [tasks[t] EXCEPT !.at = place] = [at |-> place, host |-> tasks[t].host]
  BY <1>1 DEF TaskState
<1>3. [at |-> place, host |-> tasks[t].host] \in TaskState
  BY <1>1 DEF TaskState
<1> QED
  BY <1>1, <1>2, <1>3 DEF TaskTo

\* The updater's place, and the Host it keeps.
LEMMA UpdateGoes ==
  ASSUME BridgeTyped, NEW place \in UpdatePlaces, Then(place)
  PROVE  update' = [at |-> place, host |-> update.host] /\ update' \in UpdateState
  BY DEF Then, BridgeTyped, UpdateState

LEMMA Places ==
  /\ {"fresh", "serving", "stopped", "stuck", "booting", "gone"} \subseteq HostPlaces
  /\ {"connect", "begin", "start", "serve", "drain", "shutdown", "settled", "find", "poll",
       "lost", "end"} \subseteq TaskPlaces
  BY DEF HostPlaces, TaskPlaces

\* The helpers that move more than one variable.
LEMMA Helpers ==
  ASSUME BridgeTyped
  PROVE  /\ \A h : Unbind(h) => endpoint' \in {0, endpoint}
         /\ \A t \in 0 .. MaxUpdates :
              Fails(t) => TaskTo(t, "end") /\ mode' \in {mode, Unavailable}
         /\ \A t \in 0 .. MaxUpdates : BeginRemote(t) =>
              /\ ServiceAnswers /\ mode' = [is |-> "remote", host |-> endpoint]
              /\ tasks' = [tasks EXCEPT ![t] = [at |-> "poll", host |-> endpoint]]
         /\ mode' \in {mode, Unavailable, Starting} => mode' \in ModeState
         /\ mode' = [is |-> "remote", host |-> endpoint] => mode' \in ModeState
         /\ mode' = [is |-> "embedded", host |-> endpoint] => mode' \in ModeState
  BY DEF Unbind, Fails, BeginRemote, SetMode, BridgeTyped, ModeState, Unavailable, Starting

LEMMA TaskFollows ==
  ASSUME BridgeTyped, NEW t \in 0 .. MaxUpdates, NEW place \in TaskPlaces,
         tasks' = [tasks EXCEPT ![t] = [at |-> place, host |-> endpoint]]
  PROVE  /\ tasks' \in [0 .. MaxUpdates -> TaskState]
         /\ \A s \in 0 .. MaxUpdates :
              tasks'[s] = IF s = t THEN [at |-> place, host |-> endpoint] ELSE tasks[s]
<1>1. [at |-> place, host |-> endpoint] \in TaskState
  BY DEF BridgeTyped, TaskState
<1> QED
  BY <1>1 DEF BridgeTyped

-----------------------------------------------------------------------------
(* Types.                                                                  *)
LEMMA TaskTyped ==
  ASSUME BridgeTyped, NEW t \in 0 .. MaxUpdates, Task(t)
  PROVE  BridgeTyped'
<1> USE Places, Helpers, TaskGoes, TaskFollows, HostBecomes
<1>1. CASE Initialize(t)
  BY <1>1 DEF Initialize, world, BridgeTyped
<1>2. CASE BeginEmbedded(t)
  <2>1. [kind |-> "embedded", at |-> "fresh"] \in HostState
    BY DEF HostState
  <2> QED
    BY <1>2, <2>1, HostAppended DEF BeginEmbedded, Binds, world, BridgeTyped
<1>3. CASE StartEmbedded(t)
  <2>1. hosts' \in Seq(HostState) /\ Len(hosts') = Len(hosts) /\ endpoint' \in {0, endpoint}
    BY <1>3 DEF StartEmbedded
  <2>2. mode' \in ModeState
    BY <1>3 DEF StartEmbedded, SetMode, Fails
  <2>3. tasks' \in [0 .. MaxUpdates -> TaskState]
    BY <1>3 DEF StartEmbedded
  <2> QED
    BY <1>3, <2>1, <2>2, <2>3 DEF StartEmbedded, world, BridgeTyped
<1>4. CASE ServerStops(t)
  BY <1>4 DEF ServerStops, world, BridgeTyped
<1>5. CASE DrainEnds(t)
  BY <1>5 DEF DrainEnds, world, BridgeTyped
<1>6. CASE ServerShutdown(t)
  BY <1>6 DEF ServerShutdown, SetMode, world, BridgeTyped
<1>7. CASE AfterDone(t)
  BY <1>7 DEF AfterDone, SetMode, world, BridgeTyped
<1>8. CASE Find(t)
  BY <1>8 DEF Find, world, BridgeTyped
<1>9. CASE FollowService(t)
  BY <1>9 DEF FollowService, world, BridgeTyped
<1>10. CASE Lost(t)
  BY <1>10 DEF Lost, world, BridgeTyped
<1> QED
  BY <1>1, <1>2, <1>3, <1>4, <1>5, <1>6, <1>7, <1>8, <1>9, <1>10 DEF Task

LEMMA UpdaterTyped ==
  ASSUME BridgeTyped, Prepare \/ Install \/ Updater
  PROVE  BridgeTyped'
<1> USE Places, Helpers, UpdateGoes, TaskGoes, TaskFollows, HostBecomes
<1>1. CASE Prepare
  <2>1. update' \in UpdateState
    BY <1>1 DEF Prepare, BridgeTyped, UpdateState, UpdatePlaces, ModeState
  <2> QED
    BY <1>1, <2>1, BridgeAssumption DEF Prepare, BridgeTyped
<1>2. CASE AskService
  BY <1>2 DEF AskService, UpdatePlaces, BridgeTyped
<1>3. CASE StopHost
  BY <1>3 DEF StopHost, UpdatePlaces, BridgeTyped
<1>4. CASE WaitServer
  BY <1>4 DEF WaitServer, UpdatePlaces, BridgeTyped
<1>5. CASE StopService
  <2>1. hosts' \in Seq(HostState) /\ Len(hosts') = Len(hosts)
    BY <1>5 DEF StopService, BridgeTyped
  <2>2. update' \in UpdateState
    BY <1>5 DEF StopService, UpdatePlaces, UpdateState, BridgeTyped
  <2> QED
    BY <1>5, <2>1, <2>2 DEF StopService, BridgeTyped
<1>6. CASE WaitExit
  BY <1>6 DEF WaitExit, UpdatePlaces, BridgeTyped
<1>7. CASE Install
  BY <1>7 DEF Install, UpdatePlaces, BridgeTyped
<1>8. CASE InstallAborted
  <2>1. tasks' \in [0 .. MaxUpdates -> TaskState]
    <3>1. TaskTo(updates, "begin") \/ tasks' = tasks
      BY <1>8 DEF InstallAborted, TaskTo
    <3> QED
      BY <3>1 DEF BridgeTyped
  <2> QED
    BY <1>8, <2>1 DEF InstallAborted, UpdatePlaces, BridgeTyped
<1>9. CASE StartService
  BY <1>9 DEF StartService, Abandon, UpdatePlaces, UpdateState, BridgeTyped
<1>10. CASE Spawn
  <2>1. [kind |-> "service", at |-> "serving"] \in HostState
    BY DEF HostState
  <2> QED
    BY <1>10, <2>1, HostAppended DEF Spawn, Abandon, UpdatePlaces, BridgeTyped
<1>11. CASE Reconnect
  BY <1>11 DEF Reconnect, Abandon, UpdatePlaces, BridgeTyped
<1> QED
  BY <1>1, <1>2, <1>3, <1>4, <1>5, <1>6, <1>7, <1>8, <1>9, <1>10, <1>11 DEF Updater

LEMMA WorldTyped ==
  ASSUME BridgeTyped, World
  PROVE  BridgeTyped'
<1> USE Places, Helpers, TaskGoes, HostBecomes
<1>1. CASE ClientStops
  BY <1>1 DEF ClientStops, bridge, BridgeTyped
<1>2. CASE ServiceStarts
  <2>1. [kind |-> "service", at |-> "booting"] \in HostState
    BY DEF HostState
  <2> QED
    BY <1>2, <2>1, HostAppended DEF ServiceStarts, bridge, BridgeTyped
<1>3. ASSUME NEW h \in DOMAIN hosts, ServiceBoots(h) PROVE BridgeTyped'
  BY <1>3 DEF ServiceBoots, bridge, BridgeTyped
<1>4. ASSUME NEW h \in DOMAIN hosts, ServiceLeaves(h) PROVE BridgeTyped'
  BY <1>4 DEF ServiceLeaves, bridge, BridgeTyped
<1>5. ASSUME NEW h \in DOMAIN hosts, ServiceDies(h) PROVE BridgeTyped'
  BY <1>5 DEF ServiceDies, bridge, BridgeTyped
<1>6. ASSUME NEW t \in 0 .. MaxUpdates, AcceptFails(t) PROVE BridgeTyped'
  BY <1>6 DEF AcceptFails, bridge, BridgeTyped
<1>7. ASSUME NEW t \in 0 .. MaxUpdates, FollowFails(t) PROVE BridgeTyped'
  BY <1>7 DEF FollowFails, bridge, BridgeTyped
<1> QED
  BY <1>1, <1>2, <1>3, <1>4, <1>5, <1>6, <1>7 DEF World, BridgeTyped

\* So the bridge is typed, whatever step is taken.
LEMMA BridgeTypes == ASSUME BridgeTyped, [BridgeNext]_bridgeVars PROVE BridgeTyped'
<1>1. CASE BridgeNext
  BY <1>1, TaskTyped, UpdaterTyped, WorldTyped DEF BridgeNext, BridgeTyped
<1>2. CASE UNCHANGED bridgeVars
  BY <1>2 DEF bridgeVars, world, BridgeTyped
<1> QED
  BY <1>1, <1>2

LEMMA BridgeStarts == BridgeInit => BridgeTyped
<1> SUFFICES ASSUME BridgeInit PROVE BridgeTyped
  OBVIOUS
<1> USE BridgeAssumption
<1>1. CASE hosts = << >>
  BY <1>1
    DEF BridgeInit, BridgeTyped, Starting, NoTask, ModeState, TaskState, TaskPlaces,
      UpdateState, UpdatePlaces
<1>2. CASE hosts = <<[kind |-> "service", at |-> "serving"]>>
  <2>1. [kind |-> "service", at |-> "serving"] \in HostState
    BY DEF HostState, HostPlaces
  <2> QED
    BY <1>2, <2>1
      DEF BridgeInit, BridgeTyped, Starting, NoTask, ModeState, TaskState, TaskPlaces,
        UpdateState, UpdatePlaces
<1> QED
  BY <1>1, <1>2 DEF BridgeInit

-----------------------------------------------------------------------------
(* The invariant.                                                          *)
Embedded(h) == hosts[h].kind = "embedded"
Stopped(h) == Embedded(h) => hosts[h].at = "stopped"

\* The task that the desktop began with, and the time in which it is the only one: until the
\* first update is aborted.
First == tasks[0]
Attempting == {"ask", "stop_host", "wait_server", "stop_service", "wait_exit", "install"}
Trying == updates = 0 \/ (updates = 1 /\ update.at \in Attempting)
NotAsked == updates = 0 => update.at = "idle"
OneTask == \A t \in 0 .. MaxUpdates : t # 0 => tasks[t].at = "end"

\* What the desktop embeds is no process of its own.
NeverGone ==
  \A h \in DOMAIN hosts :
    Embedded(h) => hosts[h].at \in {"fresh", "serving", "stuck", "stopped"}

\* An embedded Host that has not stopped is the one the task starts or serves, or one whose
\* stop failed, and then the desktop knows no Host any more.
Held(h) ==
  \/ First.at = "start" /\ h = endpoint
  \/ First.at \in {"serve", "drain", "shutdown"} /\ h = First.host
  \/ First.at = "end" /\ mode = Unavailable
Known == \A h \in DOMAIN hosts : Stopped(h) \/ Held(h)

Fresh ==
  First.at = "start" =>
    endpoint # 0 /\ hosts[endpoint] = [kind |-> "embedded", at |-> "fresh"]

\* The task that serves has the mode; the mode is of the kind of Host it says.
Serving == {"serve", "drain", "shutdown", "settled"}
Serves ==
  First.at \in Serving =>
    First.host \in DOMAIN hosts /\ Embedded(First.host) /\ mode.is = "embedded"
ModeIsOfTask ==
  /\ mode.is \in {"starting", "unavailable"} => mode.host = 0
  /\ mode.is \in {"embedded", "remote"} =>
       mode.host \in DOMAIN hosts /\ (Embedded(mode.host) <=> mode.is = "embedded")
  /\ mode.is = "embedded" => First.at \in Serving \cup {"end"} /\ First.host = mode.host

\* From the moment the update is under way nothing new is embedded, and as soon as the Host
\* or the service was asked to stop, nothing embedded is left but what is being stopped.
NothingNew == leaving /\ First.at # "start"
Stopping ==
  /\ update.at = "stop_host" =>
       /\ NothingNew /\ Target \in DOMAIN hosts /\ Embedded(Target)
       /\ \A h \in DOMAIN hosts : h # Target => Stopped(h)
  /\ update.at \in {"wait_server", "stop_service", "wait_exit", "install"} =>
       NothingNew /\ \A h \in DOMAIN hosts : Stopped(h)
  /\ update.at = "wait_server" => Target \in DOMAIN hosts /\ Embedded(Target)
  /\ update.at = "wait_exit" => Target \in DOMAIN hosts
  /\ update.at = "install" =>
       Target \in DOMAIN hosts /\ (~Embedded(Target) => hosts[Target].at = "gone")

Core == OneTask /\ Known /\ Fresh /\ Serves /\ ModeIsOfTask /\ Stopping
BridgeInv == BridgeTyped /\ NotAsked /\ NeverGone /\ (Trying => Core)

\* NeverGone, whatever becomes of a Host.
LEMMA NeverGoneMoves ==
  ASSUME BridgeTyped, NeverGone
  PROVE  /\ \A h, place :
              Become(h, place) /\ place \in {"serving", "stopped", "stuck"} => NeverGone'
         /\ \A h \in DOMAIN hosts :
              /\ Become(h, "gone")
              /\ hosts[h].kind = "service" \/ hosts[h].at = "booting"
              => NeverGone'
         /\ hosts' = Append(hosts, [kind |-> "embedded", at |-> "fresh"]) => NeverGone'
         /\ \A place \in {"serving", "booting"} :
              hosts' = Append(hosts, [kind |-> "service", at |-> place]) => NeverGone'
         /\ hosts' = hosts => NeverGone'
<1> USE Places
<1>1. ASSUME NEW h, NEW place \in {"serving", "stopped", "stuck"}, Become(h, place)
      PROVE  NeverGone'
  <2>1. place \in HostPlaces
    OBVIOUS
  <2>2. SUFFICES ASSUME NEW g \in DOMAIN hosts', Embedded(g)'
                 PROVE  hosts'[g].at \in {"fresh", "serving", "stuck", "stopped"}
    BY DEF NeverGone
  <2>3. g \in DOMAIN hosts
    BY <1>1, <2>1, <2>2, HostBecomes
  <2>4. /\ hosts'[g].kind = hosts[g].kind
        /\ IF g = h THEN hosts'[g].at = place ELSE hosts'[g] = hosts[g]
    BY <1>1, <2>1, <2>3, HostBecomes
  <2>5. CASE g = h
    BY <1>1, <2>2, <2>4, <2>5 DEF Embedded
  <2>6. CASE g # h
    BY <2>2, <2>3, <2>4, <2>6 DEF Embedded, NeverGone
  <2> QED
    BY <2>5, <2>6
<1>2. ASSUME NEW h \in DOMAIN hosts, Become(h, "gone"), ~Embedded(h) PROVE NeverGone'
  <2>1. "gone" \in HostPlaces
    OBVIOUS
  <2>2. SUFFICES ASSUME NEW g \in DOMAIN hosts', Embedded(g)'
                 PROVE  hosts'[g].at \in {"fresh", "serving", "stuck", "stopped"}
    BY DEF NeverGone
  <2>3. g \in DOMAIN hosts
    BY <1>2, <2>1, <2>2, HostBecomes
  <2>4. /\ hosts'[g].kind = hosts[g].kind
        /\ IF g = h THEN hosts'[g].at = "gone" ELSE hosts'[g] = hosts[g]
    BY <1>2, <2>1, <2>3, HostBecomes
  <2>5. CASE g = h
    BY <1>2, <2>2, <2>4, <2>5 DEF Embedded
  <2>6. CASE g # h
    BY <2>2, <2>3, <2>4, <2>6 DEF Embedded, NeverGone
  <2> QED
    BY <2>5, <2>6
<1>3. ASSUME hosts' = Append(hosts, [kind |-> "embedded", at |-> "fresh"]) PROVE NeverGone'
  <2>1. [kind |-> "embedded", at |-> "fresh"] \in HostState
    BY DEF HostState
  <2> QED
    BY <1>3, <2>1, HostAppended DEF NeverGone, Embedded
<1>4. ASSUME NEW place \in {"serving", "booting"},
             hosts' = Append(hosts, [kind |-> "service", at |-> place])
      PROVE  NeverGone'
  <2>1. [kind |-> "service", at |-> place] \in HostState
    BY DEF HostState
  <2> QED
    BY <1>4, <2>1, HostAppended DEF NeverGone, Embedded
<1>5. \A h \in DOMAIN hosts : hosts[h].kind = "service" \/ hosts[h].at = "booting" => ~Embedded(h)
  BY DEF NeverGone, Embedded
<1>6. hosts' = hosts => NeverGone'
  BY DEF NeverGone, Embedded
<1> QED
  BY <1>1, <1>2, <1>3, <1>4, <1>5, <1>6

LEMMA NeverGoneKept ==
  ASSUME BridgeTyped, NeverGone, BridgeNext
  PROVE  NeverGone'
<1> USE NeverGoneMoves
<1>1. ASSUME NEW t \in 0 .. MaxUpdates, Task(t) PROVE NeverGone'
  <2>1. CASE BeginEmbedded(t)
    BY <2>1 DEF BeginEmbedded, Binds
  <2>2. CASE StartEmbedded(t)
    BY <2>2 DEF StartEmbedded
  <2>3. CASE ServerShutdown(t)
    BY <2>3 DEF ServerShutdown
  <2>4. CASE hosts' = hosts
    BY <2>4
  <2> QED
    BY <1>1, <2>1, <2>2, <2>3, <2>4
      DEF Task, Initialize, ServerStops, DrainEnds, AfterDone, Find, FollowService, Lost
<1>2. ASSUME Prepare \/ Install \/ Updater PROVE NeverGone'
  <2>1. CASE StopHost
    BY <2>1 DEF StopHost
  <2>2. CASE StopService
    BY <2>2 DEF StopService
  <2>3. CASE StartService
    BY <2>3 DEF StartService
  <2>4. CASE Spawn
    BY <2>4 DEF Spawn
  <2>5. CASE hosts' = hosts
    BY <2>5
  <2> QED
    BY <1>2, <2>1, <2>2, <2>3, <2>4, <2>5
      DEF Prepare, Install, Updater, AskService, WaitServer, WaitExit, InstallAborted,
        Reconnect
<1>3. ASSUME World PROVE NeverGone'
  <2>1. CASE ClientStops
    BY <2>1 DEF ClientStops
  <2>2. CASE ServiceStarts
    BY <2>2 DEF ServiceStarts
  <2>3. ASSUME NEW h \in DOMAIN hosts, ServiceBoots(h) PROVE NeverGone'
    BY <2>3 DEF ServiceBoots
  <2>4. ASSUME NEW h \in DOMAIN hosts, ServiceLeaves(h) PROVE NeverGone'
    BY <2>4 DEF ServiceLeaves
  <2>5. ASSUME NEW h \in DOMAIN hosts, ServiceDies(h) PROVE NeverGone'
    BY <2>5 DEF ServiceDies
  <2>6. CASE hosts' = hosts
    BY <2>6
  <2> QED
    BY <1>3, <2>1, <2>2, <2>3, <2>4, <2>5, <2>6 DEF World, AcceptFails, FollowFails
<1> QED
  BY <1>1, <1>2, <1>3 DEF BridgeNext, BridgeTyped

\* Once the first attempt is over, it is over.
LEMMA TriesOnce ==
  ASSUME BridgeTyped, NotAsked, BridgeNext
  PROVE  NotAsked' /\ (Trying' => Trying /\ (~Prepare => updates' = updates))
<1> USE UpdateGoes DEF Trying, Attempting, NotAsked, Doing, UpdatePlaces
<1>1. ASSUME NEW t \in 0 .. MaxUpdates, Task(t) PROVE update' = update /\ updates' = updates
  BY <1>1
    DEF Task, Initialize, BeginEmbedded, StartEmbedded, ServerStops, DrainEnds, ServerShutdown,
      AfterDone, Find, FollowService, Lost, world
<1>2. ASSUME World PROVE update' = update /\ updates' = updates
  BY <1>2
    DEF World, ClientStops, ServiceStarts, ServiceBoots, ServiceLeaves, ServiceDies,
      AcceptFails, FollowFails, bridge
<1>3. CASE Prepare
  BY <1>3 DEF Prepare, BridgeTyped
<1>4. CASE Install
  BY <1>4 DEF Install
<1>5. CASE AskService
  BY <1>5 DEF AskService
<1>6. CASE StopHost
  BY <1>6 DEF StopHost
<1>7. CASE WaitServer
  BY <1>7 DEF WaitServer
<1>8. CASE StopService
  BY <1>8 DEF StopService
<1>9. CASE WaitExit
  BY <1>9 DEF WaitExit
<1>10. CASE InstallAborted
  BY <1>10 DEF InstallAborted
<1>11. CASE StartService
  BY <1>11 DEF StartService, Abandon
<1>12. CASE Spawn
  BY <1>12 DEF Spawn, Abandon
<1>13. CASE Reconnect
  BY <1>13 DEF Reconnect, Abandon
<1> QED
  BY <1>1, <1>2, <1>3, <1>4, <1>5, <1>6, <1>7, <1>8, <1>9, <1>10, <1>11, <1>12, <1>13
    DEF BridgeNext, Updater, BridgeTyped

\* What a step of the first task is, to the invariant.
LEMMA OnlyTheFirst ==
  ASSUME BridgeTyped, OneTask, NEW t \in 0 .. MaxUpdates, Task(t)
  PROVE  t = 0
  BY
    DEF Task, Initialize, BeginEmbedded, StartEmbedded, ServerStops, DrainEnds, ServerShutdown,
      AfterDone, Find, FollowService, Lost, TaskAt, OneTask

LEMMA FirstGoes ==
  ASSUME BridgeTyped, OneTask
  PROVE  /\ \A place \in TaskPlaces : TaskTo(0, place) =>
              OneTask' /\ tasks'[0] = [at |-> place, host |-> tasks[0].host]
         /\ \A place \in TaskPlaces :
              tasks' = [tasks EXCEPT ![0] = [at |-> place, host |-> endpoint]] =>
              OneTask' /\ tasks'[0] = [at |-> place, host |-> endpoint]
         /\ ~Restoring(0)
<1>1. 0 \in 0 .. MaxUpdates
  BY BridgeAssumption
<1>2. ASSUME NEW place \in TaskPlaces, TaskTo(0, place)
      PROVE  OneTask' /\ tasks'[0] = [at |-> place, host |-> tasks[0].host]
  BY <1>1, <1>2, TaskGoes DEF OneTask
<1>3. ASSUME NEW place \in TaskPlaces,
             tasks' = [tasks EXCEPT ![0] = [at |-> place, host |-> endpoint]]
      PROVE  OneTask' /\ tasks'[0] = [at |-> place, host |-> endpoint]
  BY <1>1, <1>3, TaskFollows DEF OneTask
<1> QED
  BY <1>2, <1>3 DEF Restoring

LEMMA HostBorn ==
  ASSUME BridgeTyped, hosts' = Append(hosts, [kind |-> "embedded", at |-> "fresh"])
  PROVE  /\ hosts' \in Seq(HostState) /\ Len(hosts') = Len(hosts) + 1
         /\ DOMAIN hosts' = DOMAIN hosts \cup {Len(hosts) + 1}
         /\ Len(hosts) + 1 \notin DOMAIN hosts
         /\ hosts'[Len(hosts) + 1] = [kind |-> "embedded", at |-> "fresh"]
         /\ \A h \in DOMAIN hosts : hosts'[h] = hosts[h]
  BY HostAppended, Places DEF HostState

\* The first task, action by action: it takes up a Host only while nothing is stopped for an
\* update, and what it leaves behind has stopped or is known.
LEMMA TaskCore ==
  ASSUME BridgeTyped, NeverGone, Core, Task(0)
  PROVE  Core'
<1> USE Places, Helpers, FirstGoes
<1> USE
  DEF Core, Known, Held, Stopped, Embedded, First, Fresh, Serves, Serving, ModeIsOfTask,
    Stopping, NothingNew, Target, Unavailable, Starting, ServiceAnswers, Responds, ModeState,
    BridgeTyped
<1>1. BridgeTyped' /\ 0 \in 0 .. MaxUpdates
  BY TaskTyped, BridgeAssumption
<1>2. CASE Initialize(0)
  <2>1. OneTask'
    BY <1>2, <1>1 DEF Initialize, TaskAt, BeginRemote, Fails, inner, world
  <2>2. /\ tasks[0].at = "connect"
        /\ hosts' = hosts /\ update' = update /\ leaving' = leaving /\ endpoint' = endpoint
        /\ \/ /\ ServiceAnswers /\ mode' = [is |-> "remote", host |-> endpoint]
              /\ tasks'[0] = [at |-> "poll", host |-> endpoint]
           \/ tasks'[0] = [at |-> "begin", host |-> tasks[0].host] /\ mode' = mode
    BY <1>2, <1>1 DEF Initialize, TaskAt, BeginRemote, inner, world
  <2>3. Known' /\ Fresh' /\ Serves' /\ ModeIsOfTask' /\ Stopping'
    BY <2>2, <1>1
  <2> QED
    BY <2>1, <2>3
<1>3. CASE BeginEmbedded(0)
  <2>1. OneTask'
    BY <1>3, <1>1 DEF BeginEmbedded, TaskAt, BeginRemote, Fails, Binds, inner, world, Fails
  <2>2. /\ tasks[0].at = "begin"
        /\ update' = update /\ leaving' = leaving
        /\ \/ /\ hosts' = hosts /\ endpoint' = endpoint /\ mode' = Unavailable
              /\ tasks'[0] = [at |-> "end", host |-> tasks[0].host]
           \/ /\ ~leaving /\ hosts' = Append(hosts, [kind |-> "embedded", at |-> "fresh"])
              /\ endpoint' = Len(hosts) + 1 /\ mode' = mode
              /\ tasks'[0] = [at |-> "start", host |-> tasks[0].host]
    BY <1>3, <1>1 DEF BeginEmbedded, TaskAt, BeginRemote, Binds, inner, world, Fails
  <2>3. Known' /\ Fresh'
    BY <2>2, <1>1, HostBorn
  <2>4. Serves' /\ ModeIsOfTask'
    BY <2>2, <1>1, HostBorn
  <2>5. Stopping'
    BY <2>2, <1>1, HostBorn
  <2> QED
    BY <2>1, <2>3, <2>4, <2>5
<1>4. CASE StartEmbedded(0)
  <2>1. OneTask'
    BY <1>4, <1>1 DEF StartEmbedded, TaskAt, BeginRemote, Fails, SetMode, world, Fails
  <2>2. /\ tasks[0].at = "start"
        /\ update' = update /\ leaving' = leaving
        /\ \/ /\ Become(endpoint, "serving") /\ endpoint' = endpoint
              /\ mode' = [is |-> "embedded", host |-> endpoint]
              /\ tasks'[0] = [at |-> "serve", host |-> endpoint]
           \/ /\ \E place \in {"stopped", "stuck"} : Become(endpoint, place)
              /\ endpoint' = 0 /\ mode' = Unavailable
              /\ tasks'[0] = [at |-> "end", host |-> tasks[0].host]
    BY <1>4, <1>1 DEF StartEmbedded, TaskAt, BeginRemote, SetMode, world, Fails
  <2>3. /\ DOMAIN hosts' = DOMAIN hosts /\ \A g \in DOMAIN hosts : hosts'[g].kind = hosts[g].kind
        /\ \A g \in DOMAIN hosts : g # endpoint => hosts'[g] = hosts[g]
        /\ \/ tasks'[0].at = "end" /\ mode' = Unavailable
           \/ tasks'[0].at = "serve" /\ hosts'[endpoint].at = "serving"
        /\ endpoint \in DOMAIN hosts /\ hosts[endpoint].kind = "embedded"
    <3>1. endpoint \in DOMAIN hosts /\ hosts[endpoint].kind = "embedded"
      BY <2>2
    <3>2. PICK place \in HostPlaces :
            /\ Become(endpoint, place)
            /\ \/ tasks'[0].at = "end" /\ mode' = Unavailable
               \/ tasks'[0].at = "serve" /\ place = "serving"
      BY <2>2
    <3> QED
      BY <3>1, <3>2, HostBecomes
  <2>4. Known' /\ Fresh' /\ Serves' /\ ModeIsOfTask' /\ Stopping'
    BY <2>2, <1>1, <2>3
  <2> QED
    BY <2>1, <2>4
<1>5. CASE ServerStops(0)
  <2>1. OneTask'
    BY <1>5, <1>1 DEF ServerStops, TaskAt, BeginRemote, Fails, inner, world
  <2>2. /\ tasks[0].at = "serve" /\ hosts[tasks[0].host].at = "stopped"
        /\ hosts' = hosts /\ update' = update /\ leaving' = leaving
        /\ endpoint' \in {0, endpoint} /\ mode' = mode
        /\ tasks'[0] = [at |-> "drain", host |-> tasks[0].host]
    BY <1>5, <1>1 DEF ServerStops, TaskAt, BeginRemote, inner, world
  <2>3. Known' /\ Fresh' /\ Serves' /\ ModeIsOfTask' /\ Stopping'
    BY <2>2, <1>1
  <2> QED
    BY <2>1, <2>3
<1>6. CASE DrainEnds(0)
  <2>1. OneTask'
    BY <1>6, <1>1 DEF DrainEnds, TaskAt, BeginRemote, Fails, inner, world
  <2>2. /\ tasks[0].at = "drain"
        /\ hosts' = hosts /\ update' = update /\ leaving' = leaving
        /\ endpoint' = endpoint /\ mode' = mode
        /\ tasks'[0] = [at |-> "shutdown", host |-> tasks[0].host]
    BY <1>6, <1>1 DEF DrainEnds, TaskAt, BeginRemote, inner, world
  <2>3. Known' /\ Fresh' /\ Serves' /\ ModeIsOfTask' /\ Stopping'
    BY <2>2, <1>1
  <2> QED
    BY <2>1, <2>3
<1>7. CASE ServerShutdown(0)
  <2>1. OneTask'
    BY <1>7, <1>1 DEF ServerShutdown, TaskAt, BeginRemote, Fails, SetMode, inner, world
  <2>2. /\ tasks[0].at = "shutdown"
        /\ update' = update /\ leaving' = leaving /\ endpoint' = endpoint
        /\ \/ /\ Become(tasks[0].host, "stopped") /\ mode' = mode
              /\ tasks'[0] = [at |-> "settled", host |-> tasks[0].host]
           \/ /\ hosts[tasks[0].host].at # "stopped" /\ Become(tasks[0].host, "stuck")
              /\ mode' = Unavailable
              /\ tasks'[0] = [at |-> "end", host |-> tasks[0].host]
    BY <1>7, <1>1 DEF ServerShutdown, TaskAt, BeginRemote, SetMode, inner, world
  <2>3. /\ DOMAIN hosts' = DOMAIN hosts /\ \A g \in DOMAIN hosts : hosts'[g].kind = hosts[g].kind
        /\ \A g \in DOMAIN hosts : g # tasks[0].host => hosts'[g] = hosts[g]
        /\ \/ tasks'[0].at = "end" /\ mode' = Unavailable
           \/ tasks'[0].at = "settled" /\ hosts'[tasks[0].host].at = "stopped"
        /\ tasks[0].host \in DOMAIN hosts /\ hosts[tasks[0].host].kind = "embedded"
    <3>1. tasks[0].host \in DOMAIN hosts /\ hosts[tasks[0].host].kind = "embedded"
      BY <2>2
    <3>2. PICK place \in HostPlaces :
            /\ Become(tasks[0].host, place)
            /\ \/ tasks'[0].at = "end" /\ mode' = Unavailable
               \/ tasks'[0].at = "settled" /\ place = "stopped"
      BY <2>2
    <3> QED
      BY <3>1, <3>2, HostBecomes
  <2>4. Known'
    BY <2>2, <2>3, <1>1
  <2>5. Fresh' /\ Serves' /\ ModeIsOfTask' /\ Stopping'
    BY <2>2, <2>3, <1>1
  <2> QED
    BY <2>1, <2>4, <2>5
<1>8. CASE AfterDone(0)
  <2>1. OneTask'
    BY <1>8, <1>1 DEF AfterDone, TaskAt, BeginRemote, Fails, SetMode, inner, world
  <2>2. /\ tasks[0].at = "settled"
        /\ hosts' = hosts /\ update' = update /\ leaving' = leaving
        /\ endpoint' = endpoint
        /\ \/ mode' = mode /\ tasks'[0] = [at |-> "end", host |-> tasks[0].host]
           \/ mode' = Starting /\ tasks'[0] = [at |-> "find", host |-> tasks[0].host]
    BY <1>8, <1>1 DEF AfterDone, TaskAt, BeginRemote, SetMode, inner, world
  <2>3. Known' /\ Fresh' /\ Serves' /\ ModeIsOfTask' /\ Stopping'
    BY <2>2, <1>1
  <2> QED
    BY <2>1, <2>3
<1>9. CASE Find(0)
  <2>1. OneTask'
    BY <1>9, <1>1 DEF Find, TaskAt, BeginRemote, Fails, inner, world
  <2>2. /\ tasks[0].at = "find"
        /\ hosts' = hosts /\ update' = update /\ leaving' = leaving /\ endpoint' = endpoint
        /\ \/ /\ ServiceAnswers /\ mode' = [is |-> "remote", host |-> endpoint]
              /\ tasks'[0] = [at |-> "poll", host |-> endpoint]
           \/ tasks'[0] = [at |-> "begin", host |-> tasks[0].host] /\ mode' = mode
    BY <1>9, <1>1 DEF Find, TaskAt, BeginRemote, inner, world
  <2>3. Known' /\ Fresh' /\ Serves' /\ ModeIsOfTask' /\ Stopping'
    BY <2>2, <1>1
  <2> QED
    BY <2>1, <2>3
<1>10. CASE FollowService(0)
  <2>1. OneTask'
    BY <1>10, <1>1 DEF FollowService, TaskAt, BeginRemote, Fails, inner, world
  <2>2. /\ tasks[0].at = "poll"
        /\ hosts' = hosts /\ update' = update /\ leaving' = leaving
        /\ endpoint' = endpoint /\ mode' = mode
        /\ \/ tasks'[0] = [at |-> "end", host |-> tasks[0].host]
           \/ tasks'[0] = [at |-> "lost", host |-> tasks[0].host]
    BY <1>10, <1>1 DEF FollowService, TaskAt, BeginRemote, inner, world
  <2>3. Known' /\ Fresh' /\ Serves' /\ ModeIsOfTask' /\ Stopping'
    BY <2>2, <1>1
  <2> QED
    BY <2>1, <2>3
<1>11. CASE Lost(0)
  <2>1. OneTask'
    BY <1>11, <1>1 DEF Lost, TaskAt, BeginRemote, Fails, inner, world, Fails
  <2>2. /\ tasks[0].at = "lost"
        /\ hosts' = hosts /\ update' = update /\ leaving' = leaving
        /\ endpoint' = endpoint
        /\ \/ mode' = mode /\ tasks'[0] = [at |-> "end", host |-> tasks[0].host]
           \/ mode' = mode /\ tasks'[0] = [at |-> "begin", host |-> tasks[0].host]
           \/ mode' = Unavailable /\ tasks'[0] = [at |-> "end", host |-> tasks[0].host]
    BY <1>11, <1>1 DEF Lost, TaskAt, BeginRemote, inner, world, Fails
  <2>3. Known' /\ Fresh' /\ Serves' /\ ModeIsOfTask' /\ Stopping'
    BY <2>2, <1>1
  <2> QED
    BY <2>1, <2>3
<1> HIDE Places, Helpers, FirstGoes
<1> HIDE
  DEF Core, Known, Held, Stopped, Embedded, First, Fresh, Serves, Serving, ModeIsOfTask,
    Stopping, NothingNew, Target, Unavailable, Starting, ServiceAnswers, Responds, ModeState,
    BridgeTyped
<1> QED
  BY <1>2, <1>3, <1>4, <1>5, <1>6, <1>7, <1>8, <1>9, <1>10, <1>11 DEF Task

\* What becomes of a service, and of the endpoint it holds.
LEMMA ServiceMoves ==
  ASSUME BridgeTyped, Core, NEW h \in DOMAIN hosts, ~Embedded(h), hosts[h].at # "gone",
         NEW place \in HostPlaces, Become(h, place) \/ hosts' = hosts,
         endpoint' = endpoint \/ (endpoint = h /\ endpoint' = 0),
         mode' = mode, tasks' = tasks, update' = update, leaving' = leaving
  PROVE  Core'
<1> DEFINE Same == /\ DOMAIN hosts' = DOMAIN hosts
                   /\ \A g \in DOMAIN hosts : hosts'[g].kind = hosts[g].kind
                   /\ \A g \in DOMAIN hosts : g # h => hosts'[g] = hosts[g]
<1>1. Same
  <2>1. CASE Become(h, place)
    BY <2>1, HostBecomes
  <2>2. CASE hosts' = hosts
    BY <2>2
  <2> QED
    BY <2>1, <2>2
<1>2. First.at = "start" => endpoint \in DOMAIN hosts /\ endpoint # h
  BY DEF Core, BridgeTyped, Fresh, Embedded
<1>3. OneTask' /\ Serves' /\ ModeIsOfTask'
  BY <1>1, <1>2
    DEF Core, OneTask, Serves, Serving, ModeIsOfTask, Embedded, First, BridgeTyped
<1>4. Known' /\ Fresh'
  BY <1>1, <1>2
    DEF Core, Known, Held, Stopped, Fresh, Embedded, First, BridgeTyped, Unavailable
<1>5. Target \in DOMAIN hosts =>
        /\ Embedded(Target)' = Embedded(Target)
        /\ hosts[Target].at = "gone" => hosts'[Target] = hosts[Target]
  BY <1>1 DEF Embedded, Target
<1>6. Stopping'
  <2>1. \A g \in DOMAIN hosts : Stopped(g) => Stopped(g)'
    BY <1>1 DEF Stopped, Embedded
  <2> QED
    BY <1>1, <1>5, <2>1 DEF Core, Stopping, NothingNew, Target, First
<1> QED
  BY <1>3, <1>4, <1>6 DEF Core

LEMMA ServiceBorn ==
  ASSUME BridgeTyped, Core, endpoint = 0, endpoint' = Len(hosts) + 1,
         NEW place \in HostPlaces, hosts' = Append(hosts, [kind |-> "service", at |-> place]),
         mode' = mode, tasks' = tasks, update' = update, leaving' = leaving
  PROVE  Core'
<1>1. /\ DOMAIN hosts' = DOMAIN hosts \cup {Len(hosts) + 1}
      /\ Len(hosts) + 1 \notin DOMAIN hosts
      /\ hosts'[Len(hosts) + 1] = [kind |-> "service", at |-> place]
      /\ \A h \in DOMAIN hosts : hosts'[h] = hosts[h]
  BY HostAppended DEF HostState
<1>2. OneTask' /\ Serves' /\ ModeIsOfTask'
  BY <1>1
    DEF Core, OneTask, Serves, Serving, ModeIsOfTask, Embedded, First, BridgeTyped
<1>3. Known' /\ Fresh'
  BY <1>1
    DEF Core, Known, Held, Stopped, Fresh, Embedded, First, BridgeTyped, Unavailable
<1>4. Stopping'
  BY <1>1
    DEF Core, Known, Held, Serves, Serving, ModeIsOfTask, Stopping, Stopped, NothingNew,
      Target, Embedded, First, BridgeTyped, Unavailable
<1> QED
  BY <1>2, <1>3, <1>4 DEF Core

\* A client stops the Host that answers: no Host that the updater has confirmed.
LEMMA AnsweringStops ==
  ASSUME BridgeTyped, Core, Responds(endpoint), NEW place \in {"stopped", "stuck"},
         Become(endpoint, place), endpoint' = endpoint,
         mode' = mode, tasks' = tasks, update' = update, leaving' = leaving
  PROVE  Core'
<1>1. /\ endpoint \in DOMAIN hosts /\ hosts[endpoint].at \notin {"stopped", "gone", "fresh"}
      /\ DOMAIN hosts' = DOMAIN hosts
      /\ \A g \in DOMAIN hosts : hosts'[g].kind = hosts[g].kind
      /\ \A g \in DOMAIN hosts : g # endpoint => hosts'[g] = hosts[g]
  <2>1. endpoint \in DOMAIN hosts /\ hosts[endpoint].at \notin {"stopped", "gone", "fresh"}
    BY DEF Responds, BridgeTyped
  <2> QED
    BY <2>1, HostBecomes, Places
<1>2. OneTask' /\ Serves' /\ ModeIsOfTask'
  BY <1>1
    DEF Core, OneTask, Serves, Serving, ModeIsOfTask, Embedded, First, BridgeTyped
<1>3. Known' /\ Fresh'
  BY <1>1
    DEF Core, Known, Held, Stopped, Fresh, Embedded, First, BridgeTyped, Unavailable
<1>4. Stopping'
  BY <1>1
    DEF Core, Known, Held, Serves, Serving, ModeIsOfTask, Stopping, Stopped, NothingNew,
      Target, Embedded, First, BridgeTyped, Unavailable
<1> QED
  BY <1>2, <1>3, <1>4 DEF Core

\* What clients and services do.
LEMMA WorldCore ==
  ASSUME BridgeTyped, NeverGone, Core, World
  PROVE  Core'
<1> USE Places
<1>1. CASE ClientStops
  BY <1>1, AnsweringStops DEF ClientStops, bridge, inner
<1>2. CASE ServiceStarts
  BY <1>2, ServiceBorn DEF ServiceStarts, bridge, inner
<1>3. ASSUME NEW h \in DOMAIN hosts, ServiceBoots(h) PROVE Core'
  BY <1>3, ServiceMoves DEF ServiceBoots, Unbind, NeverGone, Embedded, bridge, inner
<1>4. ASSUME NEW h \in DOMAIN hosts, ServiceLeaves(h) PROVE Core'
  BY <1>4, ServiceMoves DEF ServiceLeaves, Embedded, bridge, inner
<1>5. ASSUME NEW h \in DOMAIN hosts, ServiceDies(h) PROVE Core'
  BY <1>5, ServiceMoves DEF ServiceDies, Unbind, Embedded, bridge, inner
<1>6. ASSUME NEW t \in 0 .. MaxUpdates, AcceptFails(t) PROVE Core'
  <2>1. t = 0
    BY <1>6 DEF AcceptFails, TaskAt, Core, OneTask
  <2>2. /\ tasks[0].at = "serve" /\ hosts' = hosts /\ update' = update /\ leaving' = leaving
        /\ endpoint' \in {0, endpoint} /\ mode' = mode
        /\ tasks'[0] = [at |-> "drain", host |-> tasks[0].host] /\ OneTask'
    BY <1>6, <2>1, FirstGoes DEF AcceptFails, TaskAt, Unbind, Core, bridge, inner
  <2>3. OneTask' /\ Serves' /\ ModeIsOfTask'
    BY <2>2
      DEF Core, OneTask, Serves, Serving, ModeIsOfTask, Embedded, First, BridgeTyped
  <2>4. Known' /\ Fresh'
    BY <2>2
      DEF Core, Known, Held, Stopped, Fresh, Embedded, First, BridgeTyped, Unavailable
  <2>5. Stopping'
    BY <2>2
      DEF Core, Known, Held, Serves, Serving, ModeIsOfTask, Stopping, Stopped, NothingNew,
        Target, Embedded, First, BridgeTyped, Unavailable
  <2> QED
    BY <2>3, <2>4, <2>5 DEF Core
<1>7. ASSUME NEW t \in 0 .. MaxUpdates, FollowFails(t) PROVE Core'
  <2>1. t = 0
    BY <1>7 DEF FollowFails, TaskAt, Core, OneTask
  <2>2. /\ tasks[0].at = "poll" /\ hosts' = hosts /\ update' = update /\ leaving' = leaving
        /\ endpoint' = endpoint /\ mode' = mode
        /\ tasks'[0] = [at |-> "lost", host |-> tasks[0].host] /\ OneTask'
    BY <1>7, <2>1, FirstGoes DEF FollowFails, TaskAt, Core, bridge, inner
  <2>3. OneTask' /\ Serves' /\ ModeIsOfTask'
    BY <2>2
      DEF Core, OneTask, Serves, Serving, ModeIsOfTask, Embedded, First, BridgeTyped
  <2>4. Known' /\ Fresh'
    BY <2>2
      DEF Core, Known, Held, Stopped, Fresh, Embedded, First, BridgeTyped, Unavailable
  <2>5. Stopping'
    BY <2>2
      DEF Core, Known, Held, Serves, Serving, ModeIsOfTask, Stopping, Stopped, NothingNew,
        Target, Embedded, First, BridgeTyped, Unavailable
  <2> QED
    BY <2>3, <2>4, <2>5 DEF Core
<1> QED
  BY <1>1, <1>2, <1>3, <1>4, <1>5, <1>6, <1>7 DEF World, BridgeTyped

\* The updater leaves the tasks and the mode alone until it aborts.
LEMMA UpdaterCore ==
  ASSUME BridgeTyped, NotAsked, NeverGone, Trying, Core, Prepare \/ Install \/ Updater, Trying'
  PROVE  Core'
<1> USE Places, UpdateGoes DEF UpdatePlaces
<1>1. update'.at \in Attempting
  <2>1. updates' # 0
    BY
      DEF Prepare, Install, Updater, AskService, StopHost, WaitServer, StopService, WaitExit,
        InstallAborted, StartService, Spawn, Reconnect, NotAsked, Doing, BridgeTyped
  <2> QED
    BY <2>1 DEF Trying
<1>2. CASE Prepare
  <2>1. /\ hosts' = hosts /\ endpoint' = endpoint /\ mode' = mode /\ tasks' = tasks
        /\ \/ /\ mode.is = "embedded" /\ hosts[mode.host].at = "serving" /\ leaving' = TRUE
              /\ update' = [at |-> "stop_host", host |-> mode.host]
           \/ update' = [at |-> "ask", host |-> mode.host] /\ leaving' = leaving
    BY <1>1, <1>2 DEF Prepare, Attempting, Doing, Target, CloseFor, inner
  <2>2. OneTask' /\ Serves' /\ ModeIsOfTask'
    BY <2>1
      DEF Core, OneTask, Serves, Serving, ModeIsOfTask, Embedded, First, BridgeTyped
  <2>3. Known' /\ Fresh'
    BY <2>1
      DEF Core, Known, Held, Stopped, Fresh, Embedded, First, BridgeTyped, Unavailable
  <2>4. Stopping'
    BY <2>1
      DEF Core, Known, Held, Serves, Serving, ModeIsOfTask, Stopping, Stopped, NothingNew,
        Target, Embedded, First, BridgeTyped, Unavailable
  <2> QED
    BY <2>2, <2>3, <2>4 DEF Core
<1>3. CASE AskService
  <2>1. /\ hosts' = hosts /\ endpoint' = endpoint /\ mode' = mode /\ tasks' = tasks
        /\ ServiceAnswers /\ mode.host = endpoint /\ leaving' = TRUE
        /\ update' = [at |-> "stop_service", host |-> update.host]
    BY <1>1, <1>3 DEF AskService, Attempting, Doing, Target, CloseFor, inner
  <2>2. endpoint \in DOMAIN hosts /\ ~Embedded(endpoint)
    BY <2>1 DEF ServiceAnswers, Responds, Embedded, BridgeTyped
  <2>3. mode.is = "remote"
    BY <2>1, <2>2 DEF Core, ModeIsOfTask, ServiceAnswers, Responds, BridgeTyped, ModeState
  <2>4. First.at # "start"
    BY <2>2 DEF Core, Fresh, Embedded
  <2>5. \A h \in DOMAIN hosts : Stopped(h)
    BY <2>3, <2>4 DEF Core, Known, Held, Serves, Serving, Unavailable, First
  <2>6. OneTask' /\ Serves' /\ ModeIsOfTask'
    BY <2>1, <2>4, <2>5
      DEF Core, OneTask, Serves, Serving, ModeIsOfTask, Embedded, First, BridgeTyped
  <2>7. Known' /\ Fresh'
    BY <2>1, <2>4, <2>5
      DEF Core, Known, Held, Stopped, Fresh, Embedded, First, BridgeTyped, Unavailable
  <2>8. Stopping'
    BY <2>1, <2>4, <2>5
      DEF Core, Known, Held, Serves, Serving, ModeIsOfTask, Stopping, Stopped, NothingNew,
        Target, Embedded, First, BridgeTyped, Unavailable
  <2> QED
    BY <2>6, <2>7, <2>8 DEF Core
<1>4. CASE StopHost
  <2>1. /\ endpoint' = endpoint /\ mode' = mode /\ tasks' = tasks /\ leaving' = leaving
        /\ update.at = "stop_host" /\ Become(Target, "stopped")
        /\ update' = [at |-> "wait_server", host |-> update.host]
    BY <1>1, <1>4 DEF StopHost, Attempting, Doing, Target, inner
  <2>2. /\ Target \in DOMAIN hosts /\ DOMAIN hosts' = DOMAIN hosts
        /\ hosts'[Target].at = "stopped"
        /\ hosts[Target].at # "fresh" \/ tasks[0].at # "start"
        /\ \A g \in DOMAIN hosts : hosts'[g].kind = hosts[g].kind
        /\ \A g \in DOMAIN hosts : g # Target => hosts'[g] = hosts[g]
    BY <2>1, HostBecomes DEF Core, Stopping, NothingNew, First, Responds, BridgeTyped
  <2>3. OneTask' /\ Serves' /\ ModeIsOfTask'
    BY <2>1, <2>2
      DEF Core, OneTask, Serves, Serving, ModeIsOfTask, Embedded, First, BridgeTyped
  <2>4. Known' /\ Fresh'
    BY <2>1, <2>2
      DEF Core, Known, Held, Stopped, Fresh, Embedded, First, BridgeTyped, Unavailable
  <2>5. Stopping'
    BY <2>1, <2>2
      DEF Core, Known, Held, Serves, Serving, ModeIsOfTask, Stopping, Stopped, NothingNew,
        Target, Embedded, First, BridgeTyped, Unavailable
  <2> QED
    BY <2>3, <2>4, <2>5 DEF Core
<1>5. CASE WaitServer
  <2>1. /\ hosts' = hosts /\ endpoint' = endpoint /\ mode' = mode /\ tasks' = tasks
        /\ leaving' = leaving /\ update.at = "wait_server"
        /\ update' = [at |-> "install", host |-> update.host]
    BY <1>1, <1>5 DEF WaitServer, Attempting, Doing, Target, inner
  <2>2. OneTask' /\ Serves' /\ ModeIsOfTask'
    BY <2>1
      DEF Core, OneTask, Serves, Serving, ModeIsOfTask, Embedded, First, BridgeTyped
  <2>3. Known' /\ Fresh'
    BY <2>1
      DEF Core, Known, Held, Stopped, Fresh, Embedded, First, BridgeTyped, Unavailable
  <2>4. Stopping'
    BY <2>1
      DEF Core, Known, Held, Serves, Serving, ModeIsOfTask, Stopping, Stopped, NothingNew,
        Target, Embedded, First, BridgeTyped, Unavailable
  <2> QED
    BY <2>2, <2>3, <2>4 DEF Core
<1>6. CASE StopService
  <2>1. /\ endpoint' = endpoint /\ mode' = mode /\ tasks' = tasks /\ leaving' = leaving
        /\ update.at = "stop_service" /\ Responds(endpoint) /\ Become(endpoint, "stopped")
        /\ update' = [at |-> "wait_exit", host |-> endpoint]
    BY <1>1, <1>6 DEF StopService, Attempting, Doing, Target, inner
  <2>2. /\ endpoint \in DOMAIN hosts /\ DOMAIN hosts' = DOMAIN hosts
        /\ hosts'[endpoint].at = "stopped"
        /\ hosts[endpoint].at # "fresh" \/ tasks[0].at # "start"
        /\ \A g \in DOMAIN hosts : hosts'[g].kind = hosts[g].kind
        /\ \A g \in DOMAIN hosts : g # endpoint => hosts'[g] = hosts[g]
    <3>1. endpoint \in DOMAIN hosts /\ hosts[endpoint].at # "fresh"
      BY <2>1 DEF Responds, BridgeTyped
    <3> QED
      BY <2>1, <3>1, HostBecomes
  <2>3. OneTask' /\ Serves' /\ ModeIsOfTask'
    BY <2>1, <2>2
      DEF Core, OneTask, Serves, Serving, ModeIsOfTask, Embedded, First, BridgeTyped
  <2>4. Known' /\ Fresh'
    BY <2>1, <2>2
      DEF Core, Known, Held, Stopped, Fresh, Embedded, First, BridgeTyped, Unavailable
  <2>5. \A h \in DOMAIN hosts : Stopped(h)'
    BY <2>1, <2>2 DEF Core, Stopping, Stopped, Embedded
  <2>6. Stopping'
    BY <2>1, <2>2, <2>5 DEF Core, Stopping, NothingNew, Target, First
  <2> QED
    BY <2>3, <2>4, <2>6 DEF Core
<1>7. CASE WaitExit
  <2>1. /\ hosts' = hosts /\ endpoint' = endpoint /\ mode' = mode /\ tasks' = tasks
        /\ leaving' = leaving /\ update.at = "wait_exit"
        /\ hosts[Target].kind = "service" => hosts[Target].at = "gone"
        /\ update' = [at |-> "install", host |-> update.host]
    BY <1>1, <1>7 DEF WaitExit, Attempting, Doing, Target, inner
  <2>2. ~Embedded(Target) => hosts[Target].at = "gone"
    <3>1. Target \in DOMAIN hosts /\ hosts[Target] \in HostState
      BY <2>1 DEF Core, Stopping, BridgeTyped
    <3> QED
      BY <2>1, <3>1 DEF HostState, Embedded
  <2>3. OneTask' /\ Serves' /\ ModeIsOfTask'
    BY <2>1, <2>2
      DEF Core, OneTask, Serves, Serving, ModeIsOfTask, Embedded, First, BridgeTyped
  <2>4. Known' /\ Fresh'
    BY <2>1, <2>2
      DEF Core, Known, Held, Stopped, Fresh, Embedded, First, BridgeTyped, Unavailable
  <2>5. Stopping'
    BY <2>1, <2>2
      DEF Core, Known, Held, Serves, Serving, ModeIsOfTask, Stopping, Stopped, NothingNew,
        Target, Embedded, First, BridgeTyped, Unavailable
  <2> QED
    BY <2>3, <2>4, <2>5 DEF Core
<1>8. ~Install /\ ~InstallAborted /\ ~StartService /\ ~Spawn /\ ~Reconnect
  BY <1>1 DEF Install, InstallAborted, StartService, Spawn, Reconnect, Abandon, Attempting
<1> QED
  BY <1>2, <1>3, <1>4, <1>5, <1>6, <1>7, <1>8 DEF Updater

-----------------------------------------------------------------------------
\* The first three parts are kept by every step, the last as long as the first attempt lasts.
LEMMA BridgeInvariant == BridgeSpec => []BridgeInv
<1>1. ASSUME BridgeInit PROVE BridgeInv
  <2>1. 0 \in 0 .. MaxUpdates
    BY BridgeAssumption
  <2>2. /\ tasks[0] = [at |-> "connect", host |-> 0] /\ mode = Starting
        /\ update.at = "idle" /\ updates = 0
    BY <1>1, <2>1 DEF BridgeInit
  <2>3. \A h \in DOMAIN hosts : ~Embedded(h)
    BY <1>1 DEF BridgeInit, Embedded
  <2>4. OneTask
    BY <1>1 DEF BridgeInit, OneTask, NoTask
  <2>5. Core
    BY <2>2, <2>3, <2>4
      DEF Core, Known, Stopped, Fresh, Serves, Serving, ModeIsOfTask, Stopping, First, Starting
  <2> QED
    BY <1>1, <2>2, <2>3, <2>5, BridgeStarts DEF BridgeInv, NeverGone, NotAsked
<1>2. ASSUME BridgeInv, [BridgeNext]_bridgeVars PROVE BridgeInv'
  <2>1. CASE BridgeNext
    <3>1. BridgeTyped' /\ NeverGone' /\ NotAsked'
      BY <1>2, <2>1, BridgeTypes, NeverGoneKept, TriesOnce DEF BridgeInv
    <3>2. ASSUME Trying' PROVE Core'
      <4>1. Trying /\ Core
        BY <1>2, <2>1, <3>2, TriesOnce DEF BridgeInv
      <4>2. ASSUME NEW t \in 0 .. MaxUpdates, Task(t) PROVE Core'
        BY <1>2, <4>1, <4>2, OnlyTheFirst, TaskCore DEF BridgeInv, Core
      <4> QED
        BY <1>2, <2>1, <3>2, <4>1, <4>2, WorldCore, UpdaterCore
          DEF BridgeInv, BridgeNext, BridgeTyped
    <3> QED
      BY <3>1, <3>2 DEF BridgeInv
  <2>2. CASE UNCHANGED bridgeVars
    <3>1. BridgeTyped'
      BY <1>2, <2>2, BridgeTypes DEF BridgeInv
    <3>2. NeverGone' /\ NotAsked' /\ (Trying' => Trying)
      BY <1>2, <2>2 DEF BridgeInv, bridgeVars, world, NeverGone, NotAsked, Trying, Embedded
    <3>3. Core => Core'
      BY <2>2
        DEF bridgeVars, inner, world, Core, OneTask, Known, Held, Stopped, Fresh, Serves,
          Serving, ModeIsOfTask, Stopping, NothingNew, Target, Embedded, First
    <3> QED
      BY <1>2, <3>1, <3>2, <3>3 DEF BridgeInv
  <2> QED
    BY <1>2, <2>1, <2>2
<1> QED
  BY <1>1, <1>2, PTL DEF BridgeSpec

\* While the first installer runs no Host of the desktop's runs what is replaced: not the one
\* it embedded, nor one that its tasks would have taken up meanwhile, nor the service it stopped.
THEOREM InstallsAloneHolds == BridgeSpec => []InstallsAlone
<1>1. BridgeInv => InstallsAlone
  <2> SUFFICES ASSUME BridgeInv, update.at = "install", updates = 1
               PROVE  /\ \A h \in DOMAIN hosts :
                           hosts[h].kind = "embedded" => hosts[h].at = "stopped"
                      /\ hosts[Target].at =
                           (IF hosts[Target].kind = "embedded" THEN "stopped" ELSE "gone")
    BY DEF InstallsAlone, Doing
  <2>1. Stopping
    BY DEF BridgeInv, Trying, Attempting, Core
  <2> QED
    BY <2>1 DEF Stopping, Stopped, Embedded
<1> QED
  BY <1>1, BridgeInvariant, PTL
=============================================================================
