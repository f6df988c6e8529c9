---------------------------- MODULE CaptureOwner ----------------------------
(***************************************************************************)
(* Who may capture the clipboard.  The kernel grants one CaptureLease at a *)
(* time; a Host takes it to start capturing, and every thread that works   *)
(* for it holds a clone, so that the lease outlives the Host as long as    *)
(* one of them does.  Modelled here: CaptureManager (capture.rs) with its  *)
(* listener, queue and processor, the work tokens and LeaseRetention       *)
(* (work.rs), the requests that borrow a token, and Host::stop             *)
(* (router.rs), which takes all of it down step by step and may fail at    *)
(* any of them.                                                            *)
(*                                                                         *)
(* Hosts stands for the instances that may own the clipboard one after the *)
(* other: the service, the desktop's embedded Host and those that follow.  *)
(***************************************************************************)
EXTENDS Integers, Sequences, FiniteSets, FiniteSetsExt, SequencesExt

CONSTANTS
  Hosts,
  Embedded,    \* those inside a desktop, whose commands ask them for work
  Slots,       \* bound: work tokens that may exist at once
  MaxWork,     \* WorkTracker's limit (16)
  QueueCap,    \* frames the channel holds (16)
  QueuedBytes, \* bytes that may wait (32 MiB)
  Weights      \* weights a frame may have

ASSUME OwnerAssumption ==
  /\ MaxWork \in Nat \ {0} /\ QueueCap \in Nat \ {0} /\ QueuedBytes \in Nat
  /\ Weights \subseteq Nat \ {0} /\ Weights # {}
  /\ IsFiniteSet(Slots) /\ Cardinality(Slots) > MaxWork
  /\ Embedded \subseteq Hosts

VARIABLE host

vars == host

\* A slot's token: "processing", "followup", then "dropping".
FreeWork == [phase |-> "free", bytes |-> 0]

NewHost == [
  owned |-> TRUE,        \* somebody keeps an Arc<Host>
  dropped |-> FALSE,     \* Drop of Host has run
  stopping |-> FALSE,    \* Host::stop_requested
  stopped |-> FALSE,     \* Host::stopped
  lock |-> "free",       \* who holds Host::lifecycle: "start" or "stop"
  attached |-> FALSE,    \* it holds a manager
  running |-> FALSE,     \* CaptureManager::running is Some
  halt |-> FALSE,        \* Running::stop
  sender |-> FALSE,      \* Running::sender, or the starter's
  native |-> "none",     \* the listener: "live", "cancelled" or "finished"
  call |-> "idle",       \* its callback: "reading" or "sending"
  carry |-> 0,           \* the bytes of its frame
  queue |-> <<>>,        \* the weights of the frames that wait
  processor |-> "none",  \* "recv", "begin", "work", "exit", "finished" or "joined"
  frame |-> 0,           \* the bytes of the task in its hands
  task |-> {},           \* the token of the task in process()
  works |-> [s \in Slots |-> FreeWork],
  pending |-> 0,         \* the shared byte count
  start |-> "idle",      \* "subscribe", "ready" or "join"
  stop |-> "idle",       \* "lifecycle", "native", "processor", "drain", "hotkey", "helpers", "release"
  ask |-> "idle",        \* a command: "asking", "holding", "submitting" or "processing";
                         \* a request: "uploading" or "recording"
  tokens |-> {},         \* work that one keeps
  retention |-> "none",  \* LeaseRetention: "held", "draining" or "gone"
  confirmed |-> FALSE,
  shortcut |-> "none",   \* "on" or "cancelled"
  helper |-> FALSE ]     \* a native clipboard writer is alive

Init == host = [h \in Hosts |-> NewHost]

Step(h, new) == host' = [host EXCEPT ![h] = new]

-----------------------------------------------------------------------------
\* What is alive.

NativeAlive(h) == host[h].native \in {"live", "cancelled"}
ProcessorAlive(h) == host[h].processor \notin {"none", "finished", "joined"}
Tokens(h, phases) == {s \in Slots : host[h].works[s].phase \in phases}

\* WorkTracker::active: a token leaves the count before it lets go of the rest.
Active(h) == Cardinality(Tokens(h, {"processing", "followup"}))

\* Some thread can still reach the Host: Weak::upgrade succeeds.
Alive(h) ==
  \/ host[h].owned
  \/ host[h].call # "idle" \/ host[h].processor \in {"begin", "work"}
  \/ host[h].ask \in {"asking", "submitting", "processing", "uploading", "recording"}
  \/ host[h].stop # "idle" \/ host[h].start # "idle"

\* The clones of Arc<LeaseRetention>
RetentionShared(h) ==
  \/ host[h].start # "idle" \/ host[h].running
  \/ NativeAlive(h) \/ ProcessorAlive(h)
  \/ Tokens(h, {"processing", "followup", "dropping"}) # {}

\* Mutant: only the Host and its manager hold the lease.
LeaseOfHost(h) == host[h].start # "idle" \/ host[h].running

\* The clones of Arc<CaptureLease>
LeaseHeld(h) ==
  \/ RetentionShared(h)
  \/ host[h].retention \in {"held", "draining"}
  \/ host[h].shortcut # "none"

\* The channel has a sender.
Connected(h) == host[h].sender \/ NativeAlive(h)

Bytes(works, S) == MapThenSumSet(LAMBDA s : works[s].bytes, S)
-----------------------------------------------------------------------------
\* CaptureManager::start_with_hooks, which keeps the lifecycle locked.

StartCapture(h) ==
  /\ host[h].owned /\ host[h].start = "idle" /\ host[h].lock = "free"
  /\ ~host[h].attached /\ ~host[h].stopping
  /\ \A g \in Hosts : ~LeaseHeld(g)
  /\ Step(h, [host[h] EXCEPT !.start = "subscribe", !.lock = "start",
                             !.retention = "held", !.sender = TRUE,
                             !.processor = "recv"])

Subscribe(h) ==
  /\ host[h].start = "subscribe"
  /\ Step(h, [host[h] EXCEPT !.start = "ready", !.native = "live"])

\* No listener: the starter waits for the processor, which has nobody to hear.
SubscribeFails(h) ==
  /\ host[h].start = "subscribe"
  /\ Step(h, [host[h] EXCEPT !.start = "join", !.sender = FALSE])

JoinFailedStart(h) ==
  /\ host[h].start = "join" /\ host[h].processor = "finished"
  /\ Step(h, [host[h] EXCEPT !.start = "idle", !.lock = "free",
                             !.processor = "none"])

\* The manager is attached whether or not the listener became ready.
Attach(h) ==
  /\ host[h].start = "ready"
  /\ Step(h, [host[h] EXCEPT !.start = "idle", !.lock = "free",
                             !.attached = TRUE, !.running = TRUE])

Starter(h) ==
  StartCapture(h) \/ Subscribe(h) \/ SubscribeFails(h) \/ JoinFailedStart(h)
    \/ Attach(h)
-----------------------------------------------------------------------------
\* The listener's thread and its callback.

Notified(h) ==
  /\ NativeAlive(h) /\ host[h].call = "idle"
  /\ ~host[h].halt /\ Alive(h)
  /\ Step(h, [host[h] EXCEPT !.call = "reading"])

\* Nothing to read, refused, or beyond the byte budget
ReadNothing(h) ==
  /\ host[h].call = "reading"
  /\ Step(h, [host[h] EXCEPT !.call = "idle"])

Reserve(h) ==
  /\ host[h].call = "reading"
  /\ \E w \in Weights :
       /\ host[h].pending + w <= QueuedBytes
       /\ Step(h, [host[h] EXCEPT !.call = "sending", !.carry = w,
                                  !.pending = @ + w])

\* try_send: a frame that does not fit takes its bytes with it.
Send(h) ==
  /\ host[h].call = "sending"
  /\ IF Len(host[h].queue) < QueueCap /\ ProcessorAlive(h)
     THEN Step(h, [host[h] EXCEPT !.call = "idle", !.carry = 0,
                                  !.queue = Append(@, host[h].carry)])
     ELSE Step(h, [host[h] EXCEPT !.call = "idle", !.carry = 0,
                                  !.pending = @ - host[h].carry])

\* The thread ends when told to, or because the platform failed it.
NativeEnds(h) ==
  /\ NativeAlive(h) /\ host[h].call = "idle"
  /\ Step(h, [host[h] EXCEPT !.native = "finished"])

Callback(h) == ReadNothing(h) \/ Reserve(h) \/ Send(h)
-----------------------------------------------------------------------------
\* The processor's thread.

\* recv, then the stop flag and the upgrade; leaving the loop drops the task.
Receive(h) ==
  /\ host[h].processor = "recv" /\ host[h].queue # <<>>
  /\ LET w == Head(host[h].queue) IN
     IF ~host[h].halt /\ Alive(h)
     THEN Step(h, [host[h] EXCEPT !.processor = "begin", !.frame = w,
                                  !.queue = Tail(@)])
     ELSE Step(h, [host[h] EXCEPT !.processor = "exit", !.queue = Tail(@),
                                  !.pending = @ - w])

Disconnected(h) ==
  /\ host[h].processor = "recv" /\ host[h].queue = <<>> /\ ~Connected(h)
  /\ Step(h, [host[h] EXCEPT !.processor = "exit"])

\* WorkTracker::begin
MayBegin(h, s) == host[h].works[s].phase = "free" /\ Active(h) < MaxWork
Taken(h, s, phase, w) ==
  [host[h].works EXCEPT ![s] = [phase |-> phase, bytes |-> w]]

FollowedUp(h, S) ==
  [s \in Slots |-> IF s \in S THEN [host[h].works[s] EXCEPT !.phase = "followup"]
                               ELSE host[h].works[s]]

BeginTask(h) ==
  /\ host[h].processor = "begin"
  /\ IF Active(h) < MaxWork
     THEN \E s \in Slots :
            /\ MayBegin(h, s)
            /\ Step(h, [host[h] EXCEPT
                 !.processor = "work", !.task = {s}, !.frame = 0,
                 !.works = Taken(h, s, "processing", host[h].frame)])
     ELSE Step(h, [host[h] EXCEPT !.processor = "recv", !.frame = 0,
                                  !.pending = @ - host[h].frame])

\* process(): the token goes on into the follow-up, or is let go at once.
EndTask(h) ==
  /\ host[h].processor = "work"
  /\ Step(h, [host[h] EXCEPT !.processor = "recv", !.task = {},
                             !.works = FollowedUp(h, host[h].task)])

\* The end of the thread drops the receiver and what is queued in it.
ProcessorEnds(h) ==
  /\ host[h].processor = "exit"
  /\ Step(h, [host[h] EXCEPT !.processor = "finished", !.queue = <<>>,
                             !.pending = @ - FoldSeq(+, 0, host[h].queue)])

Processor(h) ==
  Receive(h) \/ Disconnected(h) \/ BeginTask(h) \/ EndTask(h) \/ ProcessorEnds(h)
-----------------------------------------------------------------------------
\* Work tokens.

\* Mutant: the bytes are given back here and again with the fields.
FollowUpEndsTwice(h) ==
  \E s \in Tokens(h, {"followup"}) \ host[h].tokens :
    Step(h, [host[h] EXCEPT !.works[s].phase = "dropping",
                            !.pending = @ - host[h].works[s].bytes])

\* Drop of Work takes it off the count and wakes drain() ...
FollowUpEnds(h) ==
  \E s \in Tokens(h, {"followup"}) \ host[h].tokens :
    Step(h, [host[h] EXCEPT !.works[s].phase = "dropping"])

\* ... and only then are its fields dropped: lease, bytes, retention.
TokenGone(h) ==
  \E s \in Tokens(h, {"dropping"}) :
    Step(h, [host[h] EXCEPT !.works[s] = FreeWork,
                            !.pending = @ - host[h].works[s].bytes])

-----------------------------------------------------------------------------
\* A command of the desktop that produces text: it takes a token first
\* (Host::begin_work), and hands the text in while it keeps it
\* (Host::capture_generated).  Both look at the stop request before they wait
\* for the lifecycle.  An upload, or a copy that derives text, hands it in with
\* no token of its own, under the lock of the requests, which a stop takes too.

Ask(h) ==
  /\ h \in Embedded
  /\ host[h].ask = "idle" /\ host[h].owned /\ ~host[h].stopping
  /\ Step(h, [host[h] EXCEPT !.ask = "asking"])

\* Mutant: the flag is not looked at again under the lock.
AdmittedOnce(h) == host[h].running

\* The lifecycle and the slot are the request's, and the slot admits work.
Unlocked(h) == host[h].lock = "free"
Admitted(h) == host[h].running /\ ~host[h].halt

GrantWork(h) ==
  /\ host[h].ask = "asking" /\ Unlocked(h) /\ Admitted(h)
  /\ \E s \in Slots :
       /\ MayBegin(h, s)
       /\ Step(h, [host[h] EXCEPT !.ask = "holding", !.tokens = {s},
                                  !.works = Taken(h, s, "followup", 0)])

RefuseWork(h) ==
  /\ host[h].ask = "asking" /\ Unlocked(h)
  /\ ~Admitted(h) \/ Active(h) >= MaxWork
  /\ Step(h, [host[h] EXCEPT !.ask = "idle"])

Submit(h) ==
  /\ host[h].ask = "holding" /\ host[h].owned /\ ~host[h].stopping
  /\ Step(h, [host[h] EXCEPT !.ask = "submitting"])

Upload(h) ==
  /\ host[h].ask = "idle" /\ host[h].owned /\ ~host[h].stopping
  /\ host[h].stop = "idle"
  /\ Step(h, [host[h] EXCEPT !.ask = "uploading"])

InRequest(h) == host[h].ask \in {"uploading", "recording"}

GrantGenerated(h) ==
  /\ host[h].ask \in {"submitting", "uploading"} /\ Unlocked(h) /\ Admitted(h)
  /\ \E s \in Slots, w \in Weights :
       /\ MayBegin(h, s) /\ host[h].pending + w <= QueuedBytes
       /\ Step(h, [host[h] EXCEPT
            !.ask = IF @ = "uploading" THEN "recording" ELSE "processing",
            !.tokens = @ \cup {s},
            !.works = Taken(h, s, "processing", w), !.pending = @ + w])

RefuseGenerated(h) ==
  /\ host[h].ask \in {"submitting", "uploading"} /\ Unlocked(h)
  /\ \/ ~Admitted(h)
     \/ Active(h) >= MaxWork
     \/ \E w \in Weights : host[h].pending + w > QueuedBytes
  /\ Step(h, [host[h] EXCEPT !.ask = IF @ = "uploading" THEN "idle" ELSE "holding"])

\* The command or the request is over: its tokens are let go, or live on in a follow-up.
Release(h) ==
  /\ host[h].ask \in {"holding", "processing", "recording"}
  /\ Step(h, [host[h] EXCEPT !.ask = "idle", !.tokens = {},
                             !.works = FollowedUp(h, host[h].tokens)])

Desktop(h) ==
  GrantWork(h) \/ RefuseWork(h) \/ GrantGenerated(h) \/ RefuseGenerated(h)
    \/ Release(h)

-----------------------------------------------------------------------------
\* Requests that a Host serves one at a time with Host::stop.

\* A copy starts the native writer; the writer may end by itself.
Copy(h) ==
  /\ host[h].stop = "idle" /\ ~InRequest(h) /\ host[h].owned /\ ~host[h].stopping
  /\ ~host[h].helper
  /\ Step(h, [host[h] EXCEPT !.helper = TRUE])

HelperEnds(h) ==
  /\ host[h].helper
  /\ Step(h, [host[h] EXCEPT !.helper = FALSE])

\* Hotkey::set: the thread that serves the shortcut has a lease of its own.
SetShortcut(h) ==
  /\ host[h].stop = "idle" /\ ~InRequest(h) /\ host[h].owned /\ ~host[h].stopping
  /\ Unlocked(h) /\ Admitted(h) /\ host[h].shortcut = "none"
  /\ Step(h, [host[h] EXCEPT !.shortcut = "on"])

ShortcutEnds(h) ==
  /\ host[h].shortcut = "cancelled"
  /\ Step(h, [host[h] EXCEPT !.shortcut = "none"])

-----------------------------------------------------------------------------
\* Host::stop.  Each step may fail; what it did stays done, and a later call
\* begins again from the top.

Advance(h, from, to) == host[h].stop = from /\ Step(h, [host[h] EXCEPT !.stop = to])

\* Mutant: the lifecycle stays locked after a failure.
FailLocked(h) == Step(h, [host[h] EXCEPT !.stop = "idle"])

\* Err: the locks of stop_capture go with it.
Fail(h) == Step(h, [host[h] EXCEPT !.stop = "idle",
                      !.lock = IF @ = "stop" THEN "free" ELSE @])

BeginStop(h) ==
  /\ host[h].stop = "idle" /\ host[h].owned /\ ~host[h].stopped
  /\ ~InRequest(h)
  /\ Step(h, [host[h] EXCEPT !.stop = "lifecycle", !.stopping = TRUE])

\* stop_capture with nothing attached, or after release_ownership
NothingToStop(h) ==
  /\ Unlocked(h) /\ ~host[h].running
  /\ Advance(h, "lifecycle", "hotkey")

\* stop_with_timeout: the flag, then the listener
SignalStop(h) ==
  /\ host[h].stop = "lifecycle" /\ Unlocked(h) /\ host[h].running
  /\ Step(h, [host[h] EXCEPT !.stop = "native", !.lock = "stop", !.halt = TRUE,
       !.native = IF @ = "live" THEN "cancelled" ELSE @])

\* The listener ended: the manager's sender goes.
NativeStopped(h) ==
  /\ host[h].stop = "native" /\ ~NativeAlive(h)
  /\ Step(h, [host[h] EXCEPT !.stop = "processor", !.sender = FALSE])

\* Not in time, or it ended with an error
NativeStopFails(h) == host[h].stop = "native" /\ Fail(h)

ProcessorJoined(h) ==
  /\ host[h].stop = "processor" /\ host[h].processor \in {"finished", "joined"}
  /\ Step(h, [host[h] EXCEPT !.stop = "drain", !.processor = "joined"])

ProcessorStopFails(h) ==
  /\ host[h].stop = "processor"
  /\ host[h].processor \notin {"exit", "finished", "joined"}
  /\ Fail(h)

Drained(h) == Active(h) = 0

CaptureStopped(h) ==
  /\ host[h].stop = "drain" /\ Drained(h)
  /\ Step(h, [host[h] EXCEPT !.stop = "hotkey", !.lock = "free"])

\* Mutant: the wait for the tokens has no end.
DrainWaits(h) == FALSE

DrainFails(h) == host[h].stop = "drain" /\ ~Drained(h) /\ Fail(h)

HotkeyStopped(h) ==
  /\ host[h].stop = "hotkey"
  /\ Step(h, [host[h] EXCEPT !.stop = "helpers", !.shortcut = "none"])

HotkeyStopFails(h) ==
  /\ host[h].stop = "hotkey" /\ host[h].shortcut # "none"
  /\ Step(h, [host[h] EXCEPT !.stop = "idle", !.shortcut = "cancelled"])

\* revoke_private_exports, snapshots, uploads, stop_helpers
HelpersStopped(h) ==
  /\ host[h].stop = "helpers"
  /\ Step(h, [host[h] EXCEPT !.stop = "release", !.helper = FALSE])

HelpersStopFail(h) == host[h].stop = "helpers" /\ Fail(h)

\* release_ownership looks at the workers again, confirms the helpers' end and
\* empties the slot.
Released(h) ==
  /\ host[h].stop = "release" /\ Unlocked(h)
  /\ IF host[h].running =>
          host[h].processor = "joined" /\ ~NativeAlive(h) /\ Drained(h)
     THEN Step(h, [host[h] EXCEPT !.stop = "idle", !.stopped = TRUE,
                     !.confirmed = host[h].running, !.running = FALSE])
     ELSE Fail(h)

Stopper(h) ==
  \/ NothingToStop(h) \/ SignalStop(h)
  \/ NativeStopped(h) \/ NativeStopFails(h)
  \/ ProcessorJoined(h) \/ ProcessorStopFails(h)
  \/ CaptureStopped(h) \/ DrainFails(h)
  \/ HotkeyStopped(h) \/ HotkeyStopFails(h)
  \/ HelpersStopped(h) \/ HelpersStopFail(h)
  \/ Released(h)
-----------------------------------------------------------------------------
\* A Host that is let go, stopped or not.

Abandon(h) ==
  /\ host[h].owned
  /\ Step(h, [host[h] EXCEPT !.owned = FALSE])

\* Mutant: the listener is let go without a word.
DropHostQuietly(h) ==
  /\ ~Alive(h) /\ ~host[h].dropped
  /\ Step(h, [host[h] EXCEPT !.dropped = TRUE, !.running = FALSE,
       !.sender = FALSE,
       !.shortcut = IF @ = "on" THEN "cancelled" ELSE @])

\* Drop of Host, Running and Registration: everything is told to end, and
\* nothing waits for it for good.
DropHost(h) ==
  /\ ~Alive(h) /\ ~host[h].dropped
  /\ Step(h, [host[h] EXCEPT !.dropped = TRUE, !.running = FALSE,
       !.sender = FALSE,
       !.native = IF @ = "live" THEN "cancelled" ELSE @,
       !.shortcut = IF @ = "on" THEN "cancelled" ELSE @])

\* Drop of LeaseRetention, after its last clone
RetentionDropped(h) ==
  /\ host[h].retention = "held" /\ ~RetentionShared(h)
  /\ IF host[h].confirmed
     THEN Step(h, [host[h] EXCEPT !.retention = "gone"])
     ELSE \/ Step(h, [host[h] EXCEPT !.retention = "gone", !.helper = FALSE])
          \/ Step(h, [host[h] EXCEPT !.retention = "draining"])

\* The worker dzc-owner-drain tries until the helper's end is confirmed.
OwnerDrained(h) ==
  /\ host[h].retention = "draining"
  /\ Step(h, [host[h] EXCEPT !.retention = "gone", !.helper = FALSE])

HostStep(h) ==
  \/ Starter(h)
  \/ Notified(h) \/ Callback(h) \/ NativeEnds(h)
  \/ Processor(h)
  \/ FollowUpEnds(h) \/ TokenGone(h)
  \/ Ask(h) \/ Submit(h) \/ Upload(h) \/ Desktop(h)
  \/ Copy(h) \/ HelperEnds(h) \/ SetShortcut(h) \/ ShortcutEnds(h)
  \/ BeginStop(h) \/ Stopper(h)
  \/ Abandon(h) \/ DropHost(h) \/ RetentionDropped(h) \/ OwnerDrained(h)

Next == \E h \in Hosts : HostStep(h)

Spec == Init /\ [][Next]_vars

\* Every thread takes its next step; the platform ends a listener that was
\* cancelled, a writer that is asked often enough, and a key's registration.
\* Nobody has to abandon a Host, and only an operator begins to stop one.
FairThreads(h) ==
  /\ WF_vars(Subscribe(h) \/ SubscribeFails(h) \/ JoinFailedStart(h) \/ Attach(h))
  /\ WF_vars(Processor(h))
  /\ WF_vars(Stopper(h))

FairPlatform(h) ==
  /\ WF_vars(Callback(h))
  /\ WF_vars(host[h].native = "cancelled" /\ NativeEnds(h))
  /\ WF_vars(FollowUpEnds(h)) /\ WF_vars(TokenGone(h))
  /\ WF_vars(Desktop(h))
  /\ WF_vars(ShortcutEnds(h))
  /\ WF_vars(DropHost(h))
  /\ WF_vars(RetentionDropped(h)) /\ WF_vars(OwnerDrained(h))

\* The operator tries again, and not so fast that a request waiting for the
\* lifecycle never gets it; a listener, a key or a writer asked to end time and
\* again does so once within the time allowed.
FairRetries(h) ==
  /\ SF_vars(Desktop(h))
  /\ SF_vars(host[h].stopping /\ BeginStop(h))
  /\ SF_vars(NativeStopped(h))
  /\ SF_vars(ProcessorJoined(h))
  /\ SF_vars(CaptureStopped(h))
  /\ SF_vars(HotkeyStopped(h))
  /\ SF_vars(HelpersStopped(h))

ThreadSpec == Spec /\ \A h \in Hosts : FairThreads(h)
-----------------------------------------------------------------------------
\* Threads that may still bring something into the history
Recording(h) == NativeAlive(h) \/ ProcessorAlive(h) \/ Active(h) > 0

\* Threads and helpers of a Host that had the clipboard
Capturing(h) ==
  \/ Recording(h)
  \/ host[h].shortcut # "none"
  \/ host[h].attached /\ host[h].helper

\* Two Hosts never capture at once: not while one is being stopped, not after a
\* stop that failed, not when one was dropped with its threads still running
\* (the clones of CaptureLease in capture.rs, hotkey.rs and work.rs).
OneCapturer ==
  \A g, h \in Hosts : Capturing(g) /\ Capturing(h) => g = h

\* Once stop_capture has succeeded nothing is recorded any more, while the rest
\* of the Host is taken down, and a Host that says it has stopped has nothing
\* left alive: what was admitted before was waited for, and nothing is admitted
\* after (CaptureManager::stop_with_timeout, begin_work, capture_generated).
StoppedIsQuiet ==
  \A h \in Hosts :
    /\ host[h].stop \in {"hotkey", "helpers", "release"} => ~Recording(h)
    /\ host[h].stopped => ~Capturing(h)

\* The bytes on the books are those of the frames alive, whichever way each
\* frame goes (Budget, capture.rs).
BytesAccounted ==
  \A h \in Hosts :
    /\ host[h].pending = host[h].carry + host[h].frame
         + FoldSeq(+, 0, host[h].queue) + Bytes(host[h].works, Slots)
    /\ host[h].pending <= QueuedBytes

\* A call of Host::stop returns, with nothing assumed of the listener, of the
\* work under way or of the helpers: what it waits for under its locks never
\* waits for those locks without end (stop_with_timeout, WorkTracker::drain).
StopReturns ==
  \A h \in Hosts : host[h].stop # "idle" ~> host[h].stop = "idle"

\* A Host that was dropped, even after a failed stop, gives the lease back once
\* its threads and its helper have ended (LeaseRetention).
LeaseComesFree ==
  \A h \in Hosts : host[h].dropped ~> ~LeaseHeld(h)

\* A stop that is retried succeeds in the end (Host::stop).
StopSucceeds ==
  \A h \in Hosts : host[h].stopping ~> host[h].stopped \/ ~host[h].owned
=============================================================================
