------------------------- MODULE CaptureOwner_proof -------------------------
(***************************************************************************)
(* At most one Host captures, for any number of Hosts, tokens and frames   *)
(* and any bounds.  Whatever captures holds a clone of the lease; a clone  *)
(* is only ever made from another, except by the one step that takes the   *)
(* lease when no Host has any; so the clones are all of one Host.          *)
(*                                                                         *)
(* And a Host that was stopped is quiet: what Host::stop has waited for is *)
(* gone, and nothing is let in behind it.                                  *)
(*                                                                         *)
(* And the shared count of waiting bytes is the sum of the bytes of the    *)
(* frames alive: every frame is in one place, and whoever lets it go takes *)
(* its bytes, and only those, off the count.                               *)
(***************************************************************************)
EXTENDS CaptureOwner, FiniteSetTheorems, NaturalsInduction,
        WellFoundedInduction, TLAPS

\* What a Host is for the first two arguments: a record with these fields.  What
\* the counters and the queue hold does not matter to them, so that fields have
\* any values of some set.
Shape(V) == [
  owned : V, dropped : V, stopping : V, stopped : V, lock : V, attached : V,
  running : V, halt : V, sender : V, native : V, call : V, carry : V,
  queue : V, processor : V, frame : V, task : V, pending : V, start : V,
  stop : V, ask : V, tokens : V, retention : V, confirmed : V, shortcut : V,
  helper : V,
  works : [Slots -> [phase : V, bytes : V]]]

Common == {
  TRUE, FALSE, 0, {}, "asking", "begin", "cancelled", "drain", "draining",
  "dropping", "exit", "finished", "followup", "free", "gone", "held",
  "helpers", "holding", "hotkey", "idle", "join", "joined", "lifecycle",
  "live", "native", "none", "processing", "processor", "reading", "ready",
  "recording", "uploading", "recv", "release", "sending", "start", "stop", "submitting", "subscribe",
  "work", "on"}

Shapes(V) == Common \subseteq V /\ host \in [Hosts -> Shape(V)]

Shaped == \E V : Shapes(V)

\* Why a clone is there when another is made, and why the helper of a Host that
\* had the clipboard has ended by the time LeaseRetention lets go.
Kept(h) ==
  /\ host[h].start # "idle" => host[h].retention = "held" /\ ~host[h].attached
  /\ host[h].running =>
       host[h].retention = "held" /\ host[h].attached /\ host[h].start = "idle"
  /\ host[h].dropped => ~host[h].owned
  /\ host[h].attached /\ ~host[h].running => host[h].stopping \/ host[h].dropped
  /\ host[h].stop # "idle" => host[h].stopping
  /\ host[h].stop = "release" => ~host[h].helper
  /\ host[h].confirmed => host[h].stopping /\ ~host[h].helper
  /\ host[h].attached /\ host[h].helper => host[h].retention \in {"held", "draining"}
  /\ host[h].tokens \subseteq Slots
  /\ \A s \in host[h].tokens : host[h].works[s].phase \in {"processing", "followup"}

OneLease == \A g, h \in Hosts : LeaseHeld(g) /\ LeaseHeld(h) => g = h

\* The inductive invariant.
IInv == Shaped /\ (\A h \in Hosts : Kept(h)) /\ OneLease

\* h moves and stays a record, the others stay where they are.
Framed(h) == Shaped' /\ \A g \in Hosts : g # h => host'[g] = host[g]

\* What every step of h does but the one that takes the lease.
Keeps(h) == Framed(h) /\ Kept(h)' /\ (LeaseHeld(h)' => LeaseHeld(h))

USE DEF Keeps, Kept, Step, LeaseHeld, RetentionShared, NativeAlive,
        ProcessorAlive, Tokens

\* A record over fewer values is one over more.
LEMMA Wider ==
  ASSUME NEW A, NEW B, A \subseteq B
  PROVE  Shape(A) \subseteq Shape(B)
  BY SMT DEF Shape

\* A step that gives h another record moves no other Host.
LEMMA Reshaped ==
  ASSUME NEW A, NEW B, Shapes(A), A \subseteq B, NEW h \in Hosts,
         NEW new \in Shape(B), Step(h, new)
  PROVE  Framed(h)
  BY Wider, SMT DEF Framed, Shapes, Shaped, Step

\* Giving a slot to a work token leaves a table of slots.
LEMMA TakenIsShaped ==
  ASSUME NEW V, NEW W, V \subseteq W, NEW h \in Hosts, host[h] \in Shape(V),
         NEW s \in Slots, NEW p \in W, NEW b \in W
  PROVE  Taken(h, s, p, b) \in [Slots -> [phase : W, bytes : W]]
  BY SMT DEF Shape, Taken

\* So does the follow-up of the slots a task ends with.
LEMMA FollowedUpIsShaped ==
  ASSUME NEW V, NEW h \in Hosts, host[h] \in Shape(V), "followup" \in V, NEW S
  PROVE  FollowedUp(h, S) \in [Slots -> [phase : V, bytes : V]]
  BY SMT DEF Shape, FollowedUp

\* The starter, but for the step that takes the lease.
LEMMA StarterKeeps ==
  ASSUME NEW V, Shapes(V), NEW h \in Hosts, Kept(h),
         Starter(h), ~StartCapture(h)
  PROVE  Keeps(h)
<1>1. /\ host[h] \in Shape(V)
      /\ "ready" \in V /\ "live" \in V /\ "join" \in V /\ FALSE \in V
      /\ "idle" \in V /\ "free" \in V /\ "none" \in V /\ TRUE \in V
  BY DEF Shapes, Common
<1>2. CASE Subscribe(h)
  <2>1. [host[h] EXCEPT !.start = "ready", !.native = "live"] \in Shape(V)
    BY <1>1, Zenon DEF Shape
  <2>2. Framed(h)
    BY <1>2, <2>1, Reshaped DEF Subscribe
  <2> QED
    BY <1>1, <1>2, <2>2, SMT DEF Shape, Subscribe
<1>3. CASE SubscribeFails(h)
  <2>1. [host[h] EXCEPT !.start = "join", !.sender = FALSE] \in Shape(V)
    BY <1>1, Zenon DEF Shape
  <2>2. Framed(h)
    BY <1>3, <2>1, Reshaped DEF SubscribeFails
  <2> QED
    BY <1>1, <1>3, <2>2, SMT DEF Shape, SubscribeFails
<1>4. CASE JoinFailedStart(h)
  <2>1. [host[h] EXCEPT !.start = "idle", !.lock = "free",
                        !.processor = "none"] \in Shape(V)
    BY <1>1, Zenon DEF Shape
  <2>2. Framed(h)
    BY <1>4, <2>1, Reshaped DEF JoinFailedStart
  <2> QED
    BY <1>1, <1>4, <2>2, SMT DEF Shape, JoinFailedStart
<1>5. CASE Attach(h)
  <2>1. [host[h] EXCEPT !.start = "idle", !.lock = "free", !.attached = TRUE,
                        !.running = TRUE] \in Shape(V)
    BY <1>1, Zenon DEF Shape
  <2>2. Framed(h)
    BY <1>5, <2>1, Reshaped DEF Attach
  <2> QED
    BY <1>1, <1>5, <2>2, SMT DEF Shape, Attach
<1> QED
  BY <1>2, <1>3, <1>4, <1>5 DEF Starter

\* The listener and its callback.
LEMMA ListenerKeeps ==
  ASSUME NEW V, Shapes(V), NEW h \in Hosts, Kept(h),
         Notified(h) \/ Callback(h) \/ NativeEnds(h)
  PROVE  Keeps(h)
<1>1. /\ host[h] \in Shape(V)
      /\ "reading" \in V /\ "idle" \in V /\ "finished" \in V
      /\ "sending" \in V /\ 0 \in V
  BY DEF Shapes, Common
<1>2. CASE Notified(h)
  <2>1. [host[h] EXCEPT !.call = "reading"] \in Shape(V)
    BY <1>1, Zenon DEF Shape
  <2>2. Framed(h)
    BY <1>2, <2>1, Reshaped DEF Notified
  <2> QED
    BY <1>1, <1>2, <2>2, SMT DEF Shape, Notified, Alive
<1>3. CASE ReadNothing(h)
  <2>1. [host[h] EXCEPT !.call = "idle"] \in Shape(V)
    BY <1>1, Zenon DEF Shape
  <2>2. Framed(h)
    BY <1>3, <2>1, Reshaped DEF ReadNothing
  <2> QED
    BY <1>1, <1>3, <2>2, SMT DEF Shape, ReadNothing
<1>4. CASE Reserve(h)
  <2>0. PICK c \in Weights : Step(h, [host[h] EXCEPT !.call = "sending", !.carry = c,
                                                     !.pending = @ + c])
    BY <1>4 DEF Reserve
  <2> DEFINE p == host[h].pending + c
  <2> DEFINE W == V \cup {c, p}
  <2> HIDE DEF p
  <2>1. Step(h, [host[h] EXCEPT !.call = "sending", !.carry = c, !.pending = p])
    BY <2>0, Zenon DEF p
  <2>2. host[h] \in Shape(W) /\ "sending" \in W /\ c \in W /\ p \in W
    BY <1>1, Wider
  <2> HIDE DEF W
  <2>3. [host[h] EXCEPT !.call = "sending", !.carry = c, !.pending = p] \in Shape(W)
    BY <2>2, Zenon DEF Shape
  <2>4. Framed(h)
    BY <2>1, <2>3, Reshaped DEF W
  <2> QED BY <1>1, <2>1, <2>4, SMT DEF Shape
<1>5. CASE Send(h)
  <2>1. \/ \E q : Step(h, [host[h] EXCEPT !.call = "idle", !.carry = 0, !.queue = q])
        \/ \E p : Step(h, [host[h] EXCEPT !.call = "idle", !.carry = 0, !.pending = p])
    BY <1>5, Zenon DEF Send
  <2>2. ASSUME NEW q,
               Step(h, [host[h] EXCEPT !.call = "idle", !.carry = 0, !.queue = q])
        PROVE  Keeps(h)
    <3> DEFINE W == V \cup {q}
    <3>1. host[h] \in Shape(W) /\ "idle" \in W /\ 0 \in W /\ q \in W
      BY <1>1, Wider
    <3> HIDE DEF W
    <3>2. [host[h] EXCEPT !.call = "idle", !.carry = 0, !.queue = q] \in Shape(W)
      BY <3>1, Zenon DEF Shape
    <3>3. Framed(h)
      BY <2>2, <3>2, Reshaped DEF W
    <3> QED BY <1>1, <2>2, <3>3, SMT DEF Shape
  <2>3. ASSUME NEW p,
               Step(h, [host[h] EXCEPT !.call = "idle", !.carry = 0, !.pending = p])
        PROVE  Keeps(h)
    <3> DEFINE W == V \cup {p}
    <3>1. host[h] \in Shape(W) /\ "idle" \in W /\ 0 \in W /\ p \in W
      BY <1>1, Wider
    <3> HIDE DEF W
    <3>2. [host[h] EXCEPT !.call = "idle", !.carry = 0, !.pending = p] \in Shape(W)
      BY <3>1, Zenon DEF Shape
    <3>3. Framed(h)
      BY <2>3, <3>2, Reshaped DEF W
    <3> QED BY <1>1, <2>3, <3>3, SMT DEF Shape
  <2> QED BY <2>1, <2>2, <2>3
<1>6. CASE NativeEnds(h)
  <2>1. [host[h] EXCEPT !.native = "finished"] \in Shape(V)
    BY <1>1, Zenon DEF Shape
  <2>2. Framed(h)
    BY <1>6, <2>1, Reshaped DEF NativeEnds
  <2> QED
    BY <1>1, <1>6, <2>2, SMT DEF Shape, NativeEnds, Alive
<1> QED
  BY <1>2, <1>3, <1>4, <1>5, <1>6 DEF Callback

\* The processor.
LEMMA ProcessorKeeps ==
  ASSUME NEW V, Shapes(V), NEW h \in Hosts, Kept(h),
         Processor(h)
  PROVE  Keeps(h)
<1>1. /\ host[h] \in Shape(V)
      /\ "exit" \in V /\ "begin" \in V /\ "work" \in V /\ "recv" \in V
      /\ "processing" \in V /\ 0 \in V /\ {} \in V /\ "followup" \in V
      /\ "finished" \in V
  BY DEF Shapes, Common
<1>2. CASE Receive(h)
  <2>1. host[h].processor = "recv"
    BY <1>2 DEF Receive
  <2>2. ASSUME NEW w, NEW q,
               Step(h, [host[h] EXCEPT !.processor = "begin", !.frame = w, !.queue = q])
        PROVE  Keeps(h)
    <3> DEFINE W == V \cup {w, q}
    <3>1. host[h] \in Shape(W) /\ "begin" \in W /\ w \in W /\ q \in W
      BY <1>1, Wider
    <3> HIDE DEF W
    <3>2. [host[h] EXCEPT !.processor = "begin", !.frame = w, !.queue = q] \in Shape(W)
      BY <3>1, Zenon DEF Shape
    <3>3. Framed(h)
      BY <2>2, <3>2, Reshaped DEF W
    <3> QED BY <1>1, <2>1, <2>2, <3>3, SMT DEF Shape
  <2>3. ASSUME NEW q, NEW p,
               Step(h, [host[h] EXCEPT !.processor = "exit", !.queue = q, !.pending = p])
        PROVE  Keeps(h)
    <3> DEFINE W == V \cup {q, p}
    <3>1. host[h] \in Shape(W) /\ "exit" \in W /\ q \in W /\ p \in W
      BY <1>1, Wider
    <3> HIDE DEF W
    <3>2. [host[h] EXCEPT !.processor = "exit", !.queue = q, !.pending = p] \in Shape(W)
      BY <3>1, Zenon DEF Shape
    <3>3. Framed(h)
      BY <2>3, <3>2, Reshaped DEF W
    <3> QED BY <1>1, <2>1, <2>3, <3>3, SMT DEF Shape
  <2> DEFINE w == Head(host[h].queue)
  <2> DEFINE q == Tail(host[h].queue)
  <2> DEFINE p == host[h].pending - w
  <2>4. \/ Step(h, [host[h] EXCEPT !.processor = "begin", !.frame = w, !.queue = q])
        \/ Step(h, [host[h] EXCEPT !.processor = "exit", !.queue = q, !.pending = p])
    BY <1>2, Zenon DEF Receive
  <2> HIDE DEF w, q, p
  <2> QED BY ZenonT(30), <2>2, <2>3, <2>4
<1>3. CASE Disconnected(h)
  <2>1. [host[h] EXCEPT !.processor = "exit"] \in Shape(V)
    BY <1>1, Zenon DEF Shape
  <2>2. Framed(h)
    BY <1>3, <2>1, Reshaped DEF Disconnected
  <2> QED
    BY <1>1, <1>3, <2>2, SMT DEF Shape, Disconnected
<1>4. CASE BeginTask(h)
  <2>1. host[h].processor = "begin"
    BY <1>4 DEF BeginTask
  <2>2. ASSUME NEW s \in Slots, NEW t, NEW f, MayBegin(h, s),
               Step(h, [host[h] EXCEPT !.processor = "work", !.task = t, !.frame = 0,
                                       !.works = Taken(h, s, "processing", f)])
        PROVE  Keeps(h)
    <3> DEFINE W == V \cup {t, f}
    <3> DEFINE T == Taken(h, s, "processing", f)
    <3>1. /\ host[h] \in Shape(W) /\ "work" \in W /\ 0 \in W /\ t \in W
          /\ V \subseteq W /\ "processing" \in W /\ f \in W
      BY <1>1, Wider
    <3> HIDE DEF W
    <3>2. T \in [Slots -> [phase : W, bytes : W]]
      BY <3>1, TakenIsShaped
    <3> HIDE DEF T
    <3>3. [host[h] EXCEPT !.processor = "work", !.task = t, !.frame = 0,
                          !.works = T] \in Shape(W)
      BY <3>1, <3>2, Zenon DEF Shape
    <3>4. Framed(h)
      BY <2>2, <3>1, <3>3, Reshaped DEF T
    <3> QED BY <1>1, <2>1, <2>2, <3>4, SMT DEF Shape, MayBegin, Taken
  <2>3. ASSUME NEW p,
               Step(h, [host[h] EXCEPT !.processor = "recv", !.frame = 0, !.pending = p])
        PROVE  Keeps(h)
    <3> DEFINE W == V \cup {p}
    <3>1. host[h] \in Shape(W) /\ "recv" \in W /\ 0 \in W /\ p \in W
      BY <1>1, Wider
    <3> HIDE DEF W
    <3>2. [host[h] EXCEPT !.processor = "recv", !.frame = 0, !.pending = p] \in Shape(W)
      BY <3>1, Zenon DEF Shape
    <3>3. Framed(h)
      BY <2>3, <3>2, Reshaped DEF W
    <3> QED BY <1>1, <2>1, <2>3, <3>3, SMT DEF Shape
  <2>4. CASE Active(h) < MaxWork
    <3>1. PICK s \in Slots :
            /\ MayBegin(h, s)
            /\ Step(h, [host[h] EXCEPT
                 !.processor = "work", !.task = {s}, !.frame = 0,
                 !.works = Taken(h, s, "processing", host[h].frame)])
      BY <1>4, <2>4, Zenon DEF BeginTask
    <3> DEFINE t == {s}
    <3> DEFINE f == host[h].frame
    <3>2. Step(h, [host[h] EXCEPT !.processor = "work", !.task = t, !.frame = 0,
                                  !.works = Taken(h, s, "processing", f)])
      BY <3>1, Zenon
    <3> HIDE DEF t, f
    <3> HIDE DEF Keeps, Step
    <3> QED BY <2>2, <3>1, <3>2, Zenon
  <2>5. CASE ~(Active(h) < MaxWork)
    <3> DEFINE p == host[h].pending - host[h].frame
    <3>1. Step(h, [host[h] EXCEPT !.processor = "recv", !.frame = 0, !.pending = p])
      BY <1>4, <2>5, Zenon DEF BeginTask
    <3> HIDE DEF p
    <3> QED BY <2>3, <3>1
  <2> QED BY <2>4, <2>5
<1>5. CASE EndTask(h)
  <2> DEFINE F == FollowedUp(h, host[h].task)
  <2>1. F \in [Slots -> [phase : V, bytes : V]]
    BY <1>1, FollowedUpIsShaped
  <2> HIDE DEF F
  <2>2. [host[h] EXCEPT !.processor = "recv", !.task = {}, !.works = F] \in Shape(V)
    BY <1>1, <2>1, Zenon DEF Shape
  <2>3. Framed(h)
    BY <1>5, <2>2, Reshaped DEF EndTask, F
  <2> QED
    BY <1>1, <1>5, <2>3, SMT DEF Shape, EndTask, FollowedUp
<1>6. CASE ProcessorEnds(h)
  <2> DEFINE q == <<>>
  <2> DEFINE p == host[h].pending - FoldSeq(+, 0, host[h].queue)
  <2>1. Step(h, [host[h] EXCEPT !.processor = "finished", !.queue = q, !.pending = p])
    BY <1>6, Zenon DEF ProcessorEnds
  <2> HIDE DEF q, p
  <2> DEFINE W == V \cup {q, p}
  <2>2. host[h] \in Shape(W) /\ "finished" \in W /\ q \in W /\ p \in W
    BY <1>1, Wider
  <2> HIDE DEF W
  <2>3. [host[h] EXCEPT !.processor = "finished", !.queue = q, !.pending = p] \in Shape(W)
    BY <2>2, Zenon DEF Shape
  <2>4. Framed(h)
    BY <2>1, <2>3, Reshaped DEF W
  <2> QED BY <1>1, <2>1, <2>4, SMT DEF Shape
<1> QED
  BY <1>2, <1>3, <1>4, <1>5, <1>6 DEF Processor

\* The work tokens.
LEMMA TokensKeep ==
  ASSUME NEW V, Shapes(V), NEW h \in Hosts, Kept(h),
         FollowUpEnds(h) \/ TokenGone(h)
  PROVE  Keeps(h)
<1>1. /\ host[h] \in Shape(V)
      /\ "dropping" \in V /\ 0 \in V /\ "free" \in V
  BY DEF Shapes, Common
<1>2. CASE FollowUpEnds(h)
  <2>1. PICK s \in Slots :
          /\ s \notin host[h].tokens /\ host[h].works[s].phase = "followup"
          /\ Step(h, [host[h] EXCEPT !.works[s].phase = "dropping"])
    BY <1>2 DEF FollowUpEnds
  <2> DEFINE T == [host[h].works EXCEPT ![s].phase = "dropping"]
  <2>2. T \in [Slots -> [phase : V, bytes : V]]
    BY <1>1, SMT DEF Shape
  <2> HIDE DEF T
  <2>3. [host[h] EXCEPT !.works = T] \in Shape(V)
    BY <1>1, <2>2, Zenon DEF Shape
  <2>4. Step(h, [host[h] EXCEPT !.works = T])
    BY <2>1, Zenon DEF T
  <2>5. Framed(h)
    BY <2>3, <2>4, Reshaped
  <2> QED BY <1>1, <2>1, <2>5, SMT DEF Shape
<1>3. CASE TokenGone(h)
  <2>0. PICK s \in Slots :
          /\ host[h].works[s].phase = "dropping"
          /\ Step(h, [host[h] EXCEPT !.works[s] = FreeWork,
                                     !.pending = @ - host[h].works[s].bytes])
    BY <1>3 DEF TokenGone
  <2> DEFINE p == host[h].pending - host[h].works[s].bytes
  <2>1. Step(h, [host[h] EXCEPT !.works[s] = FreeWork, !.pending = p])
    BY <2>0, Zenon
  <2> HIDE DEF p
  <2> DEFINE W == V \cup {p}
  <2>2. /\ host[h] \in Shape(W) /\ p \in W
        /\ FreeWork \in [phase : W, bytes : W]
    BY <1>1, Wider DEF FreeWork
  <2> HIDE DEF W
  <2>3. [host[h] EXCEPT !.works[s] = FreeWork, !.pending = p] \in Shape(W)
    BY <2>2, Zenon DEF Shape
  <2>4. Framed(h)
    BY <2>1, <2>3, Reshaped DEF W
  <2> QED BY <1>1, <2>0, <2>1, <2>4, SMT DEF Shape, FreeWork
<1> QED
  BY <1>2, <1>3

\* The desktop's commands.
LEMMA DesktopKeeps ==
  ASSUME NEW V, Shapes(V), NEW h \in Hosts, Kept(h),
         Ask(h) \/ Submit(h) \/ Upload(h) \/ Desktop(h)
  PROVE  Keeps(h)
<1>1. /\ host[h] \in Shape(V)
      /\ "asking" \in V /\ "submitting" \in V /\ "idle" \in V
      /\ "holding" \in V /\ "followup" \in V /\ 0 \in V /\ "processing" \in V
      /\ {} \in V /\ "uploading" \in V /\ "recording" \in V
  BY DEF Shapes, Common
<1>2. CASE Ask(h)
  <2>1. [host[h] EXCEPT !.ask = "asking"] \in Shape(V)
    BY <1>1, Zenon DEF Shape
  <2>2. Framed(h)
    BY <1>2, <2>1, Reshaped DEF Ask
  <2> QED
    BY <1>1, <1>2, <2>2, SMT DEF Shape, Ask
<1>3. CASE Submit(h)
  <2>1. [host[h] EXCEPT !.ask = "submitting"] \in Shape(V)
    BY <1>1, Zenon DEF Shape
  <2>2. Framed(h)
    BY <1>3, <2>1, Reshaped DEF Submit
  <2> QED
    BY <1>1, <1>3, <2>2, SMT DEF Shape, Submit
<1>4. CASE GrantWork(h)
  <2>1. PICK s \in Slots :
          /\ host[h].running /\ MayBegin(h, s)
          /\ Step(h, [host[h] EXCEPT !.ask = "holding", !.tokens = {s},
                                     !.works = Taken(h, s, "followup", 0)])
    BY <1>4, Zenon DEF GrantWork, Admitted
  <2> DEFINE W == V \cup {{s}}
  <2> DEFINE T == Taken(h, s, "followup", 0)
  <2>2. /\ host[h] \in Shape(W) /\ "holding" \in W /\ {s} \in W
        /\ V \subseteq W /\ "followup" \in W /\ 0 \in W
    BY <1>1, Wider
  <2> HIDE DEF W
  <2>3. T \in [Slots -> [phase : W, bytes : W]]
    BY <2>2, TakenIsShaped
  <2> HIDE DEF T
  <2>4. [host[h] EXCEPT !.ask = "holding", !.tokens = {s}, !.works = T] \in Shape(W)
    BY <2>2, <2>3, Zenon DEF Shape
  <2>5. Framed(h)
    BY <2>1, <2>2, <2>4, Reshaped DEF T
  <2> QED BY <1>1, <2>1, <2>5, SMT DEF Shape, MayBegin, Taken
<1>5. CASE RefuseWork(h)
  <2>1. [host[h] EXCEPT !.ask = "idle"] \in Shape(V)
    BY <1>1, Zenon DEF Shape
  <2>2. Framed(h)
    BY <1>5, <2>1, Reshaped DEF RefuseWork
  <2> QED
    BY <1>1, <1>5, <2>2, SMT DEF Shape, RefuseWork, Unlocked, Admitted
<1>6. CASE GrantGenerated(h)
  <2> DEFINE a == IF host[h].ask = "uploading" THEN "recording" ELSE "processing"
  <2>0. PICK s \in Slots, w \in Weights :
          /\ host[h].running /\ MayBegin(h, s)
          /\ Step(h, [host[h] EXCEPT
               !.ask = IF @ = "uploading" THEN "recording" ELSE "processing",
               !.tokens = @ \cup {s},
               !.works = Taken(h, s, "processing", w), !.pending = @ + w])
    BY <1>6, Zenon DEF GrantGenerated, Admitted
  <2> DEFINE p == host[h].pending + w
  <2> DEFINE S == host[h].tokens \cup {s}
  <2> DEFINE W == V \cup {S, w, p}
  <2> DEFINE T == Taken(h, s, "processing", w)
  <2>2. /\ host[h] \in Shape(W) /\ "processing" \in W /\ S \in W
        /\ V \subseteq W /\ w \in W /\ p \in W /\ a \in W
    BY <1>1, Wider
  <2> HIDE DEF W, p, a
  <2>3. T \in [Slots -> [phase : W, bytes : W]]
    BY <2>2, TakenIsShaped
  <2> HIDE DEF T, S
  <2>4. [host[h] EXCEPT !.ask = a, !.tokens = S, !.works = T,
                        !.pending = p] \in Shape(W)
    BY <2>2, <2>3, Zenon DEF Shape
  <2>5. Step(h, [host[h] EXCEPT !.ask = a, !.tokens = S, !.works = T,
                                !.pending = p])
    BY <2>0, Zenon DEF S, T, p, a
  <2>6. Framed(h)
    BY <2>2, <2>4, <2>5, Reshaped
  <2> QED BY <1>1, <2>0, <2>5, <2>6, SMT DEF Shape, MayBegin, Taken, S, T, a
<1>7. CASE RefuseGenerated(h)
  <2>1. [host[h] EXCEPT !.ask = IF @ = "uploading" THEN "idle" ELSE "holding"]
          \in Shape(V)
    BY <1>1, Zenon DEF Shape
  <2>2. Framed(h)
    BY <1>7, <2>1, Reshaped DEF RefuseGenerated
  <2> QED
    BY <1>1, <1>7, <2>2, SMT DEF Shape, RefuseGenerated, Unlocked, Admitted
<1>8. CASE Release(h)
  <2> DEFINE F == FollowedUp(h, host[h].tokens)
  <2>1. F \in [Slots -> [phase : V, bytes : V]]
    BY <1>1, FollowedUpIsShaped
  <2> HIDE DEF F
  <2>2. [host[h] EXCEPT !.ask = "idle", !.tokens = {}, !.works = F] \in Shape(V)
    BY <1>1, <2>1, Zenon DEF Shape
  <2>3. Step(h, [host[h] EXCEPT !.ask = "idle", !.tokens = {}, !.works = F])
    BY <1>8 DEF Release, F
  <2>4. Framed(h)
    BY <2>2, <2>3, Reshaped
  <2>5. \A s \in Slots :
          \/ F[s] = host[h].works[s]
          \/ host[h].works[s].phase \in {"processing", "followup"}
    BY SMT DEF F, FollowedUp
  <2> QED BY <1>1, <2>3, <2>4, <2>5, SMT DEF Shape
<1>9. CASE Upload(h)
  <2>1. [host[h] EXCEPT !.ask = "uploading"] \in Shape(V)
    BY <1>1, Zenon DEF Shape
  <2>2. Framed(h)
    BY <1>9, <2>1, Reshaped DEF Upload
  <2> QED
    BY <1>1, <1>9, <2>2, SMT DEF Shape, Upload
<1> QED
  BY <1>2, <1>3, <1>4, <1>5, <1>6, <1>7, <1>8, <1>9 DEF Desktop

\* The writer and the shortcut.
LEMMA HelpersKeep ==
  ASSUME NEW V, Shapes(V), NEW h \in Hosts, Kept(h),
         Copy(h) \/ HelperEnds(h) \/ SetShortcut(h) \/ ShortcutEnds(h)
  PROVE  Keeps(h)
<1>1. /\ host[h] \in Shape(V)
      /\ TRUE \in V /\ FALSE \in V /\ "on" \in V /\ "none" \in V
  BY DEF Shapes, Common
<1>2. CASE Copy(h)
  <2>1. [host[h] EXCEPT !.helper = TRUE] \in Shape(V)
    BY <1>1, Zenon DEF Shape
  <2>2. Framed(h)
    BY <1>2, <2>1, Reshaped DEF Copy
  <2> QED
    BY <1>1, <1>2, <2>2, SMT DEF Shape, Copy
<1>3. CASE HelperEnds(h)
  <2>1. [host[h] EXCEPT !.helper = FALSE] \in Shape(V)
    BY <1>1, Zenon DEF Shape
  <2>2. Framed(h)
    BY <1>3, <2>1, Reshaped DEF HelperEnds
  <2> QED
    BY <1>1, <1>3, <2>2, SMT DEF Shape, HelperEnds
<1>4. CASE SetShortcut(h)
  <2>1. [host[h] EXCEPT !.shortcut = "on"] \in Shape(V)
    BY <1>1, Zenon DEF Shape
  <2>2. Framed(h)
    BY <1>4, <2>1, Reshaped DEF SetShortcut
  <2> QED
    BY <1>1, <1>4, <2>2, SMT DEF Shape, SetShortcut, Unlocked, Admitted
<1>5. CASE ShortcutEnds(h)
  <2>1. [host[h] EXCEPT !.shortcut = "none"] \in Shape(V)
    BY <1>1, Zenon DEF Shape
  <2>2. Framed(h)
    BY <1>5, <2>1, Reshaped DEF ShortcutEnds
  <2> QED
    BY <1>1, <1>5, <2>2, SMT DEF Shape, ShortcutEnds
<1> QED
  BY <1>2, <1>3, <1>4, <1>5

\* Host::stop, up to its last step.
LEMMA StopKeeps ==
  ASSUME NEW V, Shapes(V), NEW h \in Hosts, Kept(h),
         BeginStop(h) \/ Stopper(h), ~Released(h)
  PROVE  Keeps(h)
<1>1. /\ host[h] \in Shape(V)
      /\ "lifecycle" \in V /\ TRUE \in V /\ "hotkey" \in V /\ "native" \in V
      /\ "stop" \in V /\ "live" \in V /\ "cancelled" \in V
      /\ "processor" \in V /\ FALSE \in V /\ "idle" \in V /\ "free" \in V
      /\ "drain" \in V /\ "joined" \in V /\ "helpers" \in V /\ "none" \in V
      /\ "release" \in V
  BY DEF Shapes, Common
<1>2. CASE BeginStop(h)
  <2>1. [host[h] EXCEPT !.stop = "lifecycle", !.stopping = TRUE] \in Shape(V)
    BY <1>1, Zenon DEF Shape
  <2>2. Framed(h)
    BY <1>2, <2>1, Reshaped DEF BeginStop
  <2> QED
    BY <1>1, <1>2, <2>2, SMT DEF Shape, BeginStop
<1>3. CASE NothingToStop(h)
  <2>1. [host[h] EXCEPT !.stop = "hotkey"] \in Shape(V)
    BY <1>1, Zenon DEF Shape
  <2>2. Framed(h)
    BY <1>3, <2>1, Reshaped DEF NothingToStop, Advance
  <2> QED
    BY <1>1, <1>3, <2>2, SMT DEF Shape, NothingToStop, Advance, Unlocked
<1>4. CASE SignalStop(h)
  <2>1. [host[h] EXCEPT !.stop = "native", !.lock = "stop", !.halt = TRUE,
                        !.native = IF @ = "live" THEN "cancelled" ELSE @] \in Shape(V)
    BY <1>1, Zenon DEF Shape
  <2>2. Framed(h)
    BY <1>4, <2>1, Reshaped DEF SignalStop
  <2> QED
    BY <1>1, <1>4, <2>2, SMT DEF Shape, SignalStop, Unlocked
<1>5. CASE NativeStopped(h)
  <2>1. [host[h] EXCEPT !.stop = "processor", !.sender = FALSE] \in Shape(V)
    BY <1>1, Zenon DEF Shape
  <2>2. Framed(h)
    BY <1>5, <2>1, Reshaped DEF NativeStopped
  <2> QED
    BY <1>1, <1>5, <2>2, SMT DEF Shape, NativeStopped, Alive
<1>6. CASE NativeStopFails(h)
  <2>1. [host[h] EXCEPT !.stop = "idle",
                        !.lock = IF @ = "stop" THEN "free" ELSE @] \in Shape(V)
    BY <1>1, Zenon DEF Shape
  <2>2. Framed(h)
    BY <1>6, <2>1, Reshaped DEF NativeStopFails, Fail
  <2> QED
    BY <1>1, <1>6, <2>2, SMT DEF Shape, NativeStopFails, Fail
<1>7. CASE ProcessorJoined(h)
  <2>1. [host[h] EXCEPT !.stop = "drain", !.processor = "joined"] \in Shape(V)
    BY <1>1, Zenon DEF Shape
  <2>2. Framed(h)
    BY <1>7, <2>1, Reshaped DEF ProcessorJoined
  <2> QED
    BY <1>1, <1>7, <2>2, SMT DEF Shape, ProcessorJoined
<1>8. CASE ProcessorStopFails(h)
  <2>1. [host[h] EXCEPT !.stop = "idle",
                        !.lock = IF @ = "stop" THEN "free" ELSE @] \in Shape(V)
    BY <1>1, Zenon DEF Shape
  <2>2. Framed(h)
    BY <1>8, <2>1, Reshaped DEF ProcessorStopFails, Fail
  <2> QED
    BY <1>1, <1>8, <2>2, SMT DEF Shape, ProcessorStopFails, Fail
<1>9. CASE CaptureStopped(h)
  <2>1. [host[h] EXCEPT !.stop = "hotkey", !.lock = "free"] \in Shape(V)
    BY <1>1, Zenon DEF Shape
  <2>2. Framed(h)
    BY <1>9, <2>1, Reshaped DEF CaptureStopped
  <2> QED
    BY <1>1, <1>9, <2>2, SMT DEF Shape, CaptureStopped
<1>10. CASE DrainFails(h)
  <2>1. [host[h] EXCEPT !.stop = "idle",
                        !.lock = IF @ = "stop" THEN "free" ELSE @] \in Shape(V)
    BY <1>1, Zenon DEF Shape
  <2>2. Framed(h)
    BY <1>10, <2>1, Reshaped DEF DrainFails, Fail
  <2> QED
    BY <1>1, <1>10, <2>2, SMT DEF Shape, DrainFails, Fail
<1>11. CASE HotkeyStopped(h)
  <2>1. [host[h] EXCEPT !.stop = "helpers", !.shortcut = "none"] \in Shape(V)
    BY <1>1, Zenon DEF Shape
  <2>2. Framed(h)
    BY <1>11, <2>1, Reshaped DEF HotkeyStopped
  <2> QED
    BY <1>1, <1>11, <2>2, SMT DEF Shape, HotkeyStopped
<1>12. CASE HotkeyStopFails(h)
  <2>1. [host[h] EXCEPT !.stop = "idle",
                        !.shortcut = "cancelled"] \in Shape(V)
    BY <1>1, Zenon DEF Shape
  <2>2. Framed(h)
    BY <1>12, <2>1, Reshaped DEF HotkeyStopFails
  <2> QED
    BY <1>1, <1>12, <2>2, SMT DEF Shape, HotkeyStopFails
<1>13. CASE HelpersStopped(h)
  <2>1. [host[h] EXCEPT !.stop = "release", !.helper = FALSE] \in Shape(V)
    BY <1>1, Zenon DEF Shape
  <2>2. Framed(h)
    BY <1>13, <2>1, Reshaped DEF HelpersStopped
  <2> QED
    BY <1>1, <1>13, <2>2, SMT DEF Shape, HelpersStopped
<1>14. CASE HelpersStopFail(h)
  <2>1. [host[h] EXCEPT !.stop = "idle",
                        !.lock = IF @ = "stop" THEN "free" ELSE @] \in Shape(V)
    BY <1>1, Zenon DEF Shape
  <2>2. Framed(h)
    BY <1>14, <2>1, Reshaped DEF HelpersStopFail, Fail
  <2> QED
    BY <1>1, <1>14, <2>2, SMT DEF Shape, HelpersStopFail, Fail
<1> QED
  BY <1>2, <1>3, <1>4, <1>5, <1>6, <1>7, <1>8, <1>9, <1>10, <1>11, <1>12,
     <1>13, <1>14 DEF Stopper

\* The last step of Host::stop.
LEMMA ReleaseKeeps ==
  ASSUME NEW V, Shapes(V), NEW h \in Hosts, Kept(h),
         Released(h)
  PROVE  Keeps(h)
<1>1. /\ host[h] \in Shape(V)
      /\ "idle" \in V /\ TRUE \in V /\ FALSE \in V /\ "free" \in V
  BY DEF Shapes, Common
<1>2. CASE Released(h)
  <2>1. host[h].stop = "release"
    BY <1>2 DEF Released
  <2>2. CASE Fail(h)
    <3>1. [host[h] EXCEPT !.stop = "idle",
                          !.lock = IF @ = "stop" THEN "free" ELSE @] \in Shape(V)
      BY <1>1, Zenon DEF Shape
    <3>2. Framed(h)
      BY <2>2, <3>1, Reshaped DEF Fail
    <3> QED BY <1>1, <2>2, <3>2, SMT DEF Shape, Fail
  <2>3. ASSUME NEW c \in {host[h].running},
               Step(h, [host[h] EXCEPT !.stop = "idle", !.stopped = TRUE,
                                       !.confirmed = c, !.running = FALSE])
        PROVE  Keeps(h)
    <3>1. c \in V
      BY <1>1, Zenon DEF Shape
    <3>2. [host[h] EXCEPT !.stop = "idle", !.stopped = TRUE, !.confirmed = c,
                          !.running = FALSE] \in Shape(V)
      BY <1>1, <3>1, Zenon DEF Shape
    <3>3. Framed(h)
      BY <2>3, <3>2, Reshaped
    <3> QED BY <1>1, <2>1, <2>3, <3>3, SMT DEF Shape
  <2>4. \/ Fail(h)
        \/ Step(h, [host[h] EXCEPT !.stop = "idle", !.stopped = TRUE,
                       !.confirmed = host[h].running, !.running = FALSE])
    BY <1>2, Zenon DEF Released
  <2> QED BY <2>2, <2>3, <2>4
<1> QED BY <1>2

\* The end of a Host.
LEMMA EndKeeps ==
  ASSUME NEW V, Shapes(V), NEW h \in Hosts, Kept(h),
         Abandon(h) \/ DropHost(h) \/ RetentionDropped(h) \/ OwnerDrained(h)
  PROVE  Keeps(h)
<1>1. /\ host[h] \in Shape(V)
      /\ FALSE \in V /\ TRUE \in V /\ "live" \in V /\ "cancelled" \in V
      /\ "on" \in V /\ "gone" \in V /\ "draining" \in V
  BY DEF Shapes, Common
<1>2. CASE Abandon(h)
  <2>1. [host[h] EXCEPT !.owned = FALSE] \in Shape(V)
    BY <1>1, Zenon DEF Shape
  <2>2. Framed(h)
    BY <1>2, <2>1, Reshaped DEF Abandon
  <2> QED
    BY <1>1, <1>2, <2>2, SMT DEF Shape, Abandon
<1>3. CASE DropHost(h)
  <2>1. [host[h] EXCEPT !.dropped = TRUE, !.running = FALSE, !.sender = FALSE,
                        !.native = IF @ = "live" THEN "cancelled" ELSE @,
                        !.shortcut = IF @ = "on" THEN "cancelled" ELSE @] \in Shape(V)
    BY ZenonT(30), <1>1 DEF Shape
  <2>2. Framed(h)
    BY <1>3, <2>1, Reshaped DEF DropHost
  <2> QED
    BY <1>1, <1>3, <2>2, SMT DEF Shape, DropHost, Alive
<1>4. CASE RetentionDropped(h)
  <2>1. host[h].retention = "held"
    BY <1>4 DEF RetentionDropped
  <2>2. CASE host[h].confirmed /\ Step(h, [host[h] EXCEPT !.retention = "gone"])
    <3>1. [host[h] EXCEPT !.retention = "gone"] \in Shape(V)
      BY <1>1, Zenon DEF Shape
    <3>2. Framed(h)
      BY <2>2, <3>1, Reshaped
    <3> QED BY <1>1, <1>4, <2>2, <3>2, SMT DEF Shape, RetentionDropped
  <2>3. CASE Step(h, [host[h] EXCEPT !.retention = "gone", !.helper = FALSE])
    <3>1. [host[h] EXCEPT !.retention = "gone", !.helper = FALSE] \in Shape(V)
      BY <1>1, Zenon DEF Shape
    <3>2. Framed(h)
      BY <2>3, <3>1, Reshaped
    <3> QED BY <1>1, <1>4, <2>3, <3>2, SMT DEF Shape, RetentionDropped
  <2>4. CASE Step(h, [host[h] EXCEPT !.retention = "draining"])
    <3>1. [host[h] EXCEPT !.retention = "draining"] \in Shape(V)
      BY <1>1, Zenon DEF Shape
    <3>2. Framed(h)
      BY <2>4, <3>1, Reshaped
    <3> QED BY <1>1, <1>4, <2>4, <3>2, SMT DEF Shape, RetentionDropped
  <2> QED BY <1>4, <2>2, <2>3, <2>4, Zenon DEF RetentionDropped
<1>5. CASE OwnerDrained(h)
  <2>1. [host[h] EXCEPT !.retention = "gone", !.helper = FALSE] \in Shape(V)
    BY <1>1, Zenon DEF Shape
  <2>2. Framed(h)
    BY <1>5, <2>1, Reshaped DEF OwnerDrained
  <2> QED
    BY <1>1, <1>5, <2>2, SMT DEF Shape, OwnerDrained
<1> QED
  BY <1>2, <1>3, <1>4, <1>5

\* The one step that takes the lease, when nobody has it.
LEMMA StartTakesLease ==
  ASSUME IInv, NEW h \in Hosts, StartCapture(h)
  PROVE  IInv' /\ Framed(h)
<1>1. PICK V : Shapes(V)
  BY DEF IInv, Shaped
<1>2. /\ host[h] \in Shape(V) /\ Kept(h)
      /\ "subscribe" \in V /\ "start" \in V /\ "held" \in V /\ TRUE \in V /\ "recv" \in V
  BY <1>1 DEF IInv, Shapes, Common
<1>3. [host[h] EXCEPT !.start = "subscribe", !.lock = "start", !.retention = "held",
                      !.sender = TRUE, !.processor = "recv"] \in Shape(V)
  BY <1>2, Zenon DEF Shape
<1>4. Framed(h)
  BY <1>1, <1>3, Reshaped DEF StartCapture
<1>5. Kept(h)'
  BY <1>1, <1>2, SMT DEF Shapes, Shape, StartCapture
<1>6. \A g \in Hosts : g # h => host'[g] = host[g]
  BY <1>4 DEF Framed
<1>7. ASSUME NEW g \in Hosts, g # h PROVE Kept(g)' /\ ~LeaseHeld(g)'
  BY <1>6, <1>7 DEF IInv, StartCapture
<1> QED BY <1>4, <1>5, <1>7 DEF IInv, OneLease, Framed

\* Every step of a Host keeps the inductive invariant.
LEMMA HostStepKeeps ==
  ASSUME IInv, NEW h \in Hosts, HostStep(h)
  PROVE  IInv' /\ Framed(h)
<1>1. PICK V : Shapes(V)
  BY DEF IInv, Shaped
<1>2. CASE StartCapture(h)
  BY <1>2, StartTakesLease
<1>3. CASE ~StartCapture(h)
  <2> HIDE DEF Keeps, Kept, LeaseHeld
  <2>1. Kept(h)
    BY DEF IInv
  <2>2. Keeps(h)
    BY <1>1, <1>3, <2>1, StarterKeeps, ListenerKeeps, ProcessorKeeps, TokensKeep,
       DesktopKeeps, HelpersKeep, StopKeeps, ReleaseKeeps, EndKeeps, Zenon
    DEF HostStep
  <2>3. \A g \in Hosts : g # h => host'[g] = host[g]
    BY <2>2 DEF Keeps, Framed
  <2>4. ASSUME NEW g \in Hosts, g # h
        PROVE  Kept(g)' /\ (LeaseHeld(g)' => LeaseHeld(g))
    BY <2>3, <2>4 DEF IInv, Kept, LeaseHeld
  <2> QED BY <2>2, <2>4 DEF IInv, Keeps, Framed, OneLease
<1> QED BY <1>2, <1>3

\* The clones of the lease are all of one Host, in every reachable state.
THEOREM Invariant == Spec => []IInv
<1>1. Init => IInv
  <2> SUFFICES ASSUME Init PROVE IInv
    OBVIOUS
  <2> DEFINE V == Common \cup {<<>>}
  <2>1. \A h \in Hosts : host[h] = NewHost
    BY DEF Init
  <2>2. NewHost \in Shape(V)
    BY DEF NewHost, Shape, FreeWork, Common
  <2>3. Shaped
    BY <2>2 DEF Init, Shaped, Shapes
  <2>4. \A h \in Hosts : Kept(h) /\ ~LeaseHeld(h)
    BY <2>1 DEF NewHost, FreeWork
  <2> QED BY <2>3, <2>4 DEF IInv, OneLease
<1>2. IInv /\ [Next]_vars => IInv'
  <2>1. IInv /\ UNCHANGED vars => IInv'
    BY DEF IInv, vars, Shaped, Shapes, OneLease
  <2> QED BY <2>1, HostStepKeeps DEF Next
<1> QED BY <1>1, <1>2, PTL DEF Spec

\* Two Hosts never capture at once, whatever is stopped, retried or dropped, and
\* however many there are.
THEOREM NeverTwoCapturers == Spec => []OneCapturer
<1>1. IInv => OneCapturer
  <2> SUFFICES ASSUME IInv, NEW h \in Hosts, Capturing(h) PROVE LeaseHeld(h)
    BY DEF IInv, OneLease, OneCapturer
  <2>1. Active(h) > 0 => Tokens(h, {"processing", "followup"}) # {}
    <3> HIDE DEF Tokens
    <3>1. Cardinality({}) = 0
      BY FS_EmptySet
    <3> QED BY <3>1 DEF Active
  <2> QED BY <2>1 DEF IInv, Capturing, Recording
<1> QED BY <1>1, Invariant, PTL

-----------------------------------------------------------------------------
(* A Host that was stopped is quiet.                                       *)

\* Host::stop past stop_capture
Quiescent == {"hotkey", "helpers", "release"}

\* Nothing counts, nothing runs, ...
NoToken(h) == \A s \in Slots : host[h].works[s].phase \notin {"processing", "followup"}
Silent(h) == ~NativeAlive(h) /\ ~ProcessorAlive(h) /\ NoToken(h)

\* ... and nothing has ever run.
Bare(h) ==
  /\ host[h].native = "none" /\ host[h].call = "idle" /\ host[h].queue = <<>>
  /\ host[h].processor \notin {"begin", "work"} /\ NoToken(h)

\* What each place of the start and of the stop has left of a Host.  The lifecycle is the
\* starter's until the manager is attached, so that a stop which finds no manager finds a
\* bare Host; and it is the stop's until the tokens are gone, when the manager, told to
\* halt, admits nothing more.
Quiet(h) ==
  /\ host[h].start # "idle" => host[h].lock = "start" /\ host[h].stop \in {"idle", "lifecycle"}
  /\ host[h].start \in {"subscribe", "join"} => Bare(h)
  /\ host[h].start = "idle" /\ ~host[h].attached => Bare(h) /\ host[h].processor = "none"
  /\ host[h].attached /\ ~host[h].running => host[h].stopped \/ host[h].dropped
  /\ host[h].stop # "idle" => ~host[h].stopped /\ ~host[h].dropped
  /\ host[h].stop \in {"native", "processor", "drain"} => host[h].lock = "stop" /\ host[h].halt
  /\ host[h].stop \in {"processor", "drain"} => ~NativeAlive(h)
  /\ host[h].stop = "drain" => host[h].processor = "joined"
  /\ host[h].stop \in Quiescent \/ host[h].stopped =>
       Silent(h) /\ host[h].start = "idle" /\ (host[h].running => host[h].halt)
  /\ host[h].stop \in {"helpers", "release"} \/ host[h].stopped => host[h].shortcut = "none"
  /\ host[h].stopped => host[h].stopping /\ ~host[h].running /\ ~host[h].helper

HIDE DEF Keeps, LeaseHeld, RetentionShared, Tokens
USE DEF Quiet, Bare, Silent, NoToken, Quiescent

\* No token counts when the count is zero.
LEMMA DrainedIsSilent ==
  ASSUME NEW h \in Hosts, Drained(h)
  PROVE  NoToken(h)
<1> DEFINE T == Tokens(h, {"processing", "followup"})
<1>1. T \subseteq Slots /\ IsFiniteSet(T)
  BY OwnerAssumption, FS_Subset DEF Tokens
<1>2. Cardinality(T) = 0
  BY DEF Drained, Active
<1>3. T = {}
  <2> HIDE DEF T
  <2> QED
    BY <1>1, <1>2, FS_EmptySet
<1> QED
  BY <1>3 DEF Tokens

\* The starter works on a bare Host until the manager is attached.
LEMMA StarterQuiet ==
  ASSUME NEW V, Shapes(V), NEW h \in Hosts, Kept(h), Quiet(h),
         Starter(h)
  PROVE  Quiet(h)'
<1>1. host[h] \in Shape(V) /\ host \in [Hosts -> Shape(V)]
  BY DEF Shapes
<1>2. CASE StartCapture(h)
  BY <1>1, <1>2, SMT DEF Shape, StartCapture
<1>3. CASE Subscribe(h)
  BY <1>1, <1>3, SMT DEF Shape, Subscribe
<1>4. CASE SubscribeFails(h)
  BY <1>1, <1>4, SMT DEF Shape, SubscribeFails
<1>5. CASE JoinFailedStart(h)
  BY <1>1, <1>5, SMT DEF Shape, JoinFailedStart
<1>6. CASE Attach(h)
  BY <1>1, <1>6, SMT DEF Shape, Attach
<1> QED
  BY <1>2, <1>3, <1>4, <1>5, <1>6 DEF Starter

\* The listener and its callback are gone from a Host that is silent.
LEMMA ListenerQuiet ==
  ASSUME NEW V, Shapes(V), NEW h \in Hosts, Kept(h), Quiet(h),
         Notified(h) \/ Callback(h) \/ NativeEnds(h)
  PROVE  Quiet(h)'
<1>1. host[h] \in Shape(V) /\ host \in [Hosts -> Shape(V)]
  BY DEF Shapes
<1>2. CASE Notified(h)
  BY <1>1, <1>2, SMT DEF Shape, Notified, Alive
<1>3. CASE ReadNothing(h)
  BY <1>1, <1>3, SMT DEF Shape, ReadNothing
<1>4. CASE Reserve(h)
  BY <1>1, <1>4, SMT DEF Shape, Reserve
<1>5. CASE Send(h)
  <2>1. ASSUME NEW q, Step(h, [host[h] EXCEPT !.call = "idle", !.carry = 0, !.queue = q])
        PROVE  Quiet(h)'
    BY <1>1, <1>5, <2>1, SMT DEF Shape, Send
  <2>2. ASSUME NEW p, Step(h, [host[h] EXCEPT !.call = "idle", !.carry = 0, !.pending = p])
        PROVE  Quiet(h)'
    BY <1>1, <2>2, SMT DEF Shape
  <2> HIDE DEF Quiet
  <2> QED
    BY <1>5, <2>1, <2>2, Zenon DEF Send
<1>6. CASE NativeEnds(h)
  BY <1>1, <1>6, SMT DEF Shape, NativeEnds
<1> QED
  BY <1>2, <1>3, <1>4, <1>5, <1>6 DEF Callback

\* So is the processor; ...
LEMMA ProcessorQuiet ==
  ASSUME NEW V, Shapes(V), NEW h \in Hosts, Kept(h), Quiet(h),
         Processor(h)
  PROVE  Quiet(h)'
<1>1. host[h] \in Shape(V) /\ host \in [Hosts -> Shape(V)]
  BY DEF Shapes
<1>2. CASE Receive(h)
  <2>1. host[h].processor = "recv" /\ host[h].queue # <<>>
    BY <1>2 DEF Receive
  <2>2. ASSUME NEW w, NEW q,
               Step(h, [host[h] EXCEPT !.processor = "begin", !.frame = w, !.queue = q])
        PROVE  Quiet(h)'
    BY <1>1, <2>1, <2>2, SMT DEF Shape
  <2>3. ASSUME NEW q, NEW p,
               Step(h, [host[h] EXCEPT !.processor = "exit", !.queue = q, !.pending = p])
        PROVE  Quiet(h)'
    BY <1>1, <2>1, <2>3, SMT DEF Shape
  <2> HIDE DEF Quiet, Step
  <2> DEFINE w == Head(host[h].queue)
  <2> DEFINE q == Tail(host[h].queue)
  <2> DEFINE p == host[h].pending - w
  <2>4. \/ Step(h, [host[h] EXCEPT !.processor = "begin", !.frame = w, !.queue = q])
        \/ Step(h, [host[h] EXCEPT !.processor = "exit", !.queue = q, !.pending = p])
    BY <1>2, Zenon DEF Receive
  <2> HIDE DEF w, q, p
  <2> QED
    BY <2>2, <2>3, <2>4
<1>3. CASE Disconnected(h)
  BY <1>1, <1>3, SMT DEF Shape, Disconnected
<1>4. CASE BeginTask(h)
  <2>1. host[h].processor = "begin"
    BY <1>4 DEF BeginTask
  <2>2. ASSUME NEW t, NEW T,
               Step(h, [host[h] EXCEPT !.processor = "work", !.task = t, !.frame = 0,
                                       !.works = T])
        PROVE  Quiet(h)'
    BY <1>1, <2>1, <2>2, SMT DEF Shape
  <2>3. ASSUME NEW p,
               Step(h, [host[h] EXCEPT !.processor = "recv", !.frame = 0, !.pending = p])
        PROVE  Quiet(h)'
    BY <1>1, <2>1, <2>3, SMT DEF Shape
  <2> HIDE DEF Quiet, Step
  <2>4. \/ \E t, T : Step(h, [host[h] EXCEPT !.processor = "work", !.task = t, !.frame = 0,
                                              !.works = T])
        \/ \E p : Step(h, [host[h] EXCEPT !.processor = "recv", !.frame = 0, !.pending = p])
    BY <1>4, Zenon DEF BeginTask
  <2> QED
    BY <2>2, <2>3, <2>4
<1>5. CASE EndTask(h)
  BY <1>1, <1>5, SMT DEF Shape, EndTask, FollowedUp
<1>6. CASE ProcessorEnds(h)
  <2>1. host[h].processor = "exit"
    BY <1>6 DEF ProcessorEnds
  <2>2. ASSUME NEW p,
               Step(h, [host[h] EXCEPT !.processor = "finished", !.queue = <<>>, !.pending = p])
        PROVE  Quiet(h)'
    BY <1>1, <2>1, <2>2, SMT DEF Shape
  <2> HIDE DEF Quiet
  <2> QED
    BY <1>6, <2>2, Zenon DEF ProcessorEnds
<1> QED
  BY <1>2, <1>3, <1>4, <1>5, <1>6 DEF Processor

\* ... a token that is let go of is no other one's.
LEMMA TokensQuiet ==
  ASSUME NEW V, Shapes(V), NEW h \in Hosts, Kept(h), Quiet(h),
         FollowUpEnds(h) \/ TokenGone(h)
  PROVE  Quiet(h)'
<1>1. host[h] \in Shape(V) /\ host \in [Hosts -> Shape(V)]
  BY DEF Shapes
<1>2. CASE FollowUpEnds(h)
  BY <1>1, <1>2, SMT DEF Shape, FollowUpEnds, Tokens
<1>3. CASE TokenGone(h)
  <2>1. PICK s \in Slots :
          Step(h, [host[h] EXCEPT !.works[s] = FreeWork,
                                  !.pending = @ - host[h].works[s].bytes])
    BY <1>3 DEF TokenGone, Tokens
  <2> DEFINE T == [host[h].works EXCEPT ![s] = FreeWork]
  <2>2. \A r \in Slots : T[r].phase \in {host[h].works[r].phase, "free"}
    BY <1>1, SMT DEF FreeWork, Shape
  <2>3. ASSUME NEW p, Step(h, [host[h] EXCEPT !.works = T, !.pending = p])
        PROVE  Quiet(h)'
    <3> HIDE DEF T
    <3> QED
      BY <1>1, <2>2, <2>3, SMT DEF Shape
  <2> HIDE DEF Quiet
  <2> QED
    BY <2>1, <2>3, Zenon
<1> QED
  BY <1>2, <1>3

\* A command is granted a token only by a manager that has not been told to stop.
LEMMA DesktopQuiet ==
  ASSUME NEW V, Shapes(V), NEW h \in Hosts, Kept(h), Quiet(h),
         Ask(h) \/ Submit(h) \/ Upload(h) \/ Desktop(h)
  PROVE  Quiet(h)'
<1>1. host[h] \in Shape(V) /\ host \in [Hosts -> Shape(V)]
  BY DEF Shapes
<1>2. CASE Ask(h)
  BY <1>1, <1>2, SMT DEF Shape, Ask
<1>3. CASE Submit(h)
  BY <1>1, <1>3, SMT DEF Shape, Submit
<1>4. CASE Upload(h)
  BY <1>1, <1>4, SMT DEF Shape, Upload
<1>5. CASE GrantWork(h)
  BY <1>1, <1>5, SMT DEF Shape, GrantWork, Unlocked, Admitted, MayBegin, Taken
<1>6. CASE RefuseWork(h)
  BY <1>1, <1>6, SMT DEF Shape, RefuseWork, Unlocked, Admitted
<1>7. CASE GrantGenerated(h)
  BY <1>1, <1>7, SMT DEF Shape, GrantGenerated, Unlocked, Admitted, MayBegin, Taken
<1>8. CASE RefuseGenerated(h)
  BY <1>1, <1>8, SMT DEF Shape, RefuseGenerated, Unlocked, Admitted
<1>9. CASE Release(h)
  BY <1>1, <1>9, SMT DEF Shape, Release, FollowedUp
<1> QED
  BY <1>2, <1>3, <1>4, <1>5, <1>6, <1>7, <1>8, <1>9 DEF Desktop

\* The writer and the shortcut are not started once a stop was asked for.
LEMMA HelpersQuiet ==
  ASSUME NEW V, Shapes(V), NEW h \in Hosts, Kept(h), Quiet(h),
         Copy(h) \/ HelperEnds(h) \/ SetShortcut(h) \/ ShortcutEnds(h)
  PROVE  Quiet(h)'
<1>1. host[h] \in Shape(V) /\ host \in [Hosts -> Shape(V)]
  BY DEF Shapes
<1>2. CASE Copy(h)
  BY <1>1, <1>2, SMT DEF Shape, Copy
<1>3. CASE HelperEnds(h)
  BY <1>1, <1>3, SMT DEF Shape, HelperEnds
<1>4. CASE SetShortcut(h)
  BY <1>1, <1>4, SMT DEF Shape, SetShortcut, Unlocked, Admitted
<1>5. CASE ShortcutEnds(h)
  BY <1>1, <1>5, SMT DEF Shape, ShortcutEnds
<1> QED
  BY <1>2, <1>3, <1>4, <1>5

\* Host::stop: each step finds what the one before has left.
LEMMA StopQuiet ==
  ASSUME NEW V, Shapes(V), NEW h \in Hosts, Kept(h), Quiet(h),
         BeginStop(h) \/ Stopper(h)
  PROVE  Quiet(h)'
<1>1. host[h] \in Shape(V) /\ host \in [Hosts -> Shape(V)]
  BY DEF Shapes
<1>2. CASE BeginStop(h)
  BY <1>1, <1>2, SMT DEF Shape, BeginStop
<1>3. CASE NothingToStop(h)
  BY <1>1, <1>3, SMT DEF Shape, NothingToStop, Advance, Unlocked
<1>4. CASE SignalStop(h)
  BY <1>1, <1>4, SMT DEF Shape, SignalStop, Unlocked
<1>5. CASE NativeStopped(h)
  BY <1>1, <1>5, SMT DEF Shape, NativeStopped
<1>6. CASE NativeStopFails(h)
  BY <1>1, <1>6, SMT DEF Shape, NativeStopFails, Fail
<1>7. CASE ProcessorJoined(h)
  BY <1>1, <1>7, SMT DEF Shape, ProcessorJoined
<1>8. CASE ProcessorStopFails(h)
  BY <1>1, <1>8, SMT DEF Shape, ProcessorStopFails, Fail
<1>9. CASE CaptureStopped(h)
  <2>1. NoToken(h)
    BY <1>9, DrainedIsSilent DEF CaptureStopped
  <2> QED
    BY <1>1, <1>9, <2>1, SMT DEF Shape, CaptureStopped
<1>10. CASE DrainFails(h)
  BY <1>1, <1>10, SMT DEF Shape, DrainFails, Fail
<1>11. CASE HotkeyStopped(h)
  BY <1>1, <1>11, SMT DEF Shape, HotkeyStopped
<1>12. CASE HotkeyStopFails(h)
  BY <1>1, <1>12, SMT DEF Shape, HotkeyStopFails
<1>13. CASE HelpersStopped(h)
  BY <1>1, <1>13, SMT DEF Shape, HelpersStopped
<1>14. CASE HelpersStopFail(h)
  BY <1>1, <1>14, SMT DEF Shape, HelpersStopFail, Fail
<1>15. CASE Released(h)
  <2>1. host[h].stop = "release" /\ host[h].lock = "free"
    BY <1>15 DEF Released, Unlocked
  <2>2. CASE Fail(h)
    BY <1>1, <2>1, <2>2, SMT DEF Shape, Fail
  <2>3. ASSUME NEW c, Step(h, [host[h] EXCEPT !.stop = "idle", !.stopped = TRUE,
                                              !.confirmed = c, !.running = FALSE])
        PROVE  Quiet(h)'
    BY <1>1, <2>1, <2>3, SMT DEF Shape
  <2> HIDE DEF Quiet
  <2> QED
    BY <1>15, <2>2, <2>3, Zenon DEF Released
<1> QED
  BY <1>2, <1>3, <1>4, <1>5, <1>6, <1>7, <1>8, <1>9, <1>10, <1>11, <1>12, <1>13, <1>14, <1>15 DEF Stopper

\* The end of a Host, which no stop is at work on.
LEMMA EndQuiet ==
  ASSUME NEW V, Shapes(V), NEW h \in Hosts, Kept(h), Quiet(h),
         Abandon(h) \/ DropHost(h) \/ RetentionDropped(h) \/ OwnerDrained(h)
  PROVE  Quiet(h)'
<1>1. host[h] \in Shape(V) /\ host \in [Hosts -> Shape(V)]
  BY DEF Shapes
<1>2. CASE Abandon(h)
  BY <1>1, <1>2, SMT DEF Shape, Abandon
<1>3. CASE DropHost(h)
  BY <1>1, <1>3, SMT DEF Shape, DropHost, Alive
<1>4. CASE RetentionDropped(h)
  <2>1. CASE Step(h, [host[h] EXCEPT !.retention = "gone"])
    BY <1>1, <2>1, SMT DEF Shape
  <2>2. CASE Step(h, [host[h] EXCEPT !.retention = "gone", !.helper = FALSE])
    BY <1>1, <2>2, SMT DEF Shape
  <2>3. CASE Step(h, [host[h] EXCEPT !.retention = "draining"])
    BY <1>1, <2>3, SMT DEF Shape
  <2> HIDE DEF Quiet
  <2> QED
    BY <1>4, <2>1, <2>2, <2>3, Zenon DEF RetentionDropped
<1>5. CASE OwnerDrained(h)
  BY <1>1, <1>5, SMT DEF Shape, OwnerDrained
<1> QED
  BY <1>2, <1>3, <1>4, <1>5


\* Every step keeps every Host as quiet as it should be.
LEMMA StepQuiet ==
  ASSUME IInv, \A h \in Hosts : Quiet(h), NEW h \in Hosts, HostStep(h), NEW g \in Hosts
  PROVE  Quiet(g)'
<1> HIDE DEF Quiet, Kept
<1>1. PICK V : Shapes(V)
  BY DEF IInv, Shaped
<1>2. Kept(h) /\ Quiet(h)
  BY DEF IInv
<1>3. CASE g = h
  BY <1>1, <1>2, <1>3, StarterQuiet, ListenerQuiet, ProcessorQuiet, TokensQuiet,
     DesktopQuiet, HelpersQuiet, StopQuiet, EndQuiet, Zenon DEF HostStep
<1>4. CASE g # h
  <2>1. host'[g] = host[g]
    BY <1>4, HostStepKeeps DEF Framed
  <2> QED
    BY <2>1 DEF Quiet
<1> QED
  BY <1>3, <1>4

\* Every Host is as quiet as it should be, in every reachable state.
THEOREM AlwaysQuiet == Spec => [](\A h \in Hosts : Quiet(h))
<1> DEFINE AllQuiet == \A h \in Hosts : Quiet(h)
<1>1. Init => AllQuiet
  BY SMT DEF Init, NewHost, FreeWork
<1>2. IInv /\ AllQuiet /\ [Next]_vars => AllQuiet'
  <2> SUFFICES ASSUME IInv, AllQuiet, [Next]_vars PROVE AllQuiet'
    OBVIOUS
  <2>1. CASE UNCHANGED vars
    BY <2>1 DEF vars
  <2>2. CASE Next
    <3> HIDE DEF Quiet
    <3> QED
      BY <2>2, StepQuiet DEF Next
  <2> QED
    BY <2>1, <2>2
<1> QED
  BY <1>1, <1>2, Invariant, PTL DEF Spec

\* Nothing records once stop_capture has succeeded, and nothing at all is left alive of a
\* Host that says it has stopped (Host::stop).
THEOREM StoppedHostsAreQuiet == Spec => []StoppedIsQuiet
<1>1. (\A h \in Hosts : Quiet(h)) => StoppedIsQuiet
  <2> SUFFICES ASSUME NEW h \in Hosts, Quiet(h)
               PROVE  /\ host[h].stop \in Quiescent => ~Recording(h)
                      /\ host[h].stopped => ~Capturing(h)
    BY DEF StoppedIsQuiet
  <2>1. NoToken(h) => Active(h) = 0
    BY FS_EmptySet DEF Active, Tokens
  <2> QED
    BY <2>1 DEF Recording, Capturing
<1> QED
  BY <1>1, AlwaysQuiet, PTL

-----------------------------------------------------------------------------
(* Sums over finite sets.  The folds of the model take their elements in the *)
(* order CHOOSE picks; these lemmas are what is needed to take them in any.  *)

\* Induction, as a fact about sets of numbers.
LEMMA NatSet ==
  ASSUME NEW S, 0 \in S, \A n \in Nat : n \in S => n + 1 \in S
  PROVE  Nat \subseteq S
<1> DEFINE T == Nat \ S
           R == {ss \in Nat \X Nat : ss[1] < ss[2]}
<1>1. IsWellFoundedOn(R, Nat)
  BY NatLessThanWellFounded DEF OpToRel
<1>2. ASSUME T # {} PROVE FALSE
  <2> HIDE DEF R
  <2>1. \E x \in T : \A y \in T : ~(<<y, x>> \in R)
    <3> HIDE DEF T
    <3>1. T \subseteq Nat BY DEF T
    <3> QED BY <1>1, <1>2, <3>1, WFMin
  <2>2. PICK x \in T : \A y \in T : <<y, x>> \notin R BY <2>1
  <2>3. x # 0 /\ x - 1 \in Nat /\ x \in Nat OBVIOUS
  <2>4. x - 1 \notin S 
    BY <2>3
  <2>5. <<x - 1, x>> \in R BY <2>3 DEF R
  <2> QED BY <2>2, <2>3, <2>4, <2>5
<1> QED BY <1>2

\* The sum that both of the community modules' folds come down to.
AnyOf(s) == CHOOSE x \in s : TRUE

Sums(f, D, g) ==
  g = [s \in D |-> IF s = {} THEN 0 ELSE f[AnyOf(s)] + g[s \ {AnyOf(s)}]]

Total(f, S) == (CHOOSE g : Sums(f, SUBSET S, g))[S]

\* The two folds are these sums.
LEMMA QueueSum ==
  ASSUME NEW q
  PROVE  FoldSeq(+, 0, q) = Total(q, DOMAIN q)
  BY DEF FoldSeq, FoldFunction, FoldFunctionOnSet, MapThenFoldSet, Total, Sums, AnyOf

\* (FoldSeq of the queue, Bytes of the tokens)
LEMMA TokenSum ==
  ASSUME NEW works, NEW S
  PROVE  Bytes(works, S) = Total([s \in S |-> works[s].bytes], S)
  BY DEF Bytes, MapThenSumSet, MapThenFoldSet, Total, Sums, AnyOf

\* The subsets of S of at most n elements
Small(S, n) == {s \in SUBSET S : Cardinality(s) <= n}

\* What is picked is there.
LEMMA AnyOfIsIn ==
  ASSUME NEW s, s # {}
  PROVE  AnyOf(s) \in s
  BY DEF AnyOf

\* One element less.
LEMMA SmallerByOne ==
  ASSUME NEW S, IsFiniteSet(S), NEW x \in S
  PROVE  /\ IsFiniteSet(S \ {x}) /\ Cardinality(S) \in Nat \ {0}
         /\ Cardinality(S \ {x}) = Cardinality(S) - 1
<1>1. /\ IsFiniteSet(S \ {x}) /\ Cardinality(S \ {x}) = Cardinality(S) - 1
  BY FS_RemoveElement
<1>2. Cardinality(S) \in Nat /\ Cardinality(S) # 0
  BY FS_CardinalityType, FS_EmptySet
<1> QED BY <1>1, <1>2

\* The recursion has a solution: it is built up by the size of the subsets.
LEMMA SumsExist ==
  ASSUME NEW f, NEW S, IsFiniteSet(S)
  PROVE  \E g : Sums(f, SUBSET S, g)
<1> DEFINE G == {n \in Nat : \E g : Sums(f, Small(S, n), g)}
<1>0. \A s \in SUBSET S : IsFiniteSet(s) /\ Cardinality(s) \in Nat /\ Cardinality(s) <= Cardinality(S)
  BY FS_Subset, FS_CardinalityType
<1>1. 0 \in G
  <2> DEFINE g == [s \in Small(S, 0) |-> 0]
  <2>1. \A s \in Small(S, 0) : s = {}
    BY <1>0, FS_EmptySet DEF Small
  <2>2. Sums(f, Small(S, 0), g)
    BY <2>1 DEF Sums
  <2> HIDE DEF g
  <2> QED BY <2>2
<1>2. ASSUME NEW n \in Nat, n \in G PROVE n + 1 \in G
  <2>1. PICK g : Sums(f, Small(S, n), g)
    BY <1>2
  <2> DEFINE e == [s \in Small(S, n + 1) |->
                     IF s \in Small(S, n) THEN g[s] ELSE f[AnyOf(s)] + g[s \ {AnyOf(s)}]]
  <2>2. ASSUME NEW s \in Small(S, n + 1), s # {}
        PROVE  s \ {AnyOf(s)} \in Small(S, n)
    <3>1. AnyOf(s) \in s
      BY <2>2, AnyOfIsIn
    <3>2. Cardinality(s \ {AnyOf(s)}) = Cardinality(s) - 1
      BY <1>0, <3>1, SmallerByOne DEF Small
    <3> QED BY <1>0, <3>2 DEF Small
  <2>3. {} \in Small(S, n)
    BY FS_EmptySet DEF Small
  <2>4. Small(S, n) \subseteq Small(S, n + 1)
    BY <1>0 DEF Small
  <2>5. ASSUME NEW s \in Small(S, n + 1)
        PROVE  e[s] = IF s = {} THEN 0 ELSE f[AnyOf(s)] + e[s \ {AnyOf(s)}]
    <3>1. CASE s = {}
      BY <2>1, <2>3, <2>4, <3>1 DEF Sums
    <3>2. CASE s # {} 
      <4>1. e[s \ {AnyOf(s)}] = g[s \ {AnyOf(s)}]
        BY <2>2, <2>4, <3>2
      <4>2. e[s] = f[AnyOf(s)] + g[s \ {AnyOf(s)}]
        BY <2>1, <3>2 DEF Sums
      <4> HIDE DEF e
      <4> QED BY <3>2, <4>1, <4>2
    <3> QED BY <3>1, <3>2
  <2>6. Sums(f, Small(S, n + 1), e)
    <3>1. e = [s \in Small(S, n + 1) |-> e[s]]
      OBVIOUS
    <3> HIDE DEF e
    <3> QED BY <2>5, <3>1 DEF Sums
  <2> HIDE DEF e
  <2> QED BY <2>6
<1>3. Cardinality(S) \in G
  <2> HIDE DEF G
  <2> QED BY <1>1, <1>2, FS_CardinalityType, NatSet
<1>4. Small(S, Cardinality(S)) = SUBSET S
  BY <1>0 DEF Small
<1> QED BY <1>3, <1>4

\* It does not depend on the set it was built for.
LEMMA SumsAgree ==
  ASSUME NEW f, NEW S, IsFiniteSet(S), NEW T \in SUBSET S, NEW g, NEW h,
         Sums(f, SUBSET S, g), Sums(f, SUBSET T, h)
  PROVE  g[T] = h[T]
<1> DEFINE G == {n \in Nat : \A s \in SUBSET T : Cardinality(s) = n => g[s] = h[s]}
<1>0. \A s \in SUBSET T : IsFiniteSet(s) /\ Cardinality(s) \in Nat /\ s \in SUBSET S
  BY FS_Subset, FS_CardinalityType
<1>1. ASSUME NEW s \in SUBSET T
      PROVE  /\ s = {} => g[s] = h[s]
             /\ s # {} => \E t \in SUBSET T : Cardinality(t) = Cardinality(s) - 1
                                                /\ (g[t] = h[t] => g[s] = h[s])
  <2>1. /\ g[s] = IF s = {} THEN 0 ELSE f[AnyOf(s)] + g[s \ {AnyOf(s)}]
        /\ h[s] = IF s = {} THEN 0 ELSE f[AnyOf(s)] + h[s \ {AnyOf(s)}]
    BY <1>0 DEF Sums
  <2>2. s # {} => Cardinality(s \ {AnyOf(s)}) = Cardinality(s) - 1
    BY <1>0, AnyOfIsIn, SmallerByOne
  <2> QED BY <2>1, <2>2
<1>2. 0 \in G
  BY <1>0, <1>1, FS_EmptySet
<1>3. ASSUME NEW n \in Nat, n \in G PROVE n + 1 \in G
  <2>1. ASSUME NEW s \in SUBSET T, Cardinality(s) = n + 1 PROVE g[s] = h[s]
    <3>1. s # {}
      BY <2>1, FS_EmptySet
    <3> QED BY <1>1, <1>3, <2>1, <3>1
  <2> QED BY <2>1
<1>4. Nat \subseteq G
  <2> HIDE DEF G
  <2> QED BY <1>2, <1>3, NatSet
<1> QED BY <1>0, <1>4

\* The equations of the recursion: nothing, ...
LEMMA TotalEmpty ==
  ASSUME NEW f
  PROVE  Total(f, {}) = 0
<1> DEFINE g == CHOOSE g : Sums(f, SUBSET {}, g)
<1>1. Sums(f, SUBSET {}, g)
  BY SumsExist, FS_EmptySet
<1> QED BY <1>1 DEF Total, Sums

\* ... and the element that CHOOSE picks before the others.
LEMMA TotalAny ==
  ASSUME NEW f, NEW S, IsFiniteSet(S), S # {}
  PROVE  Total(f, S) = f[AnyOf(S)] + Total(f, S \ {AnyOf(S)})
<1> DEFINE T == S \ {AnyOf(S)}
<1> DEFINE g == CHOOSE g : Sums(f, SUBSET S, g)
<1> DEFINE h == CHOOSE h : Sums(f, SUBSET T, h)
<1>1. IsFiniteSet(T) /\ T \in SUBSET S
  BY FS_RemoveElement
<1>2. Sums(f, SUBSET S, g)
  BY SumsExist
<1>3. Sums(f, SUBSET T, h)
  <2> HIDE DEF T
  <2> QED BY <1>1, SumsExist
<1>4. Total(f, S) = g[S] /\ Total(f, T) = h[T]
  BY DEF Total
<1> HIDE DEF g, h
<1>5. g[T] = h[T]
  <2> HIDE DEF T
  <2> QED BY <1>1, <1>2, <1>3, SumsAgree, SMTT(30)
<1>6. g[S] = f[AnyOf(S)] + g[T]
  BY <1>2 DEF Sums
<1> QED BY <1>4, <1>5, <1>6

\* Equal elements have equal sums.
LEMMA TotalSame ==
  ASSUME NEW f, NEW g, NEW S, IsFiniteSet(S), \A x \in S : f[x] = g[x]
  PROVE  Total(f, S) = Total(g, S)
<1> DEFINE G == {n \in Nat : \A s \in SUBSET S : Cardinality(s) = n => Total(f, s) = Total(g, s)}
<1>0. \A s \in SUBSET S : IsFiniteSet(s) /\ Cardinality(s) \in Nat
  BY FS_Subset, FS_CardinalityType
<1>1. 0 \in G
  BY <1>0, TotalEmpty, FS_EmptySet
<1>2. ASSUME NEW n \in Nat, n \in G PROVE n + 1 \in G
  <2>1. ASSUME NEW s \in SUBSET S, Cardinality(s) = n + 1 PROVE Total(f, s) = Total(g, s)
    <3>1. s # {}
      BY <2>1, FS_EmptySet
    <3>2. /\ Total(f, s) = f[AnyOf(s)] + Total(f, s \ {AnyOf(s)})
          /\ Total(g, s) = g[AnyOf(s)] + Total(g, s \ {AnyOf(s)})
      BY <1>0, <3>1, TotalAny
    <3>a. AnyOf(s) \in s
      BY <3>1, AnyOfIsIn
    <3>b. Cardinality(s \ {AnyOf(s)}) = Cardinality(s) - 1
      BY <1>0, <3>a, SmallerByOne
    <3>3. AnyOf(s) \in s /\ Cardinality(s \ {AnyOf(s)}) = n
      BY <2>1, <3>a, <3>b
    <3>4. Total(f, s \ {AnyOf(s)}) = Total(g, s \ {AnyOf(s)})
      BY <1>2, <3>3
    <3> QED BY <3>2, <3>3, <3>4
  <2> QED BY <2>1
<1>3. Nat \subseteq G
  <2> HIDE DEF G
  <2> QED BY <1>1, <1>2, NatSet
<1> QED BY <1>0, <1>3

\* The sum of numbers is a number.
LEMMA TotalIsNat ==
  ASSUME NEW f, NEW S, IsFiniteSet(S), \A x \in S : f[x] \in Nat
  PROVE  Total(f, S) \in Nat
<1> DEFINE G == {n \in Nat : \A s \in SUBSET S : Cardinality(s) = n => Total(f, s) \in Nat}
<1>0. \A s \in SUBSET S : IsFiniteSet(s) /\ Cardinality(s) \in Nat
  BY FS_Subset, FS_CardinalityType
<1>1. 0 \in G
  BY <1>0, TotalEmpty, FS_EmptySet
<1>2. ASSUME NEW n \in Nat, n \in G PROVE n + 1 \in G
  <2>1. ASSUME NEW s \in SUBSET S, Cardinality(s) = n + 1 PROVE Total(f, s) \in Nat
    <3>1. s # {}
      BY <2>1, FS_EmptySet
    <3>2. Total(f, s) = f[AnyOf(s)] + Total(f, s \ {AnyOf(s)})
      BY <1>0, <3>1, TotalAny
    <3>a. AnyOf(s) \in s
      BY <3>1, AnyOfIsIn
    <3>b. Cardinality(s \ {AnyOf(s)}) = Cardinality(s) - 1
      BY <1>0, <3>a, SmallerByOne
    <3>3. AnyOf(s) \in s /\ Cardinality(s \ {AnyOf(s)}) = n
      BY <2>1, <3>a, <3>b
    <3>4. Total(f, s \ {AnyOf(s)}) \in Nat
      BY <1>2, <3>3
    <3> QED BY <3>2, <3>3, <3>4
  <2> QED BY <2>1
<1>3. Nat \subseteq G
  <2> HIDE DEF G
  <2> QED BY <1>1, <1>2, NatSet
<1> QED BY <1>0, <1>3

\* It does not matter in which order CHOOSE takes them: any one may be the first.
LEMMA TotalTake ==
  ASSUME NEW f, NEW S, IsFiniteSet(S), \A x \in S : f[x] \in Nat, NEW x \in S
  PROVE  Total(f, S) = f[x] + Total(f, S \ {x})
<1> DEFINE G == {n \in Nat : \A s \in SUBSET S : Cardinality(s) = n =>
                              \A y \in s : Total(f, s) = f[y] + Total(f, s \ {y})}
<1>0. \A s \in SUBSET S : IsFiniteSet(s) /\ Cardinality(s) \in Nat /\ Total(f, s) \in Nat
  BY FS_Subset, FS_CardinalityType, TotalIsNat
<1>1. 0 \in G
  BY <1>0, FS_EmptySet
<1>2. ASSUME NEW n \in Nat, n \in G PROVE n + 1 \in G
  <2>1. ASSUME NEW s \in SUBSET S, Cardinality(s) = n + 1, NEW y \in s
        PROVE  Total(f, s) = f[y] + Total(f, s \ {y})
    <3> DEFINE a == AnyOf(s)
    <3>1. Total(f, s) = f[a] + Total(f, s \ {a})
      BY <1>0, TotalAny
    <3>2. a \in s
      BY AnyOfIsIn
    <3> HIDE DEF a
    <3>3. CASE y = a
      BY <3>1, <3>3
    <3>4. CASE y # a
      <4>1. Cardinality(s \ {a}) = n /\ Cardinality(s \ {y}) = n
        BY <1>0, <2>1, <3>2, SmallerByOne
      <4>2. Total(f, s \ {a}) = f[y] + Total(f, (s \ {a}) \ {y})
        BY <1>2, <3>4, <4>1
      <4>3. Total(f, s \ {y}) = f[a] + Total(f, (s \ {y}) \ {a})
        BY <1>2, <3>2, <3>4, <4>1
      <4> DEFINE r == s \ {a, y}
      <4>4. r = (s \ {a}) \ {y} /\ r = (s \ {y}) \ {a}
        OBVIOUS
      <4>5. Total(f, r) \in Nat /\ f[a] \in Nat /\ f[y] \in Nat
        BY <1>0, <3>2
      <4> HIDE DEF r
      <4> QED BY <3>1, <4>2, <4>3, <4>4, <4>5
    <3> QED BY <3>3, <3>4
  <2> QED BY <2>1
<1>3. Nat \subseteq G
  <2> HIDE DEF G
  <2> QED BY <1>1, <1>2, NatSet
<1>4. Cardinality(S) \in G
  <2> HIDE DEF G
  <2> QED BY <1>3, FS_CardinalityType
<1> QED BY <1>4

\* Nothing but zeros sums to zero.
LEMMA NothingSums ==
  ASSUME NEW f, NEW S, IsFiniteSet(S), \A x \in S : f[x] = 0
  PROVE  Total(f, S) = 0
<1> DEFINE G == {n \in Nat : \A s \in SUBSET S : Cardinality(s) = n => Total(f, s) = 0}
<1>0. \A s \in SUBSET S : IsFiniteSet(s) /\ Cardinality(s) \in Nat
  BY FS_Subset, FS_CardinalityType
<1>1. 0 \in G
  BY <1>0, TotalEmpty, FS_EmptySet
<1>2. ASSUME NEW n \in Nat, n \in G PROVE n + 1 \in G
  <2>1. ASSUME NEW s \in SUBSET S, Cardinality(s) = n + 1 PROVE Total(f, s) = 0
    <3>1. s # {}
      BY <2>1, FS_EmptySet
    <3>2. PICK x \in s : TRUE
      BY <3>1
    <3>3. Total(f, s) = f[x] + Total(f, s \ {x})
      <4>1. IsFiniteSet(s) /\ \A y \in s : f[y] \in Nat
        BY <1>0
      <4> QED BY <4>1, TotalTake
    <3>4. Cardinality(s \ {x}) = Cardinality(s) - 1
      BY <1>0, SmallerByOne
    <3>5. Cardinality(s \ {x}) = n
      BY <2>1, <3>4
    <3>6. Total(f, s \ {x}) = 0
      BY <1>2, <3>5
    <3> QED BY <3>3, <3>6
  <2> QED BY <2>1
<1>3. Nat \subseteq G
  <2> HIDE DEF G
  <2> QED BY <1>1, <1>2, NatSet
<1> QED BY <1>0, <1>3

\* What changing one of them does to the sum.
LEMMA TotalChanges ==
  ASSUME NEW f, NEW g, NEW S, IsFiniteSet(S), NEW x \in S,
         \A y \in S : f[y] \in Nat /\ g[y] \in Nat,
         \A y \in S : y # x => f[y] = g[y]
  PROVE  Total(f, S) + g[x] = Total(g, S) + f[x]
<1>1. /\ Total(f, S) = f[x] + Total(f, S \ {x})
      /\ Total(g, S) = g[x] + Total(g, S \ {x})
  BY TotalTake
<1>2. IsFiniteSet(S \ {x})
  BY FS_RemoveElement
<1>3. Total(f, S \ {x}) = Total(g, S \ {x}) /\ Total(f, S \ {x}) \in Nat
  BY <1>2, TotalSame, TotalIsNat
<1> QED BY <1>1, <1>3

\* The sum of the first n, one longer.
LEMMA SumStep ==
  ASSUME NEW f, NEW n \in Nat, \A i \in 1 .. (n + 1) : f[i] \in Nat
  PROVE  /\ Total(f, 1 .. (n + 1)) = f[n + 1] + Total(f, 1 .. n)
         /\ Total(f, 1 .. n) \in Nat
<1> DEFINE I == 1 .. (n + 1)
<1> DEFINE k == n + 1
<1>1. IsFiniteSet(I) /\ IsFiniteSet(1 .. n)
  BY FS_Interval
<1>2. k \in I /\ I \ {k} = 1 .. n
  OBVIOUS
<1>3. \A i \in 1 .. n : f[i] \in Nat
  OBVIOUS
<1>4. Total(f, 1 .. n) \in Nat
  BY <1>1, <1>3, TotalIsNat
<1>5. Total(f, I) = f[k] + Total(f, I \ {k})
  <2>1. \A i \in I : f[i] \in Nat
    OBVIOUS
  <2> HIDE DEF I, k
  <2> QED BY <1>1, <1>2, <2>1, TotalTake
<1> QED BY <1>2, <1>4, <1>5

\* A frame put at the end of the queue, ...
LEMMA SumAppend ==
  ASSUME NEW q \in Seq(Nat), NEW w \in Nat
  PROVE  Total(Append(q, w), DOMAIN Append(q, w)) = Total(q, DOMAIN q) + w
<1> DEFINE a == Append(q, w)
<1> DEFINE n == Len(q)
<1>1. /\ n \in Nat /\ DOMAIN q = 1 .. n /\ DOMAIN a = 1 .. (n + 1)
      /\ \A i \in 1 .. n : a[i] = q[i] /\ q[i] \in Nat
      /\ a[n + 1] = w
  OBVIOUS
<1> HIDE DEF a, n
<1>2. IsFiniteSet(1 .. n)
  BY <1>1, FS_Interval
<1>3. \A i \in 1 .. (n + 1) : a[i] \in Nat
  BY <1>1
<1>4. Total(a, 1 .. (n + 1)) = w + Total(a, 1 .. n) /\ Total(a, 1 .. n) \in Nat
  BY <1>1, <1>3, SumStep
<1>5. Total(a, 1 .. n) = Total(q, 1 .. n)
  BY <1>1, <1>2, TotalSame
<1>6. Total(a, DOMAIN a) = Total(q, DOMAIN q) + w
  BY <1>1, <1>4, <1>5
<1> QED BY <1>6 DEF a

\* ... and one taken from its front.
LEMMA SumTail ==
  ASSUME NEW q \in Seq(Nat), q # <<>>
  PROVE  Total(q, DOMAIN q) = Head(q) + Total(Tail(q), DOMAIN Tail(q))
<1> DEFINE t == Tail(q)
<1> DEFINE n == Len(t)
<1>1. /\ n \in Nat /\ DOMAIN t = 1 .. n /\ DOMAIN q = 1 .. (n + 1)
      /\ \A i \in 1 .. n : t[i] = q[i + 1] /\ t[i] \in Nat
      /\ \A i \in 1 .. (n + 1) : q[i] \in Nat
      /\ Head(q) = q[1]
  OBVIOUS
<1> HIDE DEF t, n
<1> DEFINE G == {m \in Nat : m <= n => Total(q, 1 .. (m + 1)) = q[1] + Total(t, 1 .. m)}
<1>2. 0 \in G
  <2>1. 1 .. 0 = {} /\ 0 + 1 = 1
    OBVIOUS
  <2>2. Total(q, 1 .. (0 + 1)) = q[0 + 1] + Total(q, 1 .. 0)
    <3> DEFINE k == 0
    <3>1. k \in Nat /\ \A i \in 1 .. (k + 1) : q[i] \in Nat
      BY <1>1
    <3> HIDE DEF k
    <3>2. Total(q, 1 .. (k + 1)) = q[k + 1] + Total(q, 1 .. k)
      BY <3>1, SumStep
    <3> QED BY <3>2 DEF k
  <2>3. Total(q, {}) = 0 /\ Total(t, {}) = 0
    BY TotalEmpty
  <2> QED BY <2>1, <2>2, <2>3
<1>3. ASSUME NEW m \in Nat, m \in G PROVE m + 1 \in G
  <2> SUFFICES ASSUME m + 1 <= n
               PROVE  Total(q, 1 .. ((m + 1) + 1)) = q[1] + Total(t, 1 .. (m + 1))
    OBVIOUS
  <2>1. Total(q, 1 .. (m + 1)) = q[1] + Total(t, 1 .. m)
    BY <1>1, <1>3
  <2>2. \A i \in 1 .. (m + 1) : t[i] \in Nat
    BY <1>1
  <2>3. \A i \in 1 .. ((m + 1) + 1) : q[i] \in Nat
    BY <1>1
  <2>4. /\ Total(t, 1 .. (m + 1)) = t[m + 1] + Total(t, 1 .. m)
        /\ Total(t, 1 .. m) \in Nat
    BY <2>2, SumStep
  <2>5. Total(q, 1 .. ((m + 1) + 1)) = q[(m + 1) + 1] + Total(q, 1 .. (m + 1))
    <3>1. m + 1 \in Nat
      OBVIOUS
    <3> DEFINE k == m + 1
    <3>2. k \in Nat /\ \A i \in 1 .. (k + 1) : q[i] \in Nat
      BY <2>3, <3>1
    <3> HIDE DEF k
    <3>3. Total(q, 1 .. (k + 1)) = q[k + 1] + Total(q, 1 .. k)
      BY <3>2, SumStep
    <3> QED BY <3>3 DEF k
  <2>6. t[m + 1] = q[(m + 1) + 1] /\ q[(m + 1) + 1] \in Nat /\ q[1] \in Nat
    BY <1>1
  <2> QED BY <2>1, <2>4, <2>5, <2>6
<1>4. n \in G
  <2> HIDE DEF G
  <2> QED BY <1>1, <1>2, <1>3, NatSet
<1>5. Total(q, DOMAIN q) = Head(q) + Total(t, DOMAIN t)
  BY <1>1, <1>4
<1> QED BY <1>5 DEF t
-----------------------------------------------------------------------------
(* The bytes on the books.                                                 *)

\* The weights that wait in the channel, and those of the work tokens
Queued(h) == Total(host[h].queue, DOMAIN host[h].queue)
BytesOf(h) == [s \in Slots |-> host[h].works[s].bytes]
Worked(h) == Total(BytesOf(h), Slots)

\* Who has no frame in its hands has no bytes of one, ...
Sized(h) ==
  /\ host[h].carry \in Nat /\ host[h].frame \in Nat /\ host[h].queue \in Seq(Nat)
  /\ \A s \in Slots : host[h].works[s].bytes \in Nat
  /\ host[h].call # "sending" => host[h].carry = 0
  /\ host[h].processor # "begin" => host[h].frame = 0
  /\ \A s \in Slots : host[h].works[s].phase = "free" => host[h].works[s].bytes = 0

\* ... and the shared count is the sum of what everybody has.
Balanced(h) ==
  /\ host[h].pending = host[h].carry + host[h].frame + Queued(h) + Worked(h)
  /\ host[h].pending <= QueuedBytes

Books(h) == Sized(h) /\ Balanced(h)

\* A step that moves no frame
Untouched(h) ==
  /\ host'[h].pending = host[h].pending
  /\ host'[h].carry = host[h].carry /\ host'[h].frame = host[h].frame
  /\ host'[h].queue = host[h].queue
  /\ \A s \in Slots : /\ host'[h].works[s].bytes = host[h].works[s].bytes
                      /\ host'[h].works[s].phase = "free" => host[h].works[s].bytes = 0
  /\ host'[h].call # "sending" => host[h].carry = 0
  /\ host'[h].processor # "begin" => host[h].frame = 0

HIDE DEF Quiet, Kept

\* The sums are numbers.
LEMMA SumsAreNat ==
  ASSUME NEW h \in Hosts, Sized(h)
  PROVE  Queued(h) \in Nat /\ Worked(h) \in Nat
<1>1. IsFiniteSet(Slots)
  BY OwnerAssumption
<1>2. \A s \in Slots : BytesOf(h)[s] \in Nat
  BY DEF Sized, BytesOf
<1>3. Worked(h) \in Nat
  BY <1>1, <1>2, TotalIsNat DEF Worked
<1> DEFINE q == host[h].queue
<1>4. q \in Seq(Nat)
  BY DEF Sized
<1>5. Queued(h) = Total(q, DOMAIN q)
  BY DEF Queued
<1> HIDE DEF q
<1>6. DOMAIN q = 1 .. Len(q) /\ Len(q) \in Nat /\ \A i \in 1 .. Len(q) : q[i] \in Nat
  BY <1>4
<1>7. IsFiniteSet(1 .. Len(q))
  BY <1>6, FS_Interval
<1>8. Total(q, DOMAIN q) \in Nat
  BY <1>6, <1>7, TotalIsNat
<1> QED BY <1>3, <1>5, <1>8

\* Tokens that keep their bytes keep their sum.
LEMMA WorkedStays ==
  ASSUME NEW h \in Hosts, Sized(h),
         \A s \in Slots : host'[h].works[s].bytes = host[h].works[s].bytes
  PROVE  Worked(h)' = Worked(h)
<1>1. BytesOf(h)' = BytesOf(h)
  BY DEF BytesOf
<1> QED BY <1>1 DEF Worked

\* One token changes: so does the sum.
LEMMA WorkedChanges ==
  ASSUME NEW h \in Hosts, Sized(h), NEW s \in Slots, host'[h].works[s].bytes \in Nat,
         \A r \in Slots : r # s => host'[h].works[r].bytes = host[h].works[r].bytes
  PROVE  Worked(h)' + host[h].works[s].bytes = Worked(h) + host'[h].works[s].bytes
<1> DEFINE f == BytesOf(h)
<1> DEFINE g == BytesOf(h)'
<1>1. /\ \A r \in Slots : f[r] \in Nat /\ g[r] \in Nat
      /\ \A r \in Slots : r # s => f[r] = g[r]
      /\ f[s] = host[h].works[s].bytes /\ g[s] = host'[h].works[s].bytes
  BY DEF Sized, BytesOf
<1>2. Worked(h) = Total(f, Slots) /\ Worked(h)' = Total(g, Slots)
  BY DEF Worked
<1> HIDE DEF f, g
<1>3. Total(f, Slots) + g[s] = Total(g, Slots) + f[s]
  BY <1>1, OwnerAssumption, TotalChanges
<1> QED BY <1>1, <1>2, <1>3

\* The books are as they were when no frame moves.
LEMMA BooksStay ==
  ASSUME NEW h \in Hosts, Books(h), Untouched(h)
  PROVE  Books(h)'
<1>1. Worked(h)' = Worked(h) /\ Queued(h)' = Queued(h)
  BY WorkedStays DEF Books, Untouched, Queued
<1>2. Sized(h)'
  BY DEF Books, Sized, Untouched
<1> QED
  BY <1>1, <1>2 DEF Books, Balanced, Untouched

\* The starter moves none: the processor it starts was not there before.
LEMMA StarterBooks ==
  ASSUME NEW V, Shapes(V), NEW h \in Hosts, Quiet(h), Books(h), Starter(h)
  PROVE  Books(h)'
<1>1. host[h] \in Shape(V) /\ host \in [Hosts -> Shape(V)]
  BY DEF Shapes
<1>2. Sized(h)
  BY DEF Books
<1>3. CASE StartCapture(h)
  <2>1. host[h].processor = "none"
    BY <1>3 DEF Quiet, StartCapture
  <2>2. Untouched(h)
    BY <1>1, <1>2, <1>3, <2>1, SMT DEF Shape, StartCapture, Untouched, Sized
  <2> QED BY <2>2, BooksStay
<1>4. CASE Subscribe(h)
  <2>1. Untouched(h)
    BY <1>1, <1>2, <1>4, SMT DEF Shape, Subscribe, Untouched, Sized
  <2> QED BY <2>1, BooksStay
<1>5. CASE SubscribeFails(h)
  <2>1. Untouched(h)
    BY <1>1, <1>2, <1>5, SMT DEF Shape, SubscribeFails, Untouched, Sized
  <2> QED BY <2>1, BooksStay
<1>6. CASE JoinFailedStart(h)
  <2>1. Untouched(h)
    BY <1>1, <1>2, <1>6, SMT DEF Shape, JoinFailedStart, Untouched, Sized
  <2> QED BY <2>1, BooksStay
<1>7. CASE Attach(h)
  <2>1. Untouched(h)
    BY <1>1, <1>2, <1>7, SMT DEF Shape, Attach, Untouched, Sized
  <2> QED BY <2>1, BooksStay
<1> QED
  BY <1>3, <1>4, <1>5, <1>6, <1>7 DEF Starter

\* The listener reserves the bytes of its frame, hands both to the channel, or
\* gives the bytes back.
LEMMA ListenerBooks ==
  ASSUME NEW V, Shapes(V), NEW h \in Hosts, Books(h),
         Notified(h) \/ Callback(h) \/ NativeEnds(h)
  PROVE  Books(h)'
<1>1. host[h] \in Shape(V) /\ host \in [Hosts -> Shape(V)]
  BY DEF Shapes
<1>2. Sized(h)
  BY DEF Books
<1>3. Queued(h) \in Nat /\ Worked(h) \in Nat
  BY <1>2, SumsAreNat
<1>4. CASE Notified(h)
  <2>1. Untouched(h)
    BY <1>1, <1>2, <1>4, SMT DEF Shape, Notified, Untouched, Sized
  <2> QED BY <2>1, BooksStay
<1>5. CASE ReadNothing(h)
  <2>1. Untouched(h)
    BY <1>1, <1>2, <1>5, SMT DEF Shape, ReadNothing, Untouched, Sized
  <2> QED BY <2>1, BooksStay
<1>6. CASE Reserve(h)
  <2>1. PICK w \in Weights :
          /\ host[h].pending + w <= QueuedBytes
          /\ Step(h, [host[h] EXCEPT !.call = "sending", !.carry = w, !.pending = @ + w])
    BY <1>6 DEF Reserve
  <2>2. host[h].call = "reading" /\ w \in Nat
    BY <1>6, OwnerAssumption DEF Reserve
  <2>3. /\ host'[h].carry = w /\ host'[h].pending = host[h].pending + w
        /\ host'[h].call = "sending"
        /\ host'[h].queue = host[h].queue /\ host'[h].frame = host[h].frame
        /\ host'[h].works = host[h].works /\ host'[h].processor = host[h].processor
    BY <1>1, <2>1, SMT DEF Shape
  <2>4. Worked(h)' = Worked(h) /\ Queued(h)' = Queued(h)
    BY <1>2, <2>3, WorkedStays DEF Queued
  <2>5. Sized(h)'
    BY <1>2, <2>2, <2>3 DEF Sized
  <2>6. host[h].carry = 0
    BY <1>2, <2>2 DEF Sized
  <2>7. host[h].frame \in Nat
    BY <1>2 DEF Sized
  <2>8. Balanced(h)'
    BY <1>3, <2>1, <2>2, <2>3, <2>4, <2>6, <2>7 DEF Books, Balanced
  <2> QED BY <2>5, <2>8 DEF Books
<1>7. CASE Send(h)
  <2>1. host[h].call = "sending" /\ host[h].carry \in Nat /\ host[h].frame \in Nat
    BY <1>2, <1>7 DEF Send, Sized
  <2>2. CASE Step(h, [host[h] EXCEPT !.call = "idle", !.carry = 0,
                                     !.queue = Append(@, host[h].carry)])
    <3> DEFINE q == host[h].queue
    <3> DEFINE c == host[h].carry
    <3> DEFINE a == Append(q, c)
    <3>1. Step(h, [host[h] EXCEPT !.call = "idle", !.carry = 0, !.queue = a])
      BY <2>2, Zenon
    <3>2. q \in Seq(Nat) /\ c \in Nat
      BY <1>2 DEF Sized
    <3>3. a \in Seq(Nat)
      BY <3>2
    <3>4. Total(a, DOMAIN a) = Total(q, DOMAIN q) + c
      <4> HIDE DEF q, c
      <4> QED BY <3>2, SumAppend
    <3> HIDE DEF a
    <3>5. /\ host'[h].carry = 0 /\ host'[h].pending = host[h].pending
          /\ host'[h].call = "idle" /\ host'[h].queue = a
          /\ host'[h].frame = host[h].frame
          /\ host'[h].works = host[h].works /\ host'[h].processor = host[h].processor
      BY <1>1, <3>1, SMT DEF Shape
    <3>6. Worked(h)' = Worked(h)
      BY <1>2, <3>5, WorkedStays
    <3>7. Queued(h)' = Queued(h) + host[h].carry
      BY <3>4, <3>5 DEF Queued
    <3>8. Sized(h)'
      BY <1>2, <3>3, <3>5 DEF Sized
    <3>9. Balanced(h)'
      BY <1>3, <2>1, <3>5, <3>6, <3>7 DEF Books, Balanced
    <3> QED BY <3>8, <3>9 DEF Books
  <2>3. CASE Step(h, [host[h] EXCEPT !.call = "idle", !.carry = 0,
                                     !.pending = @ - host[h].carry])
    <3>1. /\ host'[h].carry = 0 /\ host'[h].pending = host[h].pending - host[h].carry
          /\ host'[h].call = "idle" /\ host'[h].queue = host[h].queue
          /\ host'[h].frame = host[h].frame
          /\ host'[h].works = host[h].works /\ host'[h].processor = host[h].processor
      BY <1>1, <2>3, SMT DEF Shape
    <3>2. Worked(h)' = Worked(h) /\ Queued(h)' = Queued(h)
      BY <1>2, <3>1, WorkedStays DEF Queued
    <3>3. Sized(h)'
      BY <1>2, <3>1 DEF Sized
    <3>4. Balanced(h)'
      BY <1>3, <2>1, <3>1, <3>2, OwnerAssumption DEF Books, Balanced
    <3> QED BY <3>3, <3>4 DEF Books
  <2> HIDE DEF Step
  <2> QED BY <1>7, <2>2, <2>3, Zenon DEF Send
<1>8. CASE NativeEnds(h)
  <2>1. Untouched(h)
    BY <1>1, <1>2, <1>8, SMT DEF Shape, NativeEnds, Untouched, Sized
  <2> QED BY <2>1, BooksStay
<1> QED
  BY <1>4, <1>5, <1>6, <1>7, <1>8 DEF Callback

\* A token given to a slot that was free brings its bytes with it.
LEMMA TakenAddsItsBytes ==
  ASSUME NEW V, NEW h \in Hosts, host[h] \in Shape(V), Sized(h), NEW s \in Slots, MayBegin(h, s),
         NEW p, NEW w \in Nat, host'[h].works = Taken(h, s, p, w), p # "free"
  PROVE  /\ Worked(h)' = Worked(h) + w
         /\ \A r \in Slots : host'[h].works[r].bytes \in Nat
         /\ \A r \in Slots : host'[h].works[r].phase = "free" => host'[h].works[r].bytes = 0
<1>1. /\ host'[h].works[s].bytes = w /\ host'[h].works[s].phase = p
      /\ \A r \in Slots : r # s => host'[h].works[r] = host[h].works[r]
  BY SMT DEF Shape, Taken
<1>2. host[h].works[s].bytes = 0
  BY DEF MayBegin, Sized
<1>3. Worked(h)' + host[h].works[s].bytes = Worked(h) + w
  BY <1>1, WorkedChanges
<1>4. Worked(h) \in Nat
  BY SumsAreNat
<1>5. /\ \A r \in Slots : host'[h].works[r].bytes \in Nat
      /\ \A r \in Slots : host'[h].works[r].phase = "free" => host'[h].works[r].bytes = 0
  BY <1>1 DEF Sized
<1>6. Worked(h)' \in Nat
  <2>1. IsFiniteSet(Slots) /\ \A r \in Slots : BytesOf(h)'[r] \in Nat
    BY <1>5, OwnerAssumption DEF BytesOf
  <2> QED BY <2>1, TotalIsNat DEF Worked
<1> QED BY <1>2, <1>3, <1>4, <1>5, <1>6

\* The processor takes a frame out of the channel, into a token, or gives its
\* bytes back; at the end it gives back those of all that is left in the channel.
LEMMA ProcessorBooks ==
  ASSUME NEW V, Shapes(V), NEW h \in Hosts, Books(h), Processor(h)
  PROVE  Books(h)'
<1>1. host[h] \in Shape(V) /\ host \in [Hosts -> Shape(V)]
  BY DEF Shapes
<1>2. Sized(h) /\ host[h].carry \in Nat /\ host[h].frame \in Nat
  BY DEF Books, Sized
<1>3. Queued(h) \in Nat /\ Worked(h) \in Nat
  BY <1>2, SumsAreNat
<1>4. CASE Receive(h)
  <2> DEFINE q == host[h].queue
  <2> DEFINE w == Head(q)
  <2> DEFINE t == Tail(q)
  <2>1. host[h].processor = "recv" /\ q \in Seq(Nat) /\ q # <<>>
    BY <1>2, <1>4 DEF Receive, Sized
  <2>2. w \in Nat /\ t \in Seq(Nat)
    <3> HIDE DEF q
    <3> QED BY <2>1
  <2>3. Total(q, DOMAIN q) = w + Total(t, DOMAIN t)
    <3> HIDE DEF q
    <3> QED BY <2>1, SumTail
  <2>4. host[h].frame = 0
    BY <1>2, <2>1 DEF Sized
  <2>5. \/ Step(h, [host[h] EXCEPT !.processor = "begin", !.frame = w, !.queue = t])
        \/ Step(h, [host[h] EXCEPT !.processor = "exit", !.queue = t, !.pending = @ - w])
    BY <1>4, Zenon DEF Receive
  <2> DEFINE k == Total(t, DOMAIN t)
  <2>6. Queued(h) = w + k
    BY <2>3 DEF Queued
  <2> HIDE DEF q, w, t
  <2>7. k \in Nat
    <3> DEFINE n == Len(t)
    <3>1. n \in Nat /\ DOMAIN t = 1 .. n /\ \A i \in 1 .. n : t[i] \in Nat
      BY <2>2
    <3>2. IsFiniteSet(1 .. n)
      BY <3>1, FS_Interval
    <3> HIDE DEF n
    <3> QED BY <3>1, <3>2, TotalIsNat
  <2> HIDE DEF k
  <2>8. CASE Step(h, [host[h] EXCEPT !.processor = "begin", !.frame = w, !.queue = t])
    <3>1. /\ host'[h].carry = host[h].carry /\ host'[h].pending = host[h].pending
          /\ host'[h].call = host[h].call /\ host'[h].queue = t /\ host'[h].frame = w
          /\ host'[h].works = host[h].works /\ host'[h].processor = "begin"
      BY <1>1, <2>8, SMT DEF Shape
    <3>2. Worked(h)' = Worked(h) /\ Queued(h)' = k
      BY <1>2, <3>1, WorkedStays DEF Queued, k
    <3>3. Sized(h)'
      BY <1>2, <2>2, <3>1 DEF Sized
    <3>4. Balanced(h)'
      BY <1>2, <1>3, <2>2, <2>4, <2>6, <2>7, <3>1, <3>2 DEF Books, Balanced
    <3> QED BY <3>3, <3>4 DEF Books
  <2>9. CASE Step(h, [host[h] EXCEPT !.processor = "exit", !.queue = t, !.pending = @ - w])
    <3>1. /\ host'[h].carry = host[h].carry /\ host'[h].pending = host[h].pending - w
          /\ host'[h].call = host[h].call /\ host'[h].queue = t
          /\ host'[h].frame = host[h].frame
          /\ host'[h].works = host[h].works /\ host'[h].processor = "exit"
      BY <1>1, <2>9, SMT DEF Shape
    <3>2. Worked(h)' = Worked(h) /\ Queued(h)' = k
      BY <1>2, <3>1, WorkedStays DEF Queued, k
    <3>3. Sized(h)'
      BY <1>2, <2>2, <2>4, <3>1 DEF Sized
    <3>4. Balanced(h)'
      BY <1>2, <1>3, <2>2, <2>4, <2>6, <2>7, <3>1, <3>2, OwnerAssumption DEF Books, Balanced
    <3> QED BY <3>3, <3>4 DEF Books
  <2> HIDE DEF Step
  <2> QED BY <2>5, <2>8, <2>9
<1>5. CASE Disconnected(h)
  <2>1. Untouched(h)
    BY <1>1, <1>2, <1>5, SMT DEF Shape, Disconnected, Untouched, Sized
  <2> QED BY <2>1, BooksStay
<1>6. CASE BeginTask(h)
  <2>1. host[h].processor = "begin"
    BY <1>6 DEF BeginTask
  <2>2. ASSUME NEW s \in Slots, MayBegin(h, s),
               Step(h, [host[h] EXCEPT !.processor = "work", !.task = {s}, !.frame = 0,
                          !.works = Taken(h, s, "processing", host[h].frame)])
        PROVE  Books(h)'
    <3> DEFINE T == Taken(h, s, "processing", host[h].frame)
    <3> DEFINE r == {s}
    <3>1. Step(h, [host[h] EXCEPT !.processor = "work", !.task = r, !.frame = 0, !.works = T])
      BY <2>2, Zenon
    <3> HIDE DEF T, r
    <3>2. /\ host'[h].carry = host[h].carry /\ host'[h].pending = host[h].pending
          /\ host'[h].call = host[h].call /\ host'[h].queue = host[h].queue
          /\ host'[h].frame = 0 /\ host'[h].works = T /\ host'[h].processor = "work"
      BY <1>1, <3>1, SMT DEF Shape
    <3>3. /\ Worked(h)' = Worked(h) + host[h].frame
          /\ \A z \in Slots : host'[h].works[z].bytes \in Nat
          /\ \A z \in Slots : host'[h].works[z].phase = "free" => host'[h].works[z].bytes = 0
      <4>1. "processing" # "free"
        OBVIOUS
      <4>2. host'[h].works = Taken(h, s, "processing", host[h].frame)
        BY <3>2 DEF T
      <4> HIDE DEF Step
      <4> QED BY <1>1, <1>2, <2>2, <4>1, <4>2, TakenAddsItsBytes
    <3>4. Queued(h)' = Queued(h)
      BY <3>2 DEF Queued
    <3>5. Sized(h)'
      BY <1>2, <3>2, <3>3 DEF Sized
    <3>6. Balanced(h)'
      BY <1>2, <1>3, <3>2, <3>3, <3>4 DEF Books, Balanced
    <3> QED BY <3>5, <3>6 DEF Books
  <2>3. ASSUME Step(h, [host[h] EXCEPT !.processor = "recv", !.frame = 0,
                                       !.pending = @ - host[h].frame])
        PROVE  Books(h)'
    <3>1. /\ host'[h].carry = host[h].carry
          /\ host'[h].pending = host[h].pending - host[h].frame
          /\ host'[h].call = host[h].call /\ host'[h].queue = host[h].queue
          /\ host'[h].frame = 0 /\ host'[h].works = host[h].works
          /\ host'[h].processor = "recv"
      BY <1>1, <2>3, SMT DEF Shape
    <3>2. Worked(h)' = Worked(h) /\ Queued(h)' = Queued(h)
      BY <1>2, <3>1, WorkedStays DEF Queued
    <3>3. Sized(h)'
      BY <1>2, <3>1 DEF Sized
    <3>4. Balanced(h)'
      BY <1>2, <1>3, <3>1, <3>2, OwnerAssumption DEF Books, Balanced
    <3> QED BY <3>3, <3>4 DEF Books
  <2> HIDE DEF Step
  <2> QED BY <1>6, <2>2, <2>3, Zenon DEF BeginTask
<1>7. CASE EndTask(h)
  <2> DEFINE F == FollowedUp(h, host[h].task)
  <2>1. \A s \in Slots : /\ F[s].bytes = host[h].works[s].bytes
                         /\ F[s].phase = "free" => host[h].works[s].phase = "free"
    BY <1>1, SMT DEF Shape, FollowedUp
  <2>2. Step(h, [host[h] EXCEPT !.processor = "recv", !.task = {}, !.works = F])
    BY <1>7, Zenon DEF EndTask
  <2>3. host[h].processor = "work"
    BY <1>7 DEF EndTask
  <2> HIDE DEF F
  <2>4. Untouched(h)
    BY <1>1, <1>2, <2>1, <2>2, <2>3, SMT DEF Shape, Untouched, Sized
  <2> QED BY <2>4, BooksStay
<1>8. CASE ProcessorEnds(h)
  <2> DEFINE p == host[h].pending - Queued(h)
  <2>1. FoldSeq(+, 0, host[h].queue) = Queued(h)
    BY QueueSum DEF Queued
  <2>2. Step(h, [host[h] EXCEPT !.processor = "finished", !.queue = <<>>, !.pending = p])
    BY <1>8, <2>1, Zenon DEF ProcessorEnds
  <2>3. host[h].processor = "exit" /\ host[h].frame = 0
    BY <1>2, <1>8 DEF ProcessorEnds, Sized
  <2> HIDE DEF p
  <2>4. /\ host'[h].carry = host[h].carry /\ host'[h].pending = p
        /\ host'[h].call = host[h].call /\ host'[h].queue = <<>>
        /\ host'[h].frame = 0 /\ host'[h].works = host[h].works
        /\ host'[h].processor = "finished"
    BY <1>1, <2>2, <2>3, SMT DEF Shape
  <2>5. Worked(h)' = Worked(h)
    BY <1>2, <2>4, WorkedStays
  <2>6. Queued(h)' = 0
    <3>1. DOMAIN <<>> = {}
      OBVIOUS
    <3> QED BY <2>4, <3>1, TotalEmpty DEF Queued
  <2>7. Sized(h)'
    BY <1>2, <2>4 DEF Sized
  <2>8. Balanced(h)'
    BY <1>2, <1>3, <2>3, <2>4, <2>5, <2>6, OwnerAssumption DEF Books, Balanced, p
  <2> QED BY <2>7, <2>8 DEF Books
<1> QED
  BY <1>4, <1>5, <1>6, <1>7, <1>8 DEF Processor

\* A token keeps its bytes until its fields are dropped.
LEMMA TokensBooks ==
  ASSUME NEW V, Shapes(V), NEW h \in Hosts, Books(h),
         FollowUpEnds(h) \/ TokenGone(h)
  PROVE  Books(h)'
<1>1. host[h] \in Shape(V) /\ host \in [Hosts -> Shape(V)]
  BY DEF Shapes
<1>2. Sized(h) /\ host[h].carry \in Nat /\ host[h].frame \in Nat
  BY DEF Books, Sized
<1>3. Queued(h) \in Nat /\ Worked(h) \in Nat
  BY <1>2, SumsAreNat
<1>4. CASE FollowUpEnds(h)
  <2>1. PICK s \in Slots : Step(h, [host[h] EXCEPT !.works[s].phase = "dropping"])
    BY <1>4 DEF FollowUpEnds, Tokens
  <2> DEFINE T == [host[h].works EXCEPT ![s].phase = "dropping"]
  <2>2. \A r \in Slots : /\ T[r].bytes = host[h].works[r].bytes
                         /\ T[r].phase = "free" => host[h].works[r].phase = "free"
    BY <1>1, SMT DEF Shape
  <2>3. Step(h, [host[h] EXCEPT !.works = T])
    BY <2>1, Zenon
  <2> HIDE DEF T
  <2>4. Untouched(h)
    BY <1>1, <1>2, <2>2, <2>3, SMT DEF Shape, Untouched, Sized
  <2> QED BY <2>4, BooksStay
<1>5. CASE TokenGone(h)
  <2>1. PICK s \in Slots :
          Step(h, [host[h] EXCEPT !.works[s] = FreeWork,
                                  !.pending = @ - host[h].works[s].bytes])
    BY <1>5 DEF TokenGone, Tokens
  <2> DEFINE T == [host[h].works EXCEPT ![s] = FreeWork]
  <2> DEFINE p == host[h].pending - host[h].works[s].bytes
  <2>2. /\ T[s].bytes = 0
        /\ \A r \in Slots : r # s => T[r] = host[h].works[r]
    BY <1>1, SMT DEF Shape, FreeWork
  <2>3. Step(h, [host[h] EXCEPT !.works = T, !.pending = p])
    BY <2>1, Zenon
  <2> HIDE DEF T, p
  <2>4. /\ host'[h].carry = host[h].carry /\ host'[h].pending = p
        /\ host'[h].call = host[h].call /\ host'[h].queue = host[h].queue
        /\ host'[h].frame = host[h].frame /\ host'[h].works = T
        /\ host'[h].processor = host[h].processor
    BY <1>1, <2>3, SMT DEF Shape
  <2>5. Sized(h)'
    BY <1>2, <2>2, <2>4 DEF Sized
  <2>6. Worked(h)' + host[h].works[s].bytes = Worked(h)
    BY <1>2, <1>3, <2>2, <2>4, WorkedChanges
  <2>7. Worked(h)' \in Nat
    <3>1. IsFiniteSet(Slots) /\ \A r \in Slots : BytesOf(h)'[r] \in Nat
      BY <2>5, OwnerAssumption DEF BytesOf, Sized
    <3> QED BY <3>1, TotalIsNat DEF Worked
  <2>8. Queued(h)' = Queued(h)
    BY <2>4 DEF Queued
  <2>9. host[h].works[s].bytes \in Nat
    BY <1>2 DEF Sized
  <2>10. Balanced(h)'
    BY <1>2, <1>3, <2>4, <2>6, <2>7, <2>8, <2>9, OwnerAssumption DEF Books, Balanced, p
  <2> QED BY <2>5, <2>10 DEF Books
<1> QED
  BY <1>4, <1>5

\* Text that is handed in reserves its bytes with its token.
LEMMA DesktopBooks ==
  ASSUME NEW V, Shapes(V), NEW h \in Hosts, Books(h),
         Ask(h) \/ Submit(h) \/ Upload(h) \/ Desktop(h)
  PROVE  Books(h)'
<1>1. host[h] \in Shape(V) /\ host \in [Hosts -> Shape(V)]
  BY DEF Shapes
<1>2. Sized(h) /\ host[h].carry \in Nat /\ host[h].frame \in Nat
  BY DEF Books, Sized
<1>3. Queued(h) \in Nat /\ Worked(h) \in Nat
  BY <1>2, SumsAreNat
<1>4. CASE Ask(h)
  <2>1. Untouched(h)
    BY <1>1, <1>2, <1>4, SMT DEF Shape, Ask, Untouched, Sized
  <2> QED BY <2>1, BooksStay
<1>5. CASE Submit(h)
  <2>1. Untouched(h)
    BY <1>1, <1>2, <1>5, SMT DEF Shape, Submit, Untouched, Sized
  <2> QED BY <2>1, BooksStay
<1>6. CASE Upload(h)
  <2>1. Untouched(h)
    BY <1>1, <1>2, <1>6, SMT DEF Shape, Upload, Untouched, Sized
  <2> QED BY <2>1, BooksStay
<1>7. CASE RefuseWork(h)
  <2>1. Untouched(h)
    BY <1>1, <1>2, <1>7, SMT DEF Shape, RefuseWork, Untouched, Sized
  <2> QED BY <2>1, BooksStay
<1>8. CASE RefuseGenerated(h)
  <2>1. Untouched(h)
    BY <1>1, <1>2, <1>8, SMT DEF Shape, RefuseGenerated, Untouched, Sized
  <2> QED BY <2>1, BooksStay
<1>9. CASE GrantWork(h)
  <2>1. PICK s \in Slots :
          /\ MayBegin(h, s)
          /\ Step(h, [host[h] EXCEPT !.ask = "holding", !.tokens = {s},
                                     !.works = Taken(h, s, "followup", 0)])
    BY <1>9 DEF GrantWork
  <2> DEFINE T == Taken(h, s, "followup", 0)
  <2>2. \A r \in Slots : /\ T[r].bytes = host[h].works[r].bytes
                         /\ T[r].phase = "free" => host[h].works[r].phase = "free"
    BY <1>1, <1>2, <2>1, SMT DEF Shape, Taken, Sized, MayBegin
  <2> HIDE DEF T
  <2>3. Step(h, [host[h] EXCEPT !.ask = "holding", !.tokens = {s}, !.works = T])
    BY <2>1, Zenon DEF T
  <2>4. Untouched(h)
    BY <1>1, <1>2, <2>2, <2>3, SMT DEF Shape, Untouched, Sized
  <2> QED BY <2>4, BooksStay
<1>10. CASE GrantGenerated(h)
  <2>1. PICK s \in Slots, w \in Weights :
          /\ MayBegin(h, s) /\ host[h].pending + w <= QueuedBytes
          /\ Step(h, [host[h] EXCEPT
               !.ask = IF @ = "uploading" THEN "recording" ELSE "processing",
               !.tokens = @ \cup {s},
               !.works = Taken(h, s, "processing", w), !.pending = @ + w])
    BY <1>10 DEF GrantGenerated
  <2> DEFINE T == Taken(h, s, "processing", w)
  <2> DEFINE a == IF host[h].ask = "uploading" THEN "recording" ELSE "processing"
  <2> DEFINE r == host[h].tokens \cup {s}
  <2> DEFINE p == host[h].pending + w
  <2>2. w \in Nat
    BY OwnerAssumption
  <2>3. Step(h, [host[h] EXCEPT !.ask = a, !.tokens = r, !.works = T, !.pending = p])
    BY <2>1, Zenon
  <2> HIDE DEF T, a, r, p
  <2>4. /\ host'[h].carry = host[h].carry /\ host'[h].pending = p
        /\ host'[h].call = host[h].call /\ host'[h].queue = host[h].queue
        /\ host'[h].frame = host[h].frame /\ host'[h].works = T
        /\ host'[h].processor = host[h].processor
    BY <1>1, <2>3, SMT DEF Shape
  <2>5. /\ Worked(h)' = Worked(h) + w
        /\ \A z \in Slots : host'[h].works[z].bytes \in Nat
        /\ \A z \in Slots : host'[h].works[z].phase = "free" => host'[h].works[z].bytes = 0
    <3>1. host'[h].works = Taken(h, s, "processing", w)
      BY <2>4 DEF T
    <3>2. "processing" # "free"
      OBVIOUS
    <3> HIDE DEF Step
    <3> QED BY <1>1, <1>2, <2>1, <2>2, <3>1, <3>2, TakenAddsItsBytes
  <2>6. Sized(h)'
    BY <1>2, <2>4, <2>5 DEF Sized
  <2>7. Queued(h)' = Queued(h)
    BY <2>4 DEF Queued
  <2>8. Balanced(h)'
    BY <1>2, <1>3, <2>1, <2>2, <2>4, <2>5, <2>7 DEF Books, Balanced, p
  <2> QED BY <2>6, <2>8 DEF Books
<1>11. CASE Release(h)
  <2> DEFINE F == FollowedUp(h, host[h].tokens)
  <2>1. \A s \in Slots : /\ F[s].bytes = host[h].works[s].bytes
                         /\ F[s].phase = "free" => host[h].works[s].phase = "free"
    BY <1>1, SMT DEF Shape, FollowedUp
  <2>2. Step(h, [host[h] EXCEPT !.ask = "idle", !.tokens = {}, !.works = F])
    BY <1>11, Zenon DEF Release
  <2> HIDE DEF F
  <2>3. Untouched(h)
    BY <1>1, <1>2, <2>1, <2>2, SMT DEF Shape, Untouched, Sized
  <2> QED BY <2>3, BooksStay
<1> QED
  BY <1>4, <1>5, <1>6, <1>7, <1>8, <1>9, <1>10, <1>11 DEF Desktop

\* The writer and the shortcut have no frames, ...
LEMMA HelpersBooks ==
  ASSUME NEW V, Shapes(V), NEW h \in Hosts, Books(h),
         Copy(h) \/ HelperEnds(h) \/ SetShortcut(h) \/ ShortcutEnds(h)
  PROVE  Books(h)'
<1>1. host[h] \in Shape(V) /\ host \in [Hosts -> Shape(V)]
  BY DEF Shapes
<1>2. Sized(h) /\ host[h].carry \in Nat /\ host[h].frame \in Nat
  BY DEF Books, Sized
<1>3. CASE Copy(h)
  <2>1. Untouched(h)
    BY <1>1, <1>2, <1>3, SMT DEF Shape, Copy, Untouched, Sized
  <2> QED BY <2>1, BooksStay
<1>4. CASE HelperEnds(h)
  <2>1. Untouched(h)
    BY <1>1, <1>2, <1>4, SMT DEF Shape, HelperEnds, Untouched, Sized
  <2> QED BY <2>1, BooksStay
<1>5. CASE SetShortcut(h)
  <2>1. Untouched(h)
    BY <1>1, <1>2, <1>5, SMT DEF Shape, SetShortcut, Untouched, Sized
  <2> QED BY <2>1, BooksStay
<1>6. CASE ShortcutEnds(h)
  <2>1. Untouched(h)
    BY <1>1, <1>2, <1>6, SMT DEF Shape, ShortcutEnds, Untouched, Sized
  <2> QED BY <2>1, BooksStay
<1> QED
  BY <1>3, <1>4, <1>5, <1>6

\* ... a stop waits for those who have some and takes none from them, ...
LEMMA StopBooks ==
  ASSUME NEW V, Shapes(V), NEW h \in Hosts, Books(h),
         BeginStop(h) \/ Stopper(h)
  PROVE  Books(h)'
<1>1. host[h] \in Shape(V) /\ host \in [Hosts -> Shape(V)]
  BY DEF Shapes
<1>2. Sized(h) /\ host[h].carry \in Nat /\ host[h].frame \in Nat
  BY DEF Books, Sized
<1>3. CASE BeginStop(h)
  <2>1. Untouched(h)
    BY <1>1, <1>2, <1>3, SMT DEF Shape, BeginStop, Untouched, Sized
  <2> QED BY <2>1, BooksStay
<1>4. CASE NothingToStop(h)
  <2>1. Untouched(h)
    BY <1>1, <1>2, <1>4, SMT DEF Shape, NothingToStop, Untouched, Sized, Advance
  <2> QED BY <2>1, BooksStay
<1>5. CASE SignalStop(h)
  <2>1. Untouched(h)
    BY <1>1, <1>2, <1>5, SMT DEF Shape, SignalStop, Untouched, Sized
  <2> QED BY <2>1, BooksStay
<1>6. CASE NativeStopped(h)
  <2>1. Untouched(h)
    BY <1>1, <1>2, <1>6, SMT DEF Shape, NativeStopped, Untouched, Sized
  <2> QED BY <2>1, BooksStay
<1>7. CASE NativeStopFails(h)
  <2>1. Untouched(h)
    BY <1>1, <1>2, <1>7, SMT DEF Shape, NativeStopFails, Untouched, Sized, Fail
  <2> QED BY <2>1, BooksStay
<1>8. CASE ProcessorJoined(h)
  <2>1. Untouched(h)
    BY <1>1, <1>2, <1>8, SMT DEF Shape, ProcessorJoined, Untouched, Sized
  <2> QED BY <2>1, BooksStay
<1>9. CASE ProcessorStopFails(h)
  <2>1. Untouched(h)
    BY <1>1, <1>2, <1>9, SMT DEF Shape, ProcessorStopFails, Untouched, Sized, Fail
  <2> QED BY <2>1, BooksStay
<1>10. CASE CaptureStopped(h)
  <2>1. Untouched(h)
    BY <1>1, <1>2, <1>10, SMT DEF Shape, CaptureStopped, Untouched, Sized
  <2> QED BY <2>1, BooksStay
<1>11. CASE DrainFails(h)
  <2>1. Untouched(h)
    BY <1>1, <1>2, <1>11, SMT DEF Shape, DrainFails, Untouched, Sized, Fail
  <2> QED BY <2>1, BooksStay
<1>12. CASE HotkeyStopped(h)
  <2>1. Untouched(h)
    BY <1>1, <1>2, <1>12, SMT DEF Shape, HotkeyStopped, Untouched, Sized
  <2> QED BY <2>1, BooksStay
<1>13. CASE HotkeyStopFails(h)
  <2>1. Untouched(h)
    BY <1>1, <1>2, <1>13, SMT DEF Shape, HotkeyStopFails, Untouched, Sized
  <2> QED BY <2>1, BooksStay
<1>14. CASE HelpersStopped(h)
  <2>1. Untouched(h)
    BY <1>1, <1>2, <1>14, SMT DEF Shape, HelpersStopped, Untouched, Sized
  <2> QED BY <2>1, BooksStay
<1>15. CASE HelpersStopFail(h)
  <2>1. Untouched(h)
    BY <1>1, <1>2, <1>15, SMT DEF Shape, HelpersStopFail, Untouched, Sized, Fail
  <2> QED BY <2>1, BooksStay
<1>16. CASE Released(h)
  <2>1. ASSUME NEW c, Step(h, [host[h] EXCEPT !.stop = "idle", !.stopped = TRUE,
                                              !.confirmed = c, !.running = FALSE])
        PROVE  Untouched(h)
    BY <1>1, <1>2, <2>1, SMT DEF Shape, Untouched, Sized
  <2>2. Fail(h) => Untouched(h)
    BY <1>1, <1>2, SMT DEF Shape, Fail, Untouched, Sized
  <2>3. Untouched(h)
    <3> HIDE DEF Step
    <3> QED BY <1>16, <2>1, <2>2, Zenon DEF Released
  <2> QED BY <2>3, BooksStay
<1> QED
  BY <1>3, <1>4, <1>5, <1>6, <1>7, <1>8, <1>9, <1>10, <1>11, <1>12, <1>13, <1>14, <1>15, <1>16 DEF Stopper

\* ... nor does the end of a Host.
LEMMA EndBooks ==
  ASSUME NEW V, Shapes(V), NEW h \in Hosts, Books(h),
         Abandon(h) \/ DropHost(h) \/ RetentionDropped(h) \/ OwnerDrained(h)
  PROVE  Books(h)'
<1>1. host[h] \in Shape(V) /\ host \in [Hosts -> Shape(V)]
  BY DEF Shapes
<1>2. Sized(h) /\ host[h].carry \in Nat /\ host[h].frame \in Nat
  BY DEF Books, Sized
<1>3. CASE Abandon(h)
  <2>1. Untouched(h)
    BY <1>1, <1>2, <1>3, SMT DEF Shape, Abandon, Untouched, Sized
  <2> QED BY <2>1, BooksStay
<1>4. CASE DropHost(h)
  <2>1. Untouched(h)
    BY <1>1, <1>2, <1>4, SMT DEF Shape, DropHost, Untouched, Sized
  <2> QED BY <2>1, BooksStay
<1>5. CASE OwnerDrained(h)
  <2>1. Untouched(h)
    BY <1>1, <1>2, <1>5, SMT DEF Shape, OwnerDrained, Untouched, Sized
  <2> QED BY <2>1, BooksStay
<1>6. CASE RetentionDropped(h)
  <2>1. CASE Step(h, [host[h] EXCEPT !.retention = "gone"])
    <3>1. Untouched(h)
      BY <1>1, <1>2, <2>1, SMT DEF Shape, Untouched, Sized
    <3> QED BY <3>1, BooksStay
  <2>2. CASE Step(h, [host[h] EXCEPT !.retention = "gone", !.helper = FALSE])
    <3>1. Untouched(h)
      BY <1>1, <1>2, <2>2, SMT DEF Shape, Untouched, Sized
    <3> QED BY <3>1, BooksStay
  <2>3. CASE Step(h, [host[h] EXCEPT !.retention = "draining"])
    <3>1. Untouched(h)
      BY <1>1, <1>2, <2>3, SMT DEF Shape, Untouched, Sized
    <3> QED BY <3>1, BooksStay
  <2> HIDE DEF Step
  <2> QED BY <1>6, <2>1, <2>2, <2>3, Zenon DEF RetentionDropped
<1> QED
  BY <1>3, <1>4, <1>5, <1>6

\* Every step keeps the books of every Host.
LEMMA StepBooks ==
  ASSUME IInv, \A h \in Hosts : Quiet(h), \A h \in Hosts : Books(h),
         NEW h \in Hosts, HostStep(h), NEW g \in Hosts
  PROVE  Books(g)'
<1>1. PICK V : Shapes(V)
  BY DEF IInv, Shaped
<1>2. CASE g = h
  BY <1>1, <1>2, StarterBooks, ListenerBooks, ProcessorBooks, TokensBooks,
     DesktopBooks, HelpersBooks, StopBooks, EndBooks, Zenon DEF HostStep
<1>3. CASE g # h
  <2>1. host'[g] = host[g]
    BY <1>3, HostStepKeeps DEF Framed
  <2>2. Worked(g)' = Worked(g) /\ Queued(g)' = Queued(g)
    BY <2>1 DEF Worked, BytesOf, Queued
  <2> QED BY <2>1, <2>2 DEF Books, Sized, Balanced
<1> QED
  BY <1>2, <1>3

\* The bytes on the books are those of the frames alive, and never more than may
\* wait, whichever way each frame goes (Budget, Pending, Work and its fields).
THEOREM BytesAreAccounted == Spec => []BytesAccounted
<1> DEFINE AllQuiet == \A h \in Hosts : Quiet(h)
<1> DEFINE AllBooks == \A h \in Hosts : Books(h)
<1>1. Init => AllBooks
  <2> SUFFICES ASSUME Init, NEW h \in Hosts PROVE Books(h)
    OBVIOUS
  <2>1. /\ host[h].pending = 0 /\ host[h].carry = 0 /\ host[h].frame = 0
        /\ host[h].queue = <<>>
        /\ \A s \in Slots : host[h].works[s].bytes = 0
    BY SMT DEF Init, NewHost, FreeWork
  <2>2. Queued(h) = 0
    <3>1. DOMAIN <<>> = {}
      OBVIOUS
    <3> QED BY <2>1, <3>1, TotalEmpty DEF Queued
  <2>3. Worked(h) = 0
    <3> DEFINE f == BytesOf(h)
    <3>1. \A s \in Slots : f[s] = 0
      BY <2>1 DEF BytesOf
    <3> HIDE DEF f
    <3>2. Total(f, Slots) = 0
      BY <3>1, OwnerAssumption, NothingSums
    <3> QED BY <3>2 DEF f, Worked
  <2> QED BY <2>1, <2>2, <2>3, OwnerAssumption DEF Books, Sized, Balanced
<1>2. IInv /\ AllQuiet /\ AllBooks /\ [Next]_vars => AllBooks'
  <2> SUFFICES ASSUME IInv, AllQuiet, AllBooks, [Next]_vars PROVE AllBooks'
    OBVIOUS
  <2>1. CASE UNCHANGED vars
    BY <2>1 DEF vars, Books, Sized, Balanced, Worked, BytesOf, Queued
  <2>2. CASE Next
    BY <2>2, StepBooks DEF Next
  <2> QED
    BY <2>1, <2>2
<1>3. AllBooks => BytesAccounted
  <2> SUFFICES ASSUME NEW h \in Hosts, Books(h)
               PROVE  /\ host[h].pending = host[h].carry + host[h].frame
                           + FoldSeq(+, 0, host[h].queue) + Bytes(host[h].works, Slots)
                      /\ host[h].pending <= QueuedBytes
    BY Zenon DEF BytesAccounted
  <2>1. FoldSeq(+, 0, host[h].queue) = Queued(h)
    BY QueueSum DEF Queued
  <2>2. Bytes(host[h].works, Slots) = Worked(h)
    BY TokenSum DEF Worked, BytesOf
  <2> QED BY <2>1, <2>2 DEF Books, Balanced
<1> QED
  BY <1>1, <1>2, <1>3, Invariant, AlwaysQuiet, PTL DEF Spec
=============================================================================
