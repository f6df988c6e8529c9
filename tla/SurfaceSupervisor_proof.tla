------------------------- MODULE SurfaceSupervisor_proof -------------------------
(***************************************************************************)
(* Proofs about Quick Paste's process (SurfaceSupervisor) and the main     *)
(* window (WindowLifecycle).                                               *)
(*                                                                         *)
(* SurfaceSupervisor, for every number of requests, revisions and          *)
(* sessions.  What SupervisorInv says, part by part:                       *)
(*   - one task at a time holds the lock (Exclusive);                      *)
(*   - only the current session has a child that is up, and a request that *)
(*     starts a child does so when there is none (Single);                 *)
(*   - a revision is given to one request, and what was pasted or is about *)
(*     to be is of a revision that no request holds any more (Fresh);      *)
(*   - the child is told to show its displays in the order they were asked *)
(*     for, and has shown what it says it has (InOrder), and each of them  *)
(*     was asked for by a request that is past asking (OfRequests);        *)
(*   - while a paste is made from the newest display nothing else is left  *)
(*     to be shown, and once the hiding is answered nothing is (Quiet).    *)
(*                                                                         *)
(* Most steps show nothing, ask for nothing new and take nothing back:     *)
(* Calm says how each variable may move in one of those, and lemmas show   *)
(* that this keeps every part of the invariant.  Each action then has a    *)
(* lemma of its own (...Keeps); the few that are not calm (a show that is  *)
(* written, done or heard of, a child that is started) are done in full.   *)
(*                                                                         *)
(* WindowLifecycle, whatever the bounds: no watcher shows the window for a *)
(* request that was made void, because what makes requests void moves the  *)
(* number past all that wait (VoidInv: those that wait are at most the     *)
(* newest, the void ones are below it); and whoever takes the window's     *)
(* life to Opening gives it back, because nobody who leaves the places     *)
(* where it is held leaves it there (OpeningIsHeld).                       *)
(***************************************************************************)
EXTENDS SurfaceSupervisor, WindowLifecycle, TLAPS

(* Types.                                                                  *)
Locking == {"locked", "recycling", "start", "ready", "handoff", "shown", "hidden", "restore",
            "unfocus", "stopping"}
Stages == Locking \cup {"idle", "lock", "failed", "exit", "exiting"}
RequestState == [pc : Stages, kind : {"show", "close", "hide", "stop", "exit"}, rev : Nat,
                 owner : 0 .. MaxSessions, display : Nat, fail : {"none", "error", "focus"}]
ActionState == [pc : {"none", "lock", "state", "hidden", "copy", "complete", "unsent", "stopping"},
                display : Nat, rev : Nat, performed : BOOLEAN]
DismissalState == [pc : {"none", "lock", "restore"}, display : Nat, rev : Nat,
                   reason : {"cancel", "blur"}]
StopperState == [pc : {"none", "lock", "stopping"}, matching : BOOLEAN]
Tags == {"ready", "show", "hide", "unfocus", "paste", "shutdown"} \X Nat
SessionState == [made : BOOLEAN, cancelled : BOOLEAN, display : Nat, shown : BOOLEAN, asked : Nat,
                 reading : BOOLEAN, replies : SUBSET Tags, got : SUBSET Tags]
ChildState == [up : BOOLEAN, display : Nat, open : BOOLEAN, pasting : BOOLEAN, stopped : BOOLEAN]

Hides == {"hide", "unfocus", "paste"} \X Nat
\* What the supervisor says, and what the child says.
DownMessage ==
  {m \in [type : {"initialize", "show", "hide", "result", "shutdown"},
          id : Tags \cup BOOLEAN, display : Nat] :
     /\ m.type = "initialize" => m.id \in {"ready"} \X Nat
     /\ m.type = "hide" => m.id = <<"paste", m.display>> \/ m.id \in {"hide", "unfocus"} \X Nat
     /\ m.type = "shutdown" => m.id \in {"shutdown"} \X Nat}
UpMessage ==
  {m \in [type : {"ready", "failed", "shown", "hidden", "paste", "dismiss", "stopped"},
          id : Tags \cup ({"event", "action"} \X Nat) \cup {"cancel", "blur"}, display : Nat] :
     /\ m.type = "ready" => m.id \in {"ready"} \X Nat
     /\ m.type = "shown" => m.id = <<"show", m.display>>
     /\ m.type = "hidden" => m.id \in Hides
     /\ m.type = "dismiss" => m.id \in {"cancel", "blur"}
     /\ m.type = "stopped" => m.id \in {"shutdown"} \X Nat}

SupervisorTyped ==
  /\ revision \in Nat /\ visible \in Nat /\ requested \in Nat /\ pasted \in Nat
  /\ serial \in BOOLEAN /\ process \in 0 .. MaxSessions
  /\ session \in [Sessions -> SessionState] /\ request \in [Requests -> RequestState]
  /\ action \in [Sessions -> ActionState] /\ dismissal \in [Sessions -> DismissalState]
  /\ stopper \in [Sessions -> StopperState] /\ child \in [Sessions -> ChildState]
  /\ down \in [Sessions -> Seq(DownMessage)] /\ up \in [Sessions -> Seq(UpMessage)]

-----------------------------------------------------------------------------
(* Who holds the lock.                                                     *)

Held(r) == request[r].pc \in Locking
ActionHolds(s) == action[s].pc \in {"state", "hidden", "copy", "stopping"}
DismissalHolds(s) == dismissal[s].pc = "restore"
StopperHolds(s) == stopper[s].pc = "stopping"

Exclusive ==
  /\ \A r \in Requests : Held(r) => serial
  /\ \A s \in Sessions : ActionHolds(s) \/ DismissalHolds(s) \/ StopperHolds(s) => serial
  /\ \A q, r \in Requests : Held(q) /\ Held(r) => q = r
  /\ \A r \in Requests, s \in Sessions :
       Held(r) => ~ActionHolds(s) /\ ~DismissalHolds(s) /\ ~StopperHolds(s)
  /\ \A s, t \in Sessions :
       /\ ActionHolds(s) /\ ActionHolds(t) => s = t
       /\ DismissalHolds(s) /\ DismissalHolds(t) => s = t
       /\ StopperHolds(s) /\ StopperHolds(t) => s = t
       /\ ActionHolds(s) => ~DismissalHolds(t) /\ ~StopperHolds(t)
       /\ DismissalHolds(s) => ~StopperHolds(t)

-----------------------------------------------------------------------------
(* Of the children that were started only the current one is there.        *)

WithChild == {"ready", "handoff", "shown", "hidden", "restore", "unfocus", "stopping", "exiting"}
Single ==
  /\ \A s \in Sessions :
       /\ child[s].up => process = s
       /\ session[s].made /\ ~session[s].cancelled => process = s
       /\ session[s].shown => session[s].made /\ ~session[s].cancelled
       /\ session[s].reading \/ action[s].pc # "none" => session[s].made
  /\ process # 0 => session[process].made
  /\ \A r \in Requests :
       /\ request[r].pc = "start" => process = 0
       /\ request[r].pc = "locked" => process \in {0, request[r].owner}
       /\ request[r].pc \in WithChild => request[r].owner # 0
       /\ request[r].pc \in {"ready", "handoff", "shown"} => session[request[r].owner].made

-----------------------------------------------------------------------------
(* A revision names one display, which is pasted from at most once.        *)

Pasting(s) == action[s].pc \in {"hidden", "copy"}
Fresh ==
  /\ pasted <= revision
  /\ pasted # 0 => \A r \in Requests : request[r].rev # pasted
  /\ \A r \in Requests : request[r].rev <= revision /\ (request[r].pc = "idle" <=> request[r].rev = 0)
  /\ \A q, r \in Requests : request[r].rev # 0 /\ request[r].rev = request[q].rev => q = r
  /\ \A s \in Sessions :
       /\ session[s].display <= revision
       /\ session[s].shown => revision # 0
       /\ session[s].shown /\ session[s].display # 0 =>
            /\ pasted < session[s].display
            /\ \A r \in Requests : request[r].rev # session[s].display
       /\ Pasting(s) =>
            /\ action[s].display = action[s].rev /\ action[s].rev <= revision
            /\ pasted < action[s].display /\ ~session[s].shown
            /\ \A r \in Requests : request[r].rev # action[s].display

-----------------------------------------------------------------------------
(* The messages: the child has done what it has answered, and a display    *)
(* is shown after every earlier one.                                       *)

Asking == {"lock", "locked", "recycling", "start", "ready", "handoff"}
ShowAt(s, i) == i \in 1 .. Len(down[s]) /\ down[s][i].type = "show"
\* The child was asked to show n, or was and has said it has.
Told(s, n) ==
  \/ \E i \in 1 .. Len(up[s]) : up[s][i].type = "shown" /\ up[s][i].id = <<"show", n>>
  \/ <<"show", n>> \in session[s].got
Sent(s, n) ==
  \/ \E i \in Nat : ShowAt(s, i) /\ down[s][i].display = n
  \/ child[s].display = n /\ n # 0
  \/ Told(s, n)
\* It was asked to hide n for a paste, and has said it has.
ToHide(s, n) ==
  \E i \in 1 .. Len(down[s]) : down[s][i].type = "hide" /\ down[s][i].id = <<"paste", n>>
SaidHidden(s, n) ==
  \/ \E i \in 1 .. Len(up[s]) : up[s][i].type = "hidden" /\ up[s][i].id = <<"paste", n>>
  \/ <<"paste", n>> \in session[s].got

InOrder(s) ==
  /\ child[s].open => child[s].up /\ child[s].display # 0
  /\ \A i \in Nat : ShowAt(s, i) => down[s][i].display > child[s].display
  /\ \A i, j \in Nat : i < j /\ ShowAt(s, i) /\ ShowAt(s, j) => down[s][i].display < down[s][j].display
  /\ \A n \in Nat : Told(s, n) =>
       /\ \A i \in Nat : ShowAt(s, i) => down[s][i].display > n
       /\ child[s].display # 0 => child[s].display >= n
OfRequests(s) ==
  /\ \A n \in Nat : Sent(s, n) =>
       n <= revision /\ n # 0 /\ \A r \in Requests : request[r].rev = n => request[r].pc \notin Asking
  /\ \A n \in Nat : ToHide(s, n) \/ SaidHidden(s, n) =>
       /\ n # 0 /\ n <= revision /\ ~(session[s].shown /\ session[s].display = n)
       /\ \A r \in Requests : request[r].rev # n

\* The child has nothing to show any more, and shows nothing but d.
Rests(s, d) == (\A i \in Nat : ~ShowAt(s, i)) /\ child[s].display \in {0, d}
Quiet(s) ==
  /\ session[s].shown /\ session[s].display = revision => Rests(s, revision)
  /\ Pasting(s) /\ action[s].rev = revision /\ ~session[s].cancelled =>
       /\ Rests(s, revision)
       /\ action[s].pc = "copy" \/ SaidHidden(s, revision) => child[s].display = 0

\* The inductive invariant.
SupervisorInv ==
  /\ SupervisorTyped /\ Exclusive /\ Single /\ Fresh
  /\ \A s \in Sessions : InOrder(s) /\ OfRequests(s) /\ Quiet(s)

-----------------------------------------------------------------------------
(* What most steps do: they show nothing, ask for nothing new, and take    *)
(* nothing back.                                                           *)

SessionKept(t) ==
  /\ ~session'[t].cancelled => ~session[t].cancelled
  /\ session'[t].shown => session[t].shown /\ session'[t].display \in {session[t].display, 0}
  /\ session'[t].display \in {session[t].display, 0} \/ session'[t].display <= revision
ActionKept(t) ==
  Pasting(t)' =>
    /\ Pasting(t) /\ action'[t].display = action[t].display /\ action'[t].rev = action[t].rev
    /\ action'[t].pc = "copy" => action[t].pc = "copy" \/ SaidHidden(t, action[t].rev)
DownKept(t) ==
  /\ \E k \in {0, 1} : \A i \in Nat : ShowAt(t, i)' => ShowAt(t, i + k) /\ down'[t][i] = down[t][i + k]
  /\ \A n \in Nat : ToHide(t, n)' => ToHide(t, n)
AnswersKept(t) == \A n \in Nat : (Told(t, n)' => Told(t, n)) /\ (SaidHidden(t, n)' => SaidHidden(t, n))
ChildKept(t) ==
  /\ child'[t].display \in {child[t].display, 0}
  /\ child'[t].open => child[t].open /\ child'[t].up /\ child'[t].display = child[t].display
Kept(t) == SessionKept(t) /\ ActionKept(t) /\ DownKept(t) /\ AnswersKept(t) /\ ChildKept(t)

RequestsKept ==
  /\ revision <= revision'
  /\ \A q \in Requests :
       /\ request'[q].pc = "idle" <=> request'[q].rev = 0
       /\ \/ request'[q].rev = 0
          \/ request'[q].rev = request[q].rev /\ (request'[q].pc \in Asking => request[q].pc \in Asking)
          \/ request'[q].rev = revision' /\ revision' > revision
  /\ \A p, q \in Requests : request'[p].rev > revision /\ request'[q].rev > revision => p = q

\* No child is started, and none is taken for the current one.
SessionStays(t) ==
  /\ session[t].made => session'[t].made
  /\ session'[t].made /\ ~session'[t].cancelled => session[t].made /\ ~session[t].cancelled
  /\ session'[t].shown => session'[t].made /\ ~session'[t].cancelled
  /\ session'[t].reading => session[t].reading
RequestStays(q) ==
  /\ request'[q].pc = "start" => process' = 0
  /\ request'[q].pc = "locked" => process' \in {0, request'[q].owner}
  /\ request'[q].pc \in WithChild => request'[q].owner # 0
  /\ request'[q].pc \in {"ready", "handoff", "shown"} => session[request'[q].owner].made
Stays ==
  /\ \A t \in Sessions : /\ SessionStays(t) /\ (action'[t].pc # "none" => session[t].made)
                         /\ child'[t].up => child[t].up
  /\ \A q \in Requests : RequestStays(q)
  /\ process' = process \/ (process' = 0 /\ ~child'[process].up /\ session'[process].cancelled)

Calm == (\A t \in Sessions : Kept(t)) /\ RequestsKept /\ Stays /\ pasted' = pasted

LEMMA DownTyped ==
  ASSUME SupervisorTyped, NEW s \in Sessions, NEW i \in 1 .. Len(down[s])
  PROVE  down[s][i] \in DownMessage /\ down[s][i].display \in Nat
<1>1. down[s] \in Seq(DownMessage)
  BY DEF SupervisorTyped
<1>2. down[s][i] \in DownMessage
  BY <1>1
<1> QED
  BY <1>2 DEF DownMessage

LEMMA UpTyped ==
  ASSUME SupervisorTyped, NEW s \in Sessions, NEW i \in 1 .. Len(up[s])
  PROVE  up[s][i] \in UpMessage /\ up[s][i].display \in Nat
<1>1. up[s] \in Seq(UpMessage)
  BY DEF SupervisorTyped
<1>2. up[s][i] \in UpMessage
  BY <1>1
<1> QED
  BY <1>2 DEF UpMessage

LEMMA StaysSingle == ASSUME SupervisorInv, Stays, SupervisorTyped' PROVE Single'
<1>1. SupervisorTyped /\ Single
  BY DEF SupervisorInv
<1>2. ASSUME NEW s \in Sessions
      PROVE  /\ child'[s].up => process' = s
             /\ session'[s].made /\ ~session'[s].cancelled => process' = s
             /\ session'[s].shown => session'[s].made /\ ~session'[s].cancelled
             /\ session'[s].reading \/ action'[s].pc # "none" => session'[s].made
  BY <1>1, <1>2 DEF Single, Stays, SessionStays, SupervisorTyped
<1>3. process' # 0 => session'[process'].made
  BY <1>1 DEF Single, Stays, SessionStays, SupervisorTyped, Sessions
<1>4. ASSUME NEW r \in Requests
      PROVE  /\ request'[r].pc = "start" => process' = 0
             /\ request'[r].pc = "locked" => process' \in {0, request'[r].owner}
             /\ request'[r].pc \in WithChild => request'[r].owner # 0
             /\ request'[r].pc \in {"ready", "handoff", "shown"} => session'[request'[r].owner].made
  <2>1. request'[r].owner # 0 => request'[r].owner \in Sessions
    BY DEF SupervisorTyped, RequestState, Sessions
  <2> QED
    BY <2>1 DEF Stays, RequestStays, SessionStays, WithChild
<1> QED
  BY <1>2, <1>3, <1>4 DEF Single

LEMMA KeptNumbers == ASSUME SupervisorInv, RequestsKept, SupervisorTyped'
  PROVE  /\ revision \in Nat /\ revision' \in Nat /\ revision <= revision' /\ pasted \in Nat
         /\ \A r \in Requests : request[r].rev \in Nat /\ request'[r].rev \in Nat
         /\ \A s \in Sessions : session[s].display \in Nat /\ session'[s].display \in Nat
                               /\ action[s].rev \in Nat /\ action[s].display \in Nat
  BY DEF SupervisorInv, RequestsKept, SupervisorTyped, SessionState, RequestState, ActionState

LEMMA KeptRequests == ASSUME SupervisorInv, RequestsKept, SupervisorTyped'
  PROVE  /\ \A r \in Requests : /\ request'[r].rev <= revision' /\ (request'[r].pc = "idle" <=> request'[r].rev = 0)
                                /\ request'[r].rev \in {request[r].rev, 0} \/ request'[r].rev > revision
         /\ \A q, r \in Requests : request'[r].rev # 0 /\ request'[r].rev = request'[q].rev => q = r
<1>1. SupervisorTyped /\ Fresh
  BY DEF SupervisorInv
<1>2. \A r \in Requests : /\ request'[r].rev <= revision' /\ (request'[r].pc = "idle" <=> request'[r].rev = 0)
                          /\ request'[r].rev \in {request[r].rev, 0} \/ request'[r].rev > revision
  BY <1>1, KeptNumbers DEF Fresh, RequestsKept
<1>3. ASSUME NEW q \in Requests, NEW r \in Requests, request'[r].rev # 0, request'[r].rev = request'[q].rev
      PROVE  q = r
  <2>1. CASE request'[r].rev > revision
    BY <1>3, <2>1 DEF RequestsKept
  <2>2. CASE ~(request'[r].rev > revision)
    BY <1>1, <1>2, <1>3, <2>2 DEF Fresh
  <2> QED
    BY <2>1, <2>2
<1> QED
  BY <1>2, <1>3

LEMMA KeptFresh ==
  ASSUME SupervisorInv, RequestsKept, pasted' = pasted, SupervisorTyped',
         \A t \in Sessions : SessionKept(t) /\ ActionKept(t)
  PROVE  Fresh'
<1>1. SupervisorTyped /\ Fresh
  BY DEF SupervisorInv
<1>2. pasted' <= revision' /\ (pasted' # 0 => \A r \in Requests : request'[r].rev # pasted')
  BY <1>1, KeptNumbers, KeptRequests DEF Fresh
<1>3. ASSUME NEW s \in Sessions
      PROVE  /\ session'[s].display <= revision'
             /\ session'[s].shown => revision' # 0
  BY <1>1, KeptNumbers DEF Fresh, SessionKept
<1>4. ASSUME NEW s \in Sessions, session'[s].shown, session'[s].display # 0
      PROVE  /\ pasted' < session'[s].display
             /\ \A r \in Requests : request'[r].rev # session'[s].display
  <2>1. session'[s].display = session[s].display /\ session[s].shown /\ session[s].display <= revision
    BY <1>1, <1>4 DEF SessionKept, Fresh
  <2> QED
    BY <1>1, <1>4, <2>1, KeptNumbers, KeptRequests DEF Fresh
<1>5. ASSUME NEW s \in Sessions, Pasting(s)'
      PROVE  /\ action'[s].display = action'[s].rev /\ action'[s].rev <= revision'
             /\ pasted' < action'[s].display /\ ~session'[s].shown
             /\ \A r \in Requests : request'[r].rev # action'[s].display
  <2>1. Pasting(s) /\ action'[s].display = action[s].display /\ action'[s].rev = action[s].rev
    BY <1>5 DEF ActionKept
  <2>2. ~session'[s].shown
    BY <1>1, <2>1 DEF Fresh, SessionKept
  <2>3. /\ action[s].display = action[s].rev /\ action[s].rev <= revision /\ pasted < action[s].display
        /\ \A r \in Requests : request[r].rev # action[s].display
    BY <1>1, <2>1 DEF Fresh
  <2> QED
    BY <2>1, <2>2, <2>3, KeptNumbers, KeptRequests
<1> QED
  BY <1>2, <1>3, <1>4, <1>5, KeptRequests DEF Fresh

LEMMA KeptInOrder ==
  ASSUME SupervisorInv, SupervisorTyped', NEW s \in Sessions, ChildKept(s),
         \E k \in {0, 1} : \A i \in Nat : ShowAt(s, i)' => ShowAt(s, i + k) /\ down'[s][i] = down[s][i + k],
         \A n \in Nat : Told(s, n)' => Told(s, n)
  PROVE  InOrder(s)'
<1>1. SupervisorTyped /\ InOrder(s)
  BY DEF SupervisorInv
<1>2. PICK k \in {0, 1} : \A i \in Nat : ShowAt(s, i)' => ShowAt(s, i + k) /\ down'[s][i] = down[s][i + k]
  OBVIOUS
<1>3. /\ child'[s].display \in {child[s].display, 0} /\ child[s].display \in Nat
      /\ child'[s].open => child[s].open /\ child'[s].up /\ child'[s].display = child[s].display
  BY <1>1 DEF ChildKept, SupervisorTyped, ChildState
<1>4. \A n \in Nat : Told(s, n)' => Told(s, n)
  OBVIOUS
<1>5. ASSUME NEW i \in Nat, ShowAt(s, i)'
      PROVE  /\ i + k \in Nat /\ ShowAt(s, i + k) /\ down'[s][i].display = down[s][i + k].display
             /\ down[s][i + k].display \in Nat
  <2>1. ShowAt(s, i + k) /\ down'[s][i] = down[s][i + k]
    BY <1>2, <1>5
  <2> QED
    BY <1>1, <1>5, <2>1, DownTyped DEF ShowAt
<1>6. \A i \in Nat : ShowAt(s, i)' => down'[s][i].display > child'[s].display
  BY <1>1, <1>3, <1>5 DEF InOrder
<1>7. \A i, j \in Nat : i < j /\ ShowAt(s, i)' /\ ShowAt(s, j)' => down'[s][i].display < down'[s][j].display
  BY <1>1, <1>5 DEF InOrder
<1>8. ASSUME NEW n \in Nat, Told(s, n)'
      PROVE  /\ \A i \in Nat : ShowAt(s, i)' => down'[s][i].display > n
             /\ child'[s].display # 0 => child'[s].display >= n
  BY <1>1, <1>3, <1>4, <1>5, <1>8 DEF InOrder
<1> QED
  BY <1>1, <1>3, <1>6, <1>7, <1>8 DEF InOrder

LEMMA KeptSent ==
  ASSUME NEW s \in Sessions, Kept(s) PROVE \A n \in Nat : Sent(s, n)' => Sent(s, n)
<1>1. ASSUME NEW n \in Nat, Sent(s, n)' PROVE Sent(s, n)
  <2>1. CASE Told(s, n)'
    BY <2>1 DEF Kept, AnswersKept, Sent
  <2>2. CASE child'[s].display = n /\ n # 0
    BY <2>2 DEF Kept, ChildKept, Sent
  <2>3. CASE \E i \in Nat : ShowAt(s, i)' /\ down'[s][i].display = n
    BY <2>3 DEF Kept, DownKept, Sent
  <2> QED
    BY <1>1, <2>1, <2>2, <2>3 DEF Sent
<1> QED
  BY <1>1

LEMMA KeptOfRequests ==
  ASSUME SupervisorInv, SupervisorTyped', RequestsKept, NEW s \in Sessions, SessionKept(s),
         \A n \in Nat : Sent(s, n)' => Sent(s, n),
         \A n \in Nat : ToHide(s, n)' \/ SaidHidden(s, n)' => ToHide(s, n) \/ SaidHidden(s, n)
  PROVE  OfRequests(s)'
<1>1. SupervisorTyped /\ OfRequests(s) /\ revision \in Nat /\ revision' \in Nat /\ revision <= revision'
  BY KeptNumbers DEF SupervisorInv
<1>2. ASSUME NEW n \in Nat, Sent(s, n)'
      PROVE  n <= revision' /\ n # 0 /\ \A r \in Requests : request'[r].rev = n => request'[r].pc \notin Asking
  <2>1. n <= revision /\ n # 0 /\ \A r \in Requests : request[r].rev = n => request[r].pc \notin Asking
    BY <1>1, <1>2 DEF OfRequests
  <2> QED
    BY <1>1, <2>1 DEF RequestsKept
<1>3. ASSUME NEW n \in Nat, ToHide(s, n)' \/ SaidHidden(s, n)'
      PROVE  /\ n # 0 /\ n <= revision' /\ ~(session'[s].shown /\ session'[s].display = n)
             /\ \A r \in Requests : request'[r].rev # n
  <2>1. /\ n # 0 /\ n <= revision /\ ~(session[s].shown /\ session[s].display = n)
        /\ \A r \in Requests : request[r].rev # n
    BY <1>1, <1>3 DEF OfRequests
  <2>2. ~(session'[s].shown /\ session'[s].display = n)
    BY <2>1 DEF SessionKept
  <2> QED
    BY <1>1, <2>1, <2>2, KeptNumbers, KeptRequests
<1> QED
  BY <1>2, <1>3 DEF OfRequests

LEMMA KeptQuiet ==
  ASSUME SupervisorInv, SupervisorTyped', RequestsKept, NEW s \in Sessions,
         SessionKept(s), ActionKept(s), DownKept(s), child'[s].display \in {child[s].display, 0},
         \A n \in Nat : SaidHidden(s, n)' => SaidHidden(s, n)
  PROVE  Quiet(s)'
<1>1. /\ SupervisorTyped /\ Fresh /\ Quiet(s)
      /\ revision \in Nat /\ revision' \in Nat /\ revision <= revision'
  BY KeptNumbers DEF SupervisorInv
<1>2. Rests(s, revision) /\ revision' = revision => Rests(s, revision)'
  BY DEF Rests, DownKept
<1>3. ASSUME session'[s].shown, session'[s].display = revision' PROVE Rests(s, revision)'
  <2>1. session[s].shown /\ revision # 0 /\ session[s].display \in Nat /\ session[s].display <= revision
    BY <1>1, <1>3 DEF Fresh, SessionKept, SupervisorTyped, SessionState
  <2>2. session'[s].display \in {session[s].display, 0}
    BY <1>3 DEF SessionKept
  <2>3. session[s].display = revision /\ revision' = revision
    BY <1>1, <1>3, <2>1, <2>2
  <2> QED
    BY <1>1, <1>2, <2>1, <2>3 DEF Quiet
<1>4. ASSUME Pasting(s)', action'[s].rev = revision', ~session'[s].cancelled
      PROVE  /\ Rests(s, revision)'
             /\ action'[s].pc = "copy" \/ SaidHidden(s, revision)' => child'[s].display = 0
  <2>1. Pasting(s) /\ action'[s].rev = action[s].rev
    BY <1>4 DEF ActionKept
  <2>2. ~session[s].cancelled
    BY <1>4 DEF SessionKept
  <2>3. action[s].rev \in Nat /\ action[s].rev <= revision
    BY <1>1, <2>1 DEF Fresh, SupervisorTyped, ActionState
  <2>4. revision' = revision
    BY <1>1, <1>4, <2>1, <2>3
  <2>5. child'[s].display \in {child[s].display, 0} /\ (SaidHidden(s, revision)' => SaidHidden(s, revision))
    BY <1>1, <2>4
  <2>6. action'[s].pc = "copy" => action[s].pc = "copy" \/ SaidHidden(s, revision)
    BY <1>4, <2>1, <2>4 DEF ActionKept
  <2> QED
    BY <1>1, <1>2, <1>4, <2>1, <2>2, <2>4, <2>5, <2>6 DEF Quiet
<1> QED
  BY <1>3, <1>4 DEF Quiet

LEMMA KeptShows ==
  ASSUME SupervisorInv, SupervisorTyped', RequestsKept, NEW s \in Sessions, Kept(s)
  PROVE  InOrder(s)' /\ OfRequests(s)' /\ Quiet(s)'
<1>1. SessionKept(s) /\ ActionKept(s) /\ DownKept(s) /\ AnswersKept(s) /\ ChildKept(s)
  BY DEF Kept
<1>2. /\ \A n \in Nat : ToHide(s, n)' => ToHide(s, n)
      /\ \A n \in Nat : SaidHidden(s, n)' => SaidHidden(s, n)
      /\ child'[s].display \in {child[s].display, 0}
  BY <1>1 DEF DownKept, AnswersKept, ChildKept
<1>3. InOrder(s)'
  BY <1>1, KeptInOrder DEF AnswersKept, DownKept
<1>4. OfRequests(s)'
  BY <1>1, <1>2, KeptSent, KeptOfRequests
<1>5. Quiet(s)'
  BY <1>1, <1>2, KeptQuiet
<1> QED
  BY <1>3, <1>4, <1>5

LEMMA CalmKeeps == ASSUME SupervisorInv, Calm, SupervisorTyped', Exclusive' PROVE SupervisorInv'
<1>1. ASSUME NEW s \in Sessions PROVE InOrder(s)' /\ OfRequests(s)' /\ Quiet(s)'
  BY KeptShows DEF Calm
<1>2. Single' /\ Fresh'
  BY StaysSingle, KeptFresh DEF Calm, Kept
<1> QED
  BY <1>1, <1>2 DEF SupervisorInv

-----------------------------------------------------------------------------
(* Who takes the lock found it free, and who holds it gives it back.       *)

LEMMA NobodyLocks ==
  ASSUME Exclusive, serial' = serial,
         \A r \in Requests : Held(r)' => Held(r),
         \A s \in Sessions : /\ ActionHolds(s)' => ActionHolds(s)
                             /\ DismissalHolds(s)' => DismissalHolds(s)
                             /\ StopperHolds(s)' => StopperHolds(s)
  PROVE  Exclusive'
  BY DEF Exclusive

LEMMA RequestTurn ==
  ASSUME Exclusive, UNCHANGED <<action, dismissal, stopper>>,
         NEW r \in Requests, \A q \in Requests \ {r} : request'[q] = request[q],
         \/ (Held(r)' => Held(r)) /\ serial' = serial
         \/ ~serial /\ serial'
         \/ Held(r) /\ ~Held(r)'
  PROVE  Exclusive'
  BY DEF Exclusive, Held, ActionHolds, DismissalHolds, StopperHolds

LEMMA ActionTurn ==
  ASSUME Exclusive, UNCHANGED <<request, dismissal, stopper>>,
         NEW s \in Sessions, \A t \in Sessions \ {s} : action'[t] = action[t],
         \/ (ActionHolds(s)' => ActionHolds(s)) /\ serial' = serial
         \/ ~serial /\ serial'
         \/ ActionHolds(s) /\ ~ActionHolds(s)'
  PROVE  Exclusive'
  BY DEF Exclusive, Held, ActionHolds, DismissalHolds, StopperHolds

LEMMA DismissalTurn ==
  ASSUME Exclusive, UNCHANGED <<request, action, stopper>>,
         NEW s \in Sessions, \A t \in Sessions \ {s} : dismissal'[t] = dismissal[t],
         \/ (DismissalHolds(s)' => DismissalHolds(s)) /\ serial' = serial
         \/ ~serial /\ serial'
         \/ DismissalHolds(s) /\ ~DismissalHolds(s)'
  PROVE  Exclusive'
  BY DEF Exclusive, Held, ActionHolds, DismissalHolds, StopperHolds

LEMMA StopperTurn ==
  ASSUME Exclusive, UNCHANGED <<request, action, dismissal>>,
         NEW s \in Sessions, \A t \in Sessions \ {s} : stopper'[t] = stopper[t],
         \/ (StopperHolds(s)' => StopperHolds(s)) /\ serial' = serial
         \/ ~serial /\ serial'
         \/ StopperHolds(s) /\ ~StopperHolds(s)'
  PROVE  Exclusive'
  BY DEF Exclusive, Held, ActionHolds, DismissalHolds, StopperHolds
-----------------------------------------------------------------------------
(* What the steps do to a session.                                         *)

SessionCalm == /\ session' \in [Sessions -> SessionState]
               /\ \A t \in Sessions : SessionKept(t) /\ SessionStays(t)
HearsNothing == \A t \in Sessions : session'[t].got \subseteq session[t].got

LEMMA SessionEdited ==
  ASSUME SupervisorInv, NEW s \in Sessions, NEW o \in SessionState, session' = [session EXCEPT ![s] = o],
         session[s].made => o.made,
         ~o.cancelled => ~session[s].cancelled,
         o.made /\ ~o.cancelled => session[s].made,
         o.shown => session[s].shown /\ o.made /\ ~o.cancelled /\ o.display \in {session[s].display, 0},
         o.reading => session[s].reading,
         o.display \in {session[s].display, 0} \/ o.display <= revision
  PROVE  /\ SessionCalm
         /\ session'[s] = o /\ \A t \in Sessions \ {s} : session'[t] = session[t]
         /\ o.got \subseteq session[s].got => HearsNothing
<1>1. session \in [Sessions -> SessionState] /\ Single
  BY DEF SupervisorInv, SupervisorTyped
<1>2. session'[s] = o /\ \A t \in Sessions \ {s} : session'[t] = session[t]
  BY <1>1
<1>3. ASSUME NEW t \in Sessions PROVE SessionKept(t)
  BY <1>2 DEF SessionKept
<1>4. ASSUME NEW t \in Sessions PROVE SessionStays(t)
  BY <1>1, <1>2 DEF SessionStays, Single
<1>5. o.got \subseteq session[s].got => HearsNothing
  BY <1>2 DEF HearsNothing
<1> QED
  BY <1>1, <1>2, <1>3, <1>4, <1>5 DEF SessionCalm

LEMMA Cancels ==
  ASSUME SupervisorInv, NEW s \in Sessions, session' = Cancelled(s)
  PROVE  /\ SessionCalm /\ HearsNothing
         /\ session'[s].cancelled
<1> DEFINE old == session[s]
           o == [old EXCEPT !.cancelled = TRUE, !.display = 0, !.shown = FALSE]
<1>1. old \in SessionState
  BY DEF SupervisorInv, SupervisorTyped
<1>2. session' = [session EXCEPT ![s] = o]
  BY DEF Cancelled
<1>3. o \in SessionState
  BY <1>1 DEF SessionState
<1>4. /\ o.made = old.made /\ o.cancelled /\ ~o.shown /\ o.reading = old.reading /\ o.display = 0
      /\ o.got = old.got
  BY <1>1 DEF SessionState
<1> HIDE DEF o
<1> QED
  BY <1>2, <1>3, <1>4, SessionEdited

LEMMA Forgets ==
  ASSUME SupervisorInv, NEW s \in Sessions, NEW id, NEW n \in Nat, NEW d \in {session[s].display, 0},
         \/ session' = Forgot(s, id)
         \/ session' = [Forgot(s, id) EXCEPT ![s].asked = n]
         \/ session' = [Forgot(s, id) EXCEPT ![s].display = d]
  PROVE  SessionCalm /\ HearsNothing
<1> DEFINE old == session[s]
           o == [old EXCEPT !.replies = @ \ {id}, !.got = @ \ {id}]
           a == [old EXCEPT !.replies = @ \ {id}, !.got = @ \ {id}, !.asked = n]
           b == [old EXCEPT !.replies = @ \ {id}, !.got = @ \ {id}, !.display = d]
<1>1. old \in SessionState /\ d \in Nat
  BY DEF SupervisorInv, SupervisorTyped, SessionState
<1>2. \/ session' = [session EXCEPT ![s] = o]
      \/ session' = [session EXCEPT ![s] = a]
      \/ session' = [session EXCEPT ![s] = b]
  BY <1>1 DEF Forgot, SupervisorInv, SupervisorTyped
<1>3. o \in SessionState /\ a \in SessionState /\ b \in SessionState
  BY <1>1 DEF SessionState
<1>4. /\ o.made = old.made /\ o.cancelled = old.cancelled /\ o.shown = old.shown
      /\ o.reading = old.reading /\ o.display = old.display /\ o.got = old.got \ {id}
  BY <1>1 DEF SessionState
<1>5. /\ a.made = old.made /\ a.cancelled = old.cancelled /\ a.shown = old.shown
      /\ a.reading = old.reading /\ a.display = old.display /\ a.got = old.got \ {id}
  BY <1>1 DEF SessionState
<1>6. /\ b.made = old.made /\ b.cancelled = old.cancelled /\ b.shown = old.shown
      /\ b.reading = old.reading /\ b.display = d /\ b.got = old.got \ {id}
  BY <1>1 DEF SessionState
<1>7. old.shown => old.made /\ ~old.cancelled
  BY DEF SupervisorInv, Single
<1> HIDE DEF o, a, b
<1>8. CASE session' = [session EXCEPT ![s] = o]
  BY <1>3, <1>4, <1>7, <1>8, SessionEdited, ZenonT(30)
<1>9. CASE session' = [session EXCEPT ![s] = a]
  BY <1>3, <1>5, <1>7, <1>9, SessionEdited, ZenonT(30)
<1>10. CASE session' = [session EXCEPT ![s] = b]
  BY <1>3, <1>6, <1>7, <1>10, SessionEdited, ZenonT(30)
<1> QED
  BY <1>2, <1>8, <1>9, <1>10

LEMMA Waits ==
  ASSUME SupervisorInv, NEW s \in Sessions, NEW id \in Tags, NEW n \in Nat,
         \/ session' = Waiting(s, id)
         \/ session' = [Waiting(s, id) EXCEPT ![s].asked = n]
         \/ session' = [Waiting(s, id) EXCEPT ![s].shown = FALSE]
         \/ session' = [session EXCEPT ![s].asked = n]
  PROVE  SessionCalm /\ HearsNothing
         /\ \A t \in Sessions \ {s} : session'[t] = session[t]
         /\ session'[s].cancelled = session[s].cancelled /\ session'[s].display = session[s].display
<1> DEFINE old == session[s]
           o == [old EXCEPT !.replies = @ \cup {id}]
           a == [old EXCEPT !.replies = @ \cup {id}, !.asked = n]
           b == [old EXCEPT !.replies = @ \cup {id}, !.shown = FALSE]
           c == [old EXCEPT !.asked = n]
<1>1. old \in SessionState
  BY DEF SupervisorInv, SupervisorTyped
<1>2. \/ session' = [session EXCEPT ![s] = o]
      \/ session' = [session EXCEPT ![s] = a]
      \/ session' = [session EXCEPT ![s] = b]
      \/ session' = [session EXCEPT ![s] = c]
  BY <1>1 DEF Waiting, SupervisorInv, SupervisorTyped
<1>3. o \in SessionState /\ a \in SessionState /\ b \in SessionState /\ c \in SessionState
  BY <1>1 DEF SessionState
<1>4. \A x \in {o, a, b, c} :
        /\ x.made = old.made /\ x.cancelled = old.cancelled /\ (x.shown => old.shown)
        /\ x.reading = old.reading /\ x.display = old.display /\ x.got = old.got
  BY <1>1 DEF SessionState
<1>5. old.shown => old.made /\ ~old.cancelled
  BY DEF SupervisorInv, Single
<1>6. PICK x \in {o, a, b, c} : session' = [session EXCEPT ![s] = x]
  BY <1>2
<1>7. x \in SessionState
  BY <1>3
<1>8. /\ x.made = old.made /\ x.cancelled = old.cancelled /\ (x.shown => old.shown)
      /\ x.reading = old.reading /\ x.display = old.display /\ x.got = old.got
  BY <1>4
<1>9. /\ old.made => x.made
      /\ ~x.cancelled => ~old.cancelled
      /\ x.made /\ ~x.cancelled => old.made
      /\ x.shown => old.shown /\ x.made /\ ~x.cancelled /\ x.display \in {old.display, 0}
      /\ x.reading => old.reading
      /\ x.display \in {old.display, 0} /\ x.got \subseteq old.got
  BY <1>5, <1>8
<1> HIDE DEF o, a, b, c
<1>10. /\ SessionCalm /\ HearsNothing
      /\ session'[s] = x /\ \A t \in Sessions \ {s} : session'[t] = session[t]
  BY <1>6, <1>7, <1>9, SessionEdited
<1> QED
  BY <1>8, <1>10

LEMMA Clears ==
  ASSUME SupervisorInv, NEW s \in Sessions, NEW d \in {session[s].display, 0},
         \/ session' = [session EXCEPT ![s].display = d]
         \/ session' = [session EXCEPT ![s].display = 0, ![s].shown = FALSE]
  PROVE  SessionCalm /\ HearsNothing
<1> DEFINE old == session[s]
           o == [old EXCEPT !.display = d]
           a == [old EXCEPT !.display = 0, !.shown = FALSE]
<1>1. old \in SessionState /\ d \in Nat
  BY DEF SupervisorInv, SupervisorTyped, SessionState
<1>2. \/ session' = [session EXCEPT ![s] = o]
      \/ session' = [session EXCEPT ![s] = a]
  BY <1>1 DEF SupervisorInv, SupervisorTyped
<1>3. o \in SessionState /\ a \in SessionState
  BY <1>1 DEF SessionState
<1>4. \A x \in {o, a} :
        /\ x.made = old.made /\ x.cancelled = old.cancelled /\ (x.shown => old.shown)
        /\ x.reading = old.reading /\ x.display \in {old.display, 0} /\ x.got = old.got
  BY <1>1 DEF SessionState
<1>5. old.shown => old.made /\ ~old.cancelled
  BY DEF SupervisorInv, Single
<1>6. PICK x \in {o, a} : session' = [session EXCEPT ![s] = x]
  BY <1>2
<1>7. x \in SessionState
  BY <1>3
<1>8. /\ x.made = old.made /\ x.cancelled = old.cancelled /\ (x.shown => old.shown)
      /\ x.reading = old.reading /\ x.display \in {old.display, 0} /\ x.got = old.got
  BY <1>4
<1>9. /\ old.made => x.made
      /\ ~x.cancelled => ~old.cancelled
      /\ x.made /\ ~x.cancelled => old.made
      /\ x.shown => old.shown /\ x.made /\ ~x.cancelled /\ x.display \in {old.display, 0}
      /\ x.reading => old.reading
      /\ x.display \in {old.display, 0} /\ x.got \subseteq old.got
  BY <1>5, <1>8
<1> HIDE DEF o, a
<1> QED
  BY <1>6, <1>7, <1>9, SessionEdited

LEMMA Resets ==
  ASSUME SupervisorInv, NEW s \in Sessions,
         \/ session' = [session EXCEPT ![s] = [NewSession EXCEPT !.made = TRUE, !.cancelled = TRUE]]
         \/ session' = [Cancelled(s) EXCEPT ![s].reading = FALSE]
  PROVE  SessionCalm /\ HearsNothing /\ session'[s].cancelled
<1> DEFINE old == session[s]
           o == [NewSession EXCEPT !.made = TRUE, !.cancelled = TRUE]
           a == [old EXCEPT !.cancelled = TRUE, !.display = 0, !.shown = FALSE, !.reading = FALSE]
<1>1. old \in SessionState
  BY DEF SupervisorInv, SupervisorTyped
<1>2. \/ session' = [session EXCEPT ![s] = o]
      \/ session' = [session EXCEPT ![s] = a]
  BY <1>1 DEF SupervisorInv, SupervisorTyped, Cancelled
<1>3. /\ NewSession \in SessionState /\ ~NewSession.shown /\ ~NewSession.reading
      /\ NewSession.display = 0 /\ NewSession.got = {}
  BY DEF NewSession, SessionState
<1>4. o \in SessionState /\ a \in SessionState
  BY <1>1, <1>3 DEF SessionState
<1>5. a.made = old.made /\ a.cancelled /\ ~a.shown /\ ~a.reading /\ a.display = 0 /\ a.got = old.got
  BY <1>1 DEF SessionState
<1>6. o.made /\ o.cancelled /\ ~o.shown /\ ~o.reading /\ o.display = 0 /\ o.got = {}
  BY <1>3 DEF SessionState
<1> HIDE DEF o, a
<1>7. CASE session' = [session EXCEPT ![s] = o]
  <2>1. SessionCalm /\ session'[s] = o /\ HearsNothing
    BY <1>4, <1>6, <1>7, SessionEdited
  <2> QED
    BY <1>6, <2>1
<1>8. CASE session' = [session EXCEPT ![s] = a]
  <2>1. SessionCalm /\ session'[s] = a /\ HearsNothing
    BY <1>4, <1>5, <1>8, SessionEdited, ZenonT(30)
  <2> QED
    BY <1>5, <2>1
<1> QED
  BY <1>2, <1>7, <1>8

-----------------------------------------------------------------------------
(* What the steps do to a request.                                         *)

RequestCalm == /\ request' \in [Requests -> RequestState] /\ RequestsKept
               /\ \A q \in Requests : RequestStays(q)

LEMMA RequestEdited ==
  ASSUME SupervisorInv, revision' \in {revision, revision + 1}, process' \in {process, 0}, NEW r \in Requests, NEW o \in RequestState,
         request' = [request EXCEPT ![r] = o],
         \/ o.rev = request[r].rev /\ o.pc # "idle" /\ request[r].pc # "idle"
         \/ o.rev = 0 /\ o.pc = "idle",
         o.pc \in Asking => request[r].pc \in Asking,
         o.pc = "start" => process' = 0,
         o.pc = "locked" => process' \in {0, o.owner},
         o.pc \in WithChild => o.owner # 0,
         o.pc \in {"ready", "handoff", "shown"} => session[o.owner].made
  PROVE  /\ RequestCalm
         /\ request'[r] = o /\ \A q \in Requests \ {r} : request'[q] = request[q]
<1>1. request \in [Requests -> RequestState] /\ Single /\ Fresh /\ revision \in Nat
  BY DEF SupervisorInv, SupervisorTyped
<1>2. request'[r] = o /\ \A q \in Requests \ {r} : request'[q] = request[q]
  BY <1>1
<1>3. ASSUME NEW q \in Requests \ {r} PROVE RequestStays(q)
  BY <1>1, <1>2 DEF Single, RequestStays
<1>4. RequestStays(r)
  BY <1>2 DEF RequestStays
<1>5. \A q \in Requests : request[q].rev \in Nat /\ request[q].rev <= revision
  BY <1>1 DEF Fresh, RequestState
<1>6. ASSUME NEW q \in Requests
      PROVE  /\ request'[q].pc = "idle" <=> request'[q].rev = 0
             /\ \/ request'[q].rev = 0
                \/ request'[q].rev = request[q].rev /\ (request'[q].pc \in Asking => request[q].pc \in Asking)
             /\ ~(request'[q].rev > revision)
  BY <1>1, <1>2, <1>5 DEF Fresh
<1>7. RequestsKept
  BY <1>1, <1>6 DEF RequestsKept
<1> QED
  BY <1>1, <1>2, <1>3, <1>4, <1>7 DEF RequestCalm

LEMMA RequestsSame ==
  ASSUME SupervisorInv, revision' \in {revision, revision + 1}, process' \in {process, 0}, UNCHANGED request
  PROVE  RequestCalm
<1>1. request \in [Requests -> RequestState] /\ Single /\ Fresh /\ revision \in Nat
  BY DEF SupervisorInv, SupervisorTyped
<1>2. RequestsKept
  BY <1>1 DEF RequestsKept, Fresh, RequestState
<1>3. \A q \in Requests : RequestStays(q)
  BY <1>1 DEF Single, RequestStays
<1>4. request' \in [Requests -> RequestState]
  BY <1>1
<1> QED
  BY <1>2, <1>3, <1>4 DEF RequestCalm

LEMMA RequestGoes ==
  ASSUME SupervisorInv, revision' \in {revision, revision + 1}, process' \in {process, 0}, NEW r \in Requests, request[r].pc # "idle",
         NEW pc \in Stages \ {"idle"}, NEW f \in {"none", "error", "focus"},
         \/ request' = [request EXCEPT ![r].pc = pc]
         \/ request' = [request EXCEPT ![r].pc = pc, ![r].fail = f],
         pc \notin Asking,
         pc \in WithChild => request[r].owner # 0,
         pc = "shown" => session[request[r].owner].made
  PROVE  /\ RequestCalm
         /\ request'[r].pc = pc /\ \A q \in Requests \ {r} : request'[q] = request[q]
<1> DEFINE old == request[r]
           o == [old EXCEPT !.pc = pc]
           a == [old EXCEPT !.pc = pc, !.fail = f]
<1>1. old \in RequestState
  BY DEF SupervisorInv, SupervisorTyped
<1>2. \/ request' = [request EXCEPT ![r] = o]
      \/ request' = [request EXCEPT ![r] = a]
  BY <1>1 DEF SupervisorInv, SupervisorTyped
<1>3. o \in RequestState /\ a \in RequestState
  BY <1>1 DEF RequestState
<1>4. \A x \in {o, a} : x.pc = pc /\ x.rev = old.rev /\ x.owner = old.owner
  BY <1>1 DEF RequestState
<1>5. PICK x \in {o, a} : request' = [request EXCEPT ![r] = x]
  BY <1>2
<1>6. x \in RequestState /\ pc \notin {"start", "locked", "ready", "handoff"}
  BY <1>3 DEF Asking
<1>7. x.pc = pc /\ x.rev = old.rev /\ x.owner = old.owner
  BY <1>4
<1> HIDE DEF o, a
<1>8. RequestCalm /\ request'[r] = x /\ \A q \in Requests \ {r} : request'[q] = request[q]
  BY <1>5, <1>6, <1>7, RequestEdited
<1> QED
  BY <1>7, <1>8

LEMMA RequestEnds ==
  ASSUME SupervisorInv, revision' \in {revision, revision + 1}, process' \in {process, 0}, NEW r \in Requests, Ends(r)
  PROVE  /\ RequestCalm
         /\ request'[r].pc = "idle" /\ \A q \in Requests \ {r} : request'[q] = request[q]
<1>1. 0 \in 0 .. MaxSessions /\ "idle" \in Stages
  BY SurfaceAssumption DEF Stages
<1>2. NoRequest \in RequestState
  BY <1>1 DEF NoRequest, RequestState
<1>3. NoRequest.rev = 0 /\ NoRequest.pc = "idle"
  BY DEF NoRequest
<1>4. request' = [request EXCEPT ![r] = NoRequest]
  BY DEF Ends
<1>5. "idle" \notin Asking /\ "idle" \notin WithChild
  BY DEF Asking, WithChild
<1> QED
  BY <1>2, <1>3, <1>4, <1>5, RequestEdited

LEMMA Enters ==
  ASSUME SupervisorInv, NEW s \in Sessions, NEW id, NEW n \in Nat, n <= revision,
         session' = [Forgot(s, id) EXCEPT ![s].asked = n, ![s].display = n, ![s].shown = FALSE]
  PROVE  SessionCalm /\ HearsNothing
<1> DEFINE old == session[s]
           o == [old EXCEPT !.replies = @ \ {id}, !.got = @ \ {id}, !.asked = n, !.display = n, !.shown = FALSE]
<1>1. old \in SessionState
  BY DEF SupervisorInv, SupervisorTyped
<1>2. session' = [session EXCEPT ![s] = o]
  BY <1>1 DEF Forgot, SupervisorInv, SupervisorTyped
<1>3. o \in SessionState
  BY <1>1 DEF SessionState
<1>4. /\ o.made = old.made /\ o.cancelled = old.cancelled /\ ~o.shown
      /\ o.reading = old.reading /\ o.display = n /\ o.got = old.got \ {id}
  BY <1>1 DEF SessionState
<1> HIDE DEF o
<1> QED
  BY <1>2, <1>3, <1>4, SessionEdited

-----------------------------------------------------------------------------
(* What the steps do to an action.                                         *)

ActionCalm == /\ action' \in [Sessions -> ActionState]
              /\ \A t \in Sessions : ActionKept(t) /\ (action'[t].pc # "none" => session[t].made)

LEMMA ActionEdited ==
  ASSUME SupervisorInv, NEW s \in Sessions, NEW o \in ActionState, action' = [action EXCEPT ![s] = o],
         o.pc \in {"hidden", "copy"} =>
           /\ Pasting(s) /\ o.display = action[s].display /\ o.rev = action[s].rev
           /\ o.pc = "copy" => action[s].pc = "copy" \/ SaidHidden(s, action[s].rev),
         o.pc # "none" => session[s].made
  PROVE  ActionCalm /\ action'[s] = o /\ \A t \in Sessions \ {s} : action'[t] = action[t]
<1>1. action \in [Sessions -> ActionState] /\ Single
  BY DEF SupervisorInv, SupervisorTyped
<1>2. action'[s] = o /\ \A t \in Sessions \ {s} : action'[t] = action[t]
  BY <1>1
<1>3. ActionKept(s)
  BY <1>2 DEF ActionKept, Pasting
<1>4. ASSUME NEW t \in Sessions \ {s} PROVE ActionKept(t)
  BY <1>2 DEF ActionKept, Pasting
<1>5. ASSUME NEW t \in Sessions, action'[t].pc # "none" PROVE session[t].made
  BY <1>1, <1>2, <1>5 DEF Single
<1> QED
  BY <1>1, <1>2, <1>3, <1>4, <1>5 DEF ActionCalm

\* An action that goes on to where it pastes nothing.
LEMMA ActionGoes ==
  ASSUME SupervisorInv, NEW s \in Sessions, NEW n \in Nat, session[s].made,
         NEW pc \in {"none", "lock", "state", "complete", "unsent", "stopping"}, NEW p \in BOOLEAN,
         \/ action' = [action EXCEPT ![s].pc = pc]
         \/ action' = [action EXCEPT ![s].pc = pc, ![s].rev = n]
         \/ action' = [action EXCEPT ![s].pc = pc, ![s].performed = p]
         \/ action' = [action EXCEPT ![s].pc = pc, ![s].display = n, ![s].performed = p]
         \/ action' = [action EXCEPT ![s] = NoAction] /\ pc = "none"
  PROVE  ActionCalm /\ action'[s].pc = pc /\ \A t \in Sessions \ {s} : action'[t] = action[t]
<1> DEFINE old == action[s]
           a == [old EXCEPT !.pc = pc]
           b == [old EXCEPT !.pc = pc, !.rev = n]
           c == [old EXCEPT !.pc = pc, !.performed = p]
           d == [old EXCEPT !.pc = pc, !.display = n, !.performed = p]
<1>1. old \in ActionState
  BY DEF SupervisorInv, SupervisorTyped
<1>2. \/ action' = [action EXCEPT ![s] = a]
      \/ action' = [action EXCEPT ![s] = b]
      \/ action' = [action EXCEPT ![s] = c]
      \/ action' = [action EXCEPT ![s] = d]
      \/ action' = [action EXCEPT ![s] = NoAction] /\ pc = "none"
  BY <1>1 DEF SupervisorInv, SupervisorTyped
<1>3. a \in ActionState /\ b \in ActionState /\ c \in ActionState /\ d \in ActionState
  BY <1>1 DEF ActionState
<1>4. NoAction \in ActionState /\ NoAction.pc = "none"
  BY DEF NoAction, ActionState
<1>5. a.pc = pc /\ b.pc = pc /\ c.pc = pc /\ d.pc = pc
  BY <1>1 DEF ActionState
<1>6. PICK x \in {a, b, c, d, NoAction} : action' = [action EXCEPT ![s] = x] /\ x.pc = pc
  BY <1>2, <1>4, <1>5
<1>7. x \in ActionState
  BY <1>3, <1>4
<1> HIDE DEF a, b, c, d
<1> QED
  BY <1>6, <1>7, ActionEdited

-----------------------------------------------------------------------------
(* What the steps do to the pipes.                                         *)

DownCalm == down' \in [Sessions -> Seq(DownMessage)] /\ \A t \in Sessions : DownKept(t)
UpCalm == up' \in [Sessions -> Seq(UpMessage)] /\ \A t \in Sessions : AnswersKept(t)

LEMMA DownSame ==
  ASSUME NEW s \in Sessions, down'[s] = down[s] PROVE DownKept(s)
<1>1. \A i \in Nat : ShowAt(s, i)' => ShowAt(s, i + 0) /\ down'[s][i] = down[s][i + 0]
  BY DEF ShowAt
<1>2. \A n \in Nat : ToHide(s, n)' => ToHide(s, n)
  BY DEF ToHide
<1> QED
  BY <1>1, <1>2 DEF DownKept

LEMMA DownEmptied ==
  ASSUME SupervisorInv, NEW s \in Sessions, down' = [down EXCEPT ![s] = <<>>]
  PROVE  DownCalm
<1>1. down \in [Sessions -> Seq(DownMessage)]
  BY DEF SupervisorInv, SupervisorTyped
<1>2. down'[s] = <<>> /\ \A t \in Sessions \ {s} : down'[t] = down[t]
  BY <1>1
<1>3. down' \in [Sessions -> Seq(DownMessage)]
  BY <1>1
<1>4. DownKept(s)
  <2>1. Len(down'[s]) = 0
    BY <1>2
  <2>2. \A i \in Nat : ~ShowAt(s, i)'
    BY <2>1 DEF ShowAt
  <2>3. \A n \in Nat : ~ToHide(s, n)'
    BY <2>1 DEF ToHide
  <2> QED
    BY <2>2, <2>3 DEF DownKept
<1> QED
  BY <1>2, <1>3, <1>4, DownSame DEF DownCalm

LEMMA Writes ==
  ASSUME SupervisorInv, NEW s \in Sessions, NEW m \in DownMessage, down' = WriteTo(s, m)
  PROVE  /\ down' \in [Sessions -> Seq(DownMessage)]
         /\ \A t \in Sessions \ {s} : down'[t] = down[t]
         /\ down'[s] = down[s] \/ down'[s] = Append(down[s], m)
<1>1. down \in [Sessions -> Seq(DownMessage)] /\ down[s] \in Seq(DownMessage)
  BY DEF SupervisorInv, SupervisorTyped
<1>2. Append(down[s], m) \in Seq(DownMessage)
  BY <1>1
<1> QED
  BY <1>1, <1>2 DEF WriteTo

\* A message that is neither a show nor the hide of a paste.
LEMMA WritesCalmly ==
  ASSUME SupervisorInv, NEW s \in Sessions, NEW m \in DownMessage, down' = WriteTo(s, m),
         m.type # "show", m.type = "hide" => m.id \in {"hide", "unfocus"} \X Nat
  PROVE  DownCalm
<1>1. down[s] \in Seq(DownMessage)
  BY DEF SupervisorInv, SupervisorTyped
<1>2. ASSUME down'[s] = Append(down[s], m) PROVE DownKept(s)
  <2>1. Len(down'[s]) = Len(down[s]) + 1 /\ down'[s][Len(down[s]) + 1] = m /\ Len(down[s]) \in Nat
    BY <1>1, <1>2
  <2>2. \A i \in 1 .. Len(down[s]) : down'[s][i] = down[s][i]
    BY <1>1, <1>2
  <2>3. \A i \in Nat : ShowAt(s, i)' => ShowAt(s, i + 0) /\ down'[s][i] = down[s][i + 0]
    BY <2>1, <2>2 DEF ShowAt
  <2>4. ASSUME NEW n \in Nat, ToHide(s, n)' PROVE ToHide(s, n)
    <3>1. PICK i \in 1 .. Len(down'[s]) : down'[s][i].type = "hide" /\ down'[s][i].id = <<"paste", n>>
      BY <2>4 DEF ToHide
    <3>2. \A k \in Nat : <<"paste", k>> \notin {"hide", "unfocus"} \X Nat
      OBVIOUS
    <3>3. i # Len(down[s]) + 1
      BY <2>1, <3>1, <3>2
    <3>4. i \in 1 .. Len(down[s])
      BY <2>1, <3>3
    <3> QED
      BY <2>2, <3>1, <3>4 DEF ToHide
  <2> QED
    BY <2>3, <2>4 DEF DownKept
<1>3. /\ down' \in [Sessions -> Seq(DownMessage)]
      /\ \A t \in Sessions \ {s} : down'[t] = down[t]
      /\ down'[s] = down[s] \/ down'[s] = Append(down[s], m)
  BY Writes
<1>4. DownKept(s)
  BY <1>2, <1>3, DownSame
<1> QED
  BY <1>3, <1>4, DownSame DEF DownCalm

LEMMA DownRead ==
  ASSUME SupervisorInv, NEW s \in Sessions, down[s] # <<>>, down' = [down EXCEPT ![s] = Tail(@)]
  PROVE  DownCalm /\ Head(down[s]) \in DownMessage /\ Head(down[s]) = down[s][1] /\ 1 \in 1 .. Len(down[s])
<1>1. down \in [Sessions -> Seq(DownMessage)] /\ down[s] \in Seq(DownMessage)
  BY DEF SupervisorInv, SupervisorTyped
<1>2. /\ Tail(down[s]) \in Seq(DownMessage) /\ Head(down[s]) \in DownMessage
      /\ Head(down[s]) = down[s][1] /\ Len(down[s]) \in Nat \ {0}
  BY <1>1
<1>3. down'[s] = Tail(down[s]) /\ \A t \in Sessions \ {s} : down'[t] = down[t]
  BY <1>1
<1>4. Len(down'[s]) = Len(down[s]) - 1 /\ \A i \in 1 .. Len(down[s]) - 1 : down'[s][i] = down[s][i + 1]
  BY <1>1, <1>2, <1>3
<1>5. \A i \in Nat : ShowAt(s, i)' => ShowAt(s, i + 1) /\ down'[s][i] = down[s][i + 1]
  BY <1>2, <1>4 DEF ShowAt
<1>6. ASSUME NEW n \in Nat, ToHide(s, n)' PROVE ToHide(s, n)
  BY <1>2, <1>4, <1>6, SMTT(30) DEF ToHide
<1>7. DownKept(s)
  BY <1>5, <1>6 DEF DownKept
<1>8. down' \in [Sessions -> Seq(DownMessage)]
  BY <1>1, <1>2
<1> QED
  BY <1>2, <1>3, <1>7, <1>8, DownSame DEF DownCalm

LEMMA AnswersSame ==
  ASSUME NEW s \in Sessions, \A i \in 1 .. Len(up'[s]) : \E j \in 1 .. Len(up[s]) : up'[s][i] = up[s][j],
         session'[s].got \subseteq session[s].got
  PROVE  AnswersKept(s)
<1>1. ASSUME NEW n \in Nat, Told(s, n)' PROVE Told(s, n)
  BY <1>1 DEF Told
<1>2. ASSUME NEW n \in Nat, SaidHidden(s, n)' PROVE SaidHidden(s, n)
  BY <1>2 DEF SaidHidden
<1> QED
  BY <1>1, <1>2 DEF AnswersKept

LEMMA UpSame ==
  ASSUME SupervisorInv, HearsNothing, UNCHANGED up PROVE UpCalm
  BY AnswersSame DEF HearsNothing, UpCalm, SupervisorInv, SupervisorTyped

LEMMA UpEmptied ==
  ASSUME SupervisorInv, HearsNothing, NEW s \in Sessions, up' = [up EXCEPT ![s] = <<>>] PROVE UpCalm
<1>1. up \in [Sessions -> Seq(UpMessage)]
  BY DEF SupervisorInv, SupervisorTyped
<1>2. Len(up'[s]) = 0 /\ \A t \in Sessions \ {s} : up'[t] = up[t]
  BY <1>1
<1>3. up' \in [Sessions -> Seq(UpMessage)]
  BY <1>1
<1>4. \A t \in Sessions : AnswersKept(t)
  BY <1>2, AnswersSame DEF HearsNothing
<1> QED
  BY <1>3, <1>4 DEF UpCalm

LEMMA UpRead ==
  ASSUME SupervisorInv, NEW s \in Sessions, up[s] # <<>>, Pop(s)
  PROVE  /\ up' \in [Sessions -> Seq(UpMessage)] /\ (HearsNothing => UpCalm)
         /\ Head(up[s]) \in UpMessage /\ Head(up[s]) = up[s][1] /\ 1 \in 1 .. Len(up[s])
         /\ \A t \in Sessions : \A i \in 1 .. Len(up'[t]) : \E j \in 1 .. Len(up[t]) : up'[t][i] = up[t][j]
<1>1. up \in [Sessions -> Seq(UpMessage)] /\ up[s] \in Seq(UpMessage)
  BY DEF SupervisorInv, SupervisorTyped
<1>2. /\ Tail(up[s]) \in Seq(UpMessage) /\ Head(up[s]) \in UpMessage
      /\ Head(up[s]) = up[s][1] /\ Len(up[s]) \in Nat \ {0}
  BY <1>1
<1>3. up'[s] = Tail(up[s]) /\ \A t \in Sessions \ {s} : up'[t] = up[t]
  BY <1>1 DEF Pop
<1>4. Len(up'[s]) = Len(up[s]) - 1 /\ \A i \in 1 .. Len(up[s]) - 1 : up'[s][i] = up[s][i + 1]
  BY <1>1, <1>2, <1>3
<1>5. \A i \in 1 .. Len(up'[s]) : i + 1 \in 1 .. Len(up[s]) /\ up'[s][i] = up[s][i + 1]
  BY <1>2, <1>4
<1>6. \A t \in Sessions : \A i \in 1 .. Len(up'[t]) : \E j \in 1 .. Len(up[t]) : up'[t][i] = up[t][j]
  BY <1>3, <1>5
<1>7. up' \in [Sessions -> Seq(UpMessage)]
  BY <1>1, <1>2 DEF Pop
<1>8. HearsNothing => UpCalm
  BY <1>6, <1>7, AnswersSame DEF HearsNothing, UpCalm
<1> QED
  BY <1>2, <1>6, <1>7, <1>8

LEMMA Speaks ==
  ASSUME SupervisorInv, NEW s \in Sessions, NEW type, NEW id, NEW n \in Nat,
         Message(type, id, n) \in UpMessage, Say(s, type, id, n)
  PROVE  /\ up' \in [Sessions -> Seq(UpMessage)]
         /\ \A t \in Sessions \ {s} : up'[t] = up[t]
         /\ \A i \in 1 .. Len(up'[s]) : up'[s][i] = Message(type, id, n) \/ \E j \in 1 .. Len(up[s]) : up'[s][i] = up[s][j]
<1> DEFINE m == Message(type, id, n)
<1>1. up \in [Sessions -> Seq(UpMessage)] /\ up[s] \in Seq(UpMessage) /\ m \in UpMessage
  BY DEF SupervisorInv, SupervisorTyped
<1>2. up' = [up EXCEPT ![s] = Append(@, m)]
  BY DEF Say
<1> HIDE DEF m
<1>3. Append(up[s], m) \in Seq(UpMessage)
  BY <1>1
<1>4. up'[s] = Append(up[s], m) /\ \A t \in Sessions \ {s} : up'[t] = up[t]
  BY <1>1, <1>2
<1>5. \A i \in 1 .. Len(up'[s]) : up'[s][i] = m \/ \E j \in 1 .. Len(up[s]) : up'[s][i] = up[s][j]
  BY <1>1, <1>4
<1>6. up' \in [Sessions -> Seq(UpMessage)]
  BY <1>1, <1>2, <1>3
<1> QED
  BY <1>4, <1>5, <1>6 DEF m

LEMMA SpeaksCalmly ==
  ASSUME SupervisorInv, UNCHANGED session, NEW s \in Sessions, NEW type, NEW id, NEW n \in Nat,
         Message(type, id, n) \in UpMessage, Say(s, type, id, n),
         type # "shown", type = "hidden" => \A k \in Nat : id # <<"paste", k>>
  PROVE  UpCalm
<1> DEFINE m == Message(type, id, n)
<1>1. m.type = type /\ m.id = id
  BY DEF Message
<1> HIDE DEF m
<1>2. /\ up' \in [Sessions -> Seq(UpMessage)]
      /\ \A t \in Sessions \ {s} : up'[t] = up[t]
      /\ \A i \in 1 .. Len(up'[s]) : up'[s][i] = m \/ \E j \in 1 .. Len(up[s]) : up'[s][i] = up[s][j]
  BY Speaks DEF m
<1>3. ASSUME NEW k \in Nat, Told(s, k)' PROVE Told(s, k)
  BY <1>1, <1>2, <1>3 DEF Told
<1>4. ASSUME NEW k \in Nat, SaidHidden(s, k)' PROVE SaidHidden(s, k)
  BY <1>1, <1>2, <1>4 DEF SaidHidden
<1>5. \A t \in Sessions \ {s} : AnswersKept(t)
  BY <1>2, AnswersSame
<1> QED
  BY <1>2, <1>3, <1>4, <1>5 DEF UpCalm, AnswersKept

LEMMA RequestMoves ==
  ASSUME SupervisorInv, revision' \in {revision, revision + 1}, process' \in {process, 0}, NEW r \in Requests, request[r].pc # "idle",
         NEW pc \in Stages \ {"idle"}, NEW w \in 0 .. MaxSessions, NEW d \in Nat,
         \/ request' = [request EXCEPT ![r].pc = pc, ![r].owner = w, ![r].display = d]
         \/ request' = [request EXCEPT ![r].owner = w, ![r].display = d, ![r].pc = pc]
         \/ request' = [request EXCEPT ![r].pc = pc, ![r].owner = w],
         pc \in Asking => request[r].pc \in Asking,
         pc = "start" => process' = 0,
         pc = "locked" => process' \in {0, w},
         pc \in WithChild => w # 0,
         pc \in {"ready", "handoff", "shown"} => session[w].made
  PROVE  /\ RequestCalm
         /\ request'[r].pc = pc /\ \A q \in Requests \ {r} : request'[q] = request[q]
<1> DEFINE old == request[r]
           a == [old EXCEPT !.pc = pc, !.owner = w, !.display = d]
           b == [old EXCEPT !.pc = pc, !.owner = w]
<1>1. old \in RequestState
  BY DEF SupervisorInv, SupervisorTyped
<1>2. \/ request' = [request EXCEPT ![r] = a]
      \/ request' = [request EXCEPT ![r] = b]
  BY <1>1, ZenonT(30) DEF SupervisorInv, SupervisorTyped, RequestState
<1>3. a \in RequestState /\ b \in RequestState
  BY <1>1 DEF RequestState
<1>4. \A x \in {a, b} : x.pc = pc /\ x.rev = old.rev /\ x.owner = w
  BY <1>1 DEF RequestState
<1>5. PICK x \in {a, b} : request' = [request EXCEPT ![r] = x]
  BY <1>2
<1>6. x \in RequestState
  BY <1>3
<1>7. x.pc = pc /\ x.rev = old.rev /\ x.owner = w
  BY <1>4
<1> HIDE DEF a, b
<1>8. RequestCalm /\ request'[r] = x /\ \A q \in Requests \ {r} : request'[q] = request[q]
  BY <1>5, <1>6, <1>7, RequestEdited
<1> QED
  BY <1>7, <1>8

-----------------------------------------------------------------------------
(* What the steps do to a child.                                           *)

ChildCalm == /\ child' \in [Sessions -> ChildState]
             /\ \A t \in Sessions : ChildKept(t) /\ (child'[t].up => child[t].up)

LEMMA ChildEdited ==
  ASSUME SupervisorInv, NEW s \in Sessions, NEW o \in ChildState, child' = [child EXCEPT ![s] = o],
         o.up => child[s].up, o.display \in {child[s].display, 0},
         o.open => child[s].open /\ o.up /\ o.display = child[s].display
  PROVE  ChildCalm
<1>1. child \in [Sessions -> ChildState] /\ \A t \in Sessions : child[t].open => child[t].up
  BY DEF SupervisorInv, SupervisorTyped, InOrder
<1>2. child'[s] = o /\ \A t \in Sessions \ {s} : child'[t] = child[t]
  BY <1>1
<1>3. \A t \in Sessions : ChildKept(t) /\ (child'[t].up => child[t].up)
  BY <1>1, <1>2 DEF ChildKept
<1> QED
  BY <1>1, <1>3 DEF ChildCalm

LEMMA ChildGoes ==
  ASSUME SupervisorInv, NEW s \in Sessions, NEW p \in BOOLEAN,
         \/ child' = ChildHides(s)
         \/ child' = [ChildHides(s) EXCEPT ![s].stopped = TRUE]
         \/ child' = [ChildHides(s) EXCEPT ![s].up = FALSE]
         \/ child' = [child EXCEPT ![s].pasting = p]
         \/ child' = [child EXCEPT ![s] = NewChild]
  PROVE  ChildCalm
<1> DEFINE old == child[s]
           a == [old EXCEPT !.display = 0, !.open = FALSE, !.pasting = FALSE]
           b == [old EXCEPT !.display = 0, !.open = FALSE, !.pasting = FALSE, !.stopped = TRUE]
           c == [old EXCEPT !.display = 0, !.open = FALSE, !.pasting = FALSE, !.up = FALSE]
           d == [old EXCEPT !.pasting = p]
<1>1. old \in ChildState /\ (old.open => old.up)
  BY DEF SupervisorInv, SupervisorTyped, InOrder
<1>2. \/ child' = [child EXCEPT ![s] = a]
      \/ child' = [child EXCEPT ![s] = b]
      \/ child' = [child EXCEPT ![s] = c]
      \/ child' = [child EXCEPT ![s] = d]
      \/ child' = [child EXCEPT ![s] = NewChild]
  BY <1>1 DEF SupervisorInv, SupervisorTyped, ChildHides, ChildState
<1>3. a \in ChildState /\ b \in ChildState /\ c \in ChildState /\ d \in ChildState
  BY <1>1 DEF ChildState
<1>4. /\ a.up = old.up /\ a.display = 0 /\ ~a.open
      /\ b.up = old.up /\ b.display = 0 /\ ~b.open
      /\ ~c.up /\ c.display = 0 /\ ~c.open
      /\ d.up = old.up /\ d.display = old.display /\ d.open = old.open
  BY <1>1 DEF ChildState
<1>5. NewChild \in ChildState /\ ~NewChild.up /\ NewChild.display = 0 /\ ~NewChild.open
  BY DEF NewChild, ChildState
<1>6. \A x \in {a, b, c, d, NewChild} :
        /\ x \in ChildState /\ (x.up => old.up) /\ x.display \in {old.display, 0}
        /\ x.open => old.open /\ x.up /\ x.display = old.display
  BY <1>1, <1>3, <1>4, <1>5
<1>7. PICK x \in {a, b, c, d, NewChild} : child' = [child EXCEPT ![s] = x]
  BY <1>2
<1>8. /\ x \in ChildState /\ (x.up => old.up) /\ x.display \in {old.display, 0}
      /\ x.open => old.open /\ x.up /\ x.display = old.display
  BY <1>6
<1> HIDE DEF a, b, c, d
<1> QED
  BY <1>7, <1>8, ChildEdited

ProcessCalm == process' = process \/ (process' = 0 /\ ~child'[process].up /\ session'[process].cancelled)

RestTyped == /\ revision \in Nat /\ visible \in Nat /\ requested \in Nat /\ serial \in BOOLEAN
             /\ dismissal \in [Sessions -> DismissalState] /\ stopper \in [Sessions -> StopperState]

LEMMA Unmoved ==
  ASSUME SupervisorInv
  PROVE  /\ UNCHANGED session => SessionCalm /\ HearsNothing
         /\ UNCHANGED action => ActionCalm
         /\ UNCHANGED down => DownCalm
         /\ UNCHANGED child => ChildCalm
         /\ UNCHANGED process => ProcessCalm
         /\ UNCHANGED <<session, up>> => UpCalm
<1>1. SupervisorTyped /\ Single /\ \A t \in Sessions : child[t].open => child[t].up
  BY DEF SupervisorInv, InOrder
<1>2. ASSUME UNCHANGED session PROVE SessionCalm /\ HearsNothing
  BY <1>1, <1>2 DEF SupervisorTyped, Single, SessionCalm, SessionKept, SessionStays, HearsNothing
<1>3. ASSUME UNCHANGED action PROVE ActionCalm
  BY <1>1, <1>3 DEF SupervisorTyped, Single, ActionCalm, ActionKept, Pasting
<1>4. ASSUME UNCHANGED down PROVE DownCalm
  BY <1>1, <1>4, DownSame DEF SupervisorTyped, DownCalm
<1>5. ASSUME UNCHANGED child PROVE ChildCalm
  BY <1>1, <1>5 DEF SupervisorTyped, ChildCalm, ChildKept
<1>6. ASSUME UNCHANGED <<session, up>> PROVE UpCalm
  BY <1>2, <1>6, UpSame
<1> QED
  BY <1>2, <1>3, <1>4, <1>5, <1>6 DEF ProcessCalm

LEMMA StepKeeps ==
  ASSUME SupervisorInv, RestTyped', SessionCalm, RequestCalm, ActionCalm, DownCalm, UpCalm, ChildCalm,
         ProcessCalm, pasted' = pasted, Exclusive'
  PROVE  SupervisorInv'
<1>1. process' \in 0 .. MaxSessions /\ pasted' \in Nat
  BY SurfaceAssumption DEF ProcessCalm, SupervisorInv, SupervisorTyped
<1>2. SupervisorTyped'
  BY <1>1 DEF SupervisorTyped, RestTyped, SessionCalm, RequestCalm, ActionCalm, DownCalm, UpCalm, ChildCalm
<1>3. Calm
  BY DEF Calm, Kept, Stays, SessionCalm, RequestCalm, ActionCalm, DownCalm, UpCalm, ChildCalm, ProcessCalm
<1> QED
  BY <1>2, <1>3, CalmKeeps

\* The end of a child, or the failure to make sure of it.
LEMMA StopsChild ==
  ASSUME SupervisorInv, NEW s \in Sessions, NEW ok \in BOOLEAN, ChildStopped(s, ok)
  PROVE  /\ SessionCalm /\ HearsNothing /\ ChildCalm /\ DownCalm /\ UpCalm /\ ProcessCalm
         /\ process' \in {process, 0} /\ (ok /\ process = s => process' = 0)
<1>1. CASE ~ok /\ child[s].up /\ UNCHANGED <<child, process, session, pipes>>
  BY <1>1, Unmoved DEF pipes
<1>2. CASE /\ child' = [child EXCEPT ![s] = NewChild]
           /\ process' = IF process = s THEN 0 ELSE process
           /\ session' = [session EXCEPT ![s] = [NewSession EXCEPT !.made = TRUE, !.cancelled = TRUE]]
           /\ down' = [down EXCEPT ![s] = <<>>] /\ up' = [up EXCEPT ![s] = <<>>]
  <2>1. SessionCalm /\ HearsNothing /\ session'[s].cancelled
    BY <1>2, Resets
  <2>2. ChildCalm
    BY <1>2, ChildGoes
  <2>3. DownCalm
    BY <1>2, DownEmptied
  <2>4. UpCalm
    BY <1>2, <2>1, UpEmptied
  <2>5. ~child'[s].up
    <3>1. child \in [Sessions -> ChildState]
      BY DEF SupervisorInv, SupervisorTyped
    <3>2. child'[s] = NewChild
      BY <1>2, <3>1
    <3> QED
      BY <3>2 DEF NewChild
  <2>6. ProcessCalm
    BY <1>2, <2>1, <2>5 DEF ProcessCalm
  <2> QED
    BY <1>2, <2>1, <2>2, <2>3, <2>4, <2>6
<1> QED
  BY <1>1, <1>2 DEF ChildStopped

\* A child is told to shut down.
LEMMA AsksToStop ==
  ASSUME SupervisorInv, NEW s \in Sessions, AskToStop(s) PROVE SessionCalm /\ HearsNothing /\ DownCalm
<1> DEFINE m == Message("shutdown", <<"shutdown", s>>, 0)
<1>1. m \in DownMessage
  BY DEF Message, DownMessage, Tags, Sessions
<1>2. m.type = "shutdown"
  BY DEF Message
<1>3. down' = WriteTo(s, m) /\ session' = Cancelled(s)
  BY DEF AskToStop
<1> HIDE DEF m
<1>4. DownCalm
  BY <1>1, <1>2, <1>3, WritesCalmly
<1> QED
  BY <1>3, <1>4, Cancels

LEMMA RestSame ==
  ASSUME SupervisorInv, UNCHANGED <<revision, visible, requested, dismissal, stopper>>,
         serial' \in {serial, TRUE, FALSE}
  PROVE  RestTyped'
  BY DEF SupervisorInv, SupervisorTyped, RestTyped

\* What a request knows of its child.
LEMMA Owner ==
  ASSUME SupervisorInv, NEW r \in Requests
  PROVE  /\ request[r] \in RequestState /\ request[r].rev \in Nat /\ request[r].display \in Nat
         /\ request[r].owner \in 0 .. MaxSessions
         /\ request[r].pc \in WithChild => request[r].owner \in Sessions
         /\ request[r].pc \in {"ready", "handoff", "shown"} => session[request[r].owner].made
         /\ process # 0 => process \in Sessions /\ session[process].made
         /\ process \in 0 .. MaxSessions
<1>1. SupervisorTyped /\ Single
  BY DEF SupervisorInv
<1>2. request[r] \in RequestState /\ process \in 0 .. MaxSessions
  BY <1>1 DEF SupervisorTyped
<1>3. request[r].rev \in Nat /\ request[r].display \in Nat /\ request[r].owner \in 0 .. MaxSessions
  BY <1>2 DEF RequestState
<1> QED
  BY <1>1, <1>2, <1>3 DEF Single, Sessions

LEMMA ShowsOf ==
  ASSUME SupervisorInv PROVE DisplayOf(process) \in Nat /\ process \in 0 .. MaxSessions
  BY DEF SupervisorInv, SupervisorTyped, DisplayOf, Sessions, SessionState

-----------------------------------------------------------------------------
(* The steps of a request that ask for nothing new.                        *)

LEMMA LockKeeps == ASSUME SupervisorInv, NEW r \in Requests, Lock(r) PROVE SupervisorInv'
<1>1. Exclusive
  BY DEF SupervisorInv
<1>2. ActionCalm /\ DownCalm /\ UpCalm /\ ChildCalm /\ ProcessCalm /\ SessionCalm
  BY Unmoved DEF Lock, pipes
<1>3. UNCHANGED <<action, dismissal, stopper, process, revision, visible, requested, pasted>>
  BY DEF Lock, flags
<1>4. request[r].pc = "lock" /\ ~serial
  BY DEF Lock
<1>5. CASE Ends(r) /\ UNCHANGED serial
  <2>1. RequestCalm /\ request'[r].pc = "idle" /\ \A q \in Requests \ {r} : request'[q] = request[q]
    BY <1>3, <1>5, RequestEnds
  <2>2. ~Held(r)'
    BY <2>1 DEF Held, Locking
  <2>3. Exclusive'
    BY <1>1, <1>3, <1>5, <2>1, <2>2, RequestTurn
  <2>4. RestTyped'
    BY <1>3, <1>5, RestSame
  <2> QED
    BY <1>2, <1>3, <2>1, <2>3, <2>4, StepKeeps
<1>6. CASE /\ serial' = TRUE
           /\ request' = [request EXCEPT ![r].owner = process, ![r].display = DisplayOf(process),
                                         ![r].pc = "locked"]
  <2>1. "lock" \in Asking /\ "locked" \in Stages /\ "locked" \notin WithChild /\ "locked" # "idle"
    BY DEF Asking, Stages, Locking, WithChild
  <2>2. RequestCalm /\ \A q \in Requests \ {r} : request'[q] = request[q]
    BY <1>3, <1>4, <1>6, <2>1, ShowsOf, RequestMoves
  <2>3. Exclusive'
    BY <1>1, <1>3, <1>4, <1>6, <2>2, RequestTurn
  <2>4. RestTyped'
    BY <1>3, <1>6, RestSame
  <2> QED
    BY <1>2, <1>3, <2>2, <2>3, <2>4, StepKeeps
<1> QED
  BY <1>5, <1>6 DEF Lock

\* The request holds the lock and keeps it, or lets it go.
LEMMA HolderGoes ==
  ASSUME SupervisorInv, UNCHANGED <<revision, pasted, action, dismissal, stopper>>, visible' \in Nat, UNCHANGED requested,
         NEW r \in Requests, Held(r), SessionCalm, DownCalm, UpCalm, ChildCalm, ProcessCalm, RequestCalm,
         \A q \in Requests \ {r} : request'[q] = request[q],
         serial' = serial \/ (serial' = FALSE /\ ~Held(r)')
  PROVE  SupervisorInv'
<1>1. Exclusive /\ ActionCalm
  BY Unmoved DEF SupervisorInv
<1>2. Exclusive'
  BY <1>1, RequestTurn
<1>3. RestTyped'
  BY DEF SupervisorInv, SupervisorTyped, RestTyped
<1> QED
  BY <1>1, <1>2, <1>3, StepKeeps

\* What a request that ends, fails or goes on does to the requests.
LEMMA HolderEnds ==
  ASSUME SupervisorInv, revision' \in {revision, revision + 1}, process' \in {process, 0}, NEW r \in Requests, Ends(r)
  PROVE  RequestCalm /\ ~Held(r)' /\ \A q \in Requests \ {r} : request'[q] = request[q]
<1>1. RequestCalm /\ request'[r].pc = "idle" /\ \A q \in Requests \ {r} : request'[q] = request[q]
  BY RequestEnds
<1> QED
  BY <1>1 DEF Held, Locking

LEMMA HolderFails ==
  ASSUME SupervisorInv, revision' \in {revision, revision + 1}, process' \in {process, 0}, NEW r \in Requests, Held(r),
         NEW why \in {"none", "error", "focus"}, Fails(r, why)
  PROVE  RequestCalm /\ ~Held(r)' /\ \A q \in Requests \ {r} : request'[q] = request[q]
<1>1. /\ "failed" \in Stages \ {"idle"} /\ "failed" \notin Asking /\ "failed" \notin WithChild /\ "failed" # "shown"
      /\ "failed" \notin Locking /\ request[r].pc # "idle"
  BY DEF Stages, Asking, WithChild, Locking, Held
<1>2. RequestCalm /\ request'[r].pc = "failed" /\ \A q \in Requests \ {r} : request'[q] = request[q]
  BY <1>1, RequestGoes DEF Fails
<1> QED
  BY <1>1, <1>2 DEF Held

LEMMA HolderGoesOn ==
  ASSUME SupervisorInv, revision' \in {revision, revision + 1}, process' \in {process, 0}, NEW r \in Requests, request[r].pc # "idle",
         NEW pc \in {"restore", "hidden", "unfocus", "stopping", "recycling"}, Go(r, pc),
         pc = "recycling" => request[r].pc \in Asking,
         pc # "recycling" => request[r].owner # 0
  PROVE  RequestCalm /\ \A q \in Requests \ {r} : request'[q] = request[q]
<1>1. request[r] \in RequestState /\ request[r].owner \in 0 .. MaxSessions /\ request[r].display \in Nat
  BY Owner
<1>2. CASE pc = "recycling"
  <2>1. request' = [request EXCEPT ![r].pc = "recycling", ![r].owner = request[r].owner]
    BY <1>1, <1>2 DEF Go, SupervisorInv, SupervisorTyped, RequestState
  <2>2. "recycling" \in Stages \ {"idle"} /\ "recycling" \notin WithChild
    BY DEF Stages, Locking, WithChild
  <2>3. request[r].pc \in Asking
    BY <1>2
  <2> QED
    BY <1>1, <2>1, <2>2, <2>3, RequestMoves
<1>3. CASE pc # "recycling"
  <2>1. pc \in Stages \ {"idle"} /\ pc \notin Asking /\ pc # "shown"
    BY <1>3 DEF Stages, Locking, Asking
  <2>2. request' = [request EXCEPT ![r].pc = pc]
    BY DEF Go
  <2>3. request[r].owner # 0
    BY <1>3
  <2> QED
    BY <2>1, <2>2, <2>3, RequestGoes
<1> QED
  BY <1>2, <1>3

LEMMA RecycleKeeps == ASSUME SupervisorInv, NEW r \in Requests, Recycle(r) PROVE SupervisorInv'
<1>1. /\ request[r].pc = "locked" /\ process # 0 /\ AskToStop(process) /\ Go(r, "recycling")
      /\ UNCHANGED <<revision, visible, requested, serial, process, action, dismissal, stopper, child, up, pasted>>
  BY DEF Recycle, flags
<1>2. SessionCalm /\ HearsNothing /\ DownCalm
  BY <1>1, Owner, AsksToStop
<1>3. UpCalm /\ ChildCalm /\ ProcessCalm
  BY <1>1, <1>2, UpSame, Unmoved
<1>4. RequestCalm /\ \A q \in Requests \ {r} : request'[q] = request[q]
  BY <1>1, HolderGoesOn DEF Asking
<1>5. Held(r) /\ visible' \in Nat
  BY <1>1 DEF Held, Locking, SupervisorInv, SupervisorTyped
<1> QED
  BY <1>1, <1>2, <1>3, <1>4, <1>5, HolderGoes

LEMMA RecycledKeeps == ASSUME SupervisorInv, NEW r \in Requests, Recycled(r) PROVE SupervisorInv'
<1>1. /\ request[r].pc = "recycling"
      /\ UNCHANGED <<revision, visible, requested, action, dismissal, stopper, pasted>>
  BY DEF Recycled, flags
<1>2. PICK ok \in BOOLEAN :
        /\ IF process = 0 THEN ok /\ UNCHANGED <<child, process, session, pipes>> ELSE ChildStopped(process, ok)
        /\ IF ok THEN request' = [request EXCEPT ![r].pc = "start", ![r].owner = 0] /\ UNCHANGED serial
                 ELSE Fails(r, "error") /\ serial' = FALSE
  BY DEF Recycled
<1>3. /\ SessionCalm /\ ChildCalm /\ DownCalm /\ UpCalm /\ ProcessCalm
      /\ process' \in {process, 0} /\ (ok => process' = 0)
  <2>1. CASE process = 0
    BY <1>2, <2>1, Unmoved DEF pipes
  <2>2. CASE process # 0
    BY <1>2, <2>2, Owner, StopsChild
  <2> QED
    BY <2>1, <2>2
<1>4. Held(r) /\ visible' \in Nat /\ request[r].pc # "idle" /\ request[r].pc \in Asking
  BY <1>1 DEF Held, Locking, SupervisorInv, SupervisorTyped, Asking
<1>5. CASE ok
  <2>1. "start" \in Stages \ {"idle"} /\ "start" \notin WithChild /\ "start" \in Locking /\ 0 \in 0 .. MaxSessions
    BY SurfaceAssumption DEF Stages, Locking, WithChild
  <2>2. RequestCalm /\ request'[r].pc = "start" /\ \A q \in Requests \ {r} : request'[q] = request[q]
    BY <1>1, <1>2, <1>3, <1>4, <1>5, <2>1, RequestMoves
  <2> QED
    BY <1>1, <1>2, <1>3, <1>4, <1>5, <2>2, HolderGoes
<1>6. CASE ~ok
  <2>1. RequestCalm /\ ~Held(r)' /\ \A q \in Requests \ {r} : request'[q] = request[q]
    BY <1>1, <1>2, <1>3, <1>4, <1>6, HolderFails
  <2> QED
    BY <1>1, <1>2, <1>3, <1>4, <1>6, <2>1, HolderGoes
<1> QED
  BY <1>2, <1>5, <1>6

LEMMA Numbers ==
  ASSUME SupervisorInv, NEW r \in Requests
  PROVE  request[r].rev <= revision /\ revision \in Nat /\ visible \in Nat /\ requested \in Nat
  BY DEF SupervisorInv, SupervisorTyped, Fresh

\* A request lets the lock go and ends; its child is left to forget the answer.
LEMMA HolderLetsGo ==
  ASSUME SupervisorInv, UNCHANGED <<revision, visible, requested, pasted, process, action, dismissal, stopper, child, pipes>>,
         NEW r \in Requests, Held(r), SessionCalm, HearsNothing, RequestCalm,
         \A q \in Requests \ {r} : request'[q] = request[q],
         serial' = serial \/ (serial' = FALSE /\ ~Held(r)')
  PROVE  SupervisorInv'
<1>1. DownCalm /\ ChildCalm /\ ProcessCalm
  BY Unmoved DEF pipes
<1>2. UpCalm
  BY UpSame DEF pipes
<1> QED
  BY <1>1, <1>2, Numbers, HolderGoes

LEMMA PresentKeeps == ASSUME SupervisorInv, NEW r \in Requests, Present(r) PROVE SupervisorInv'
<1> DEFINE s == IF request[r].pc = "ready" THEN request[r].owner ELSE process
           n == request[r].rev
<1>1. /\ s # 0 /\ request[r].pc \in {"locked", "ready"}
      /\ UNCHANGED <<revision, visible, requested, process, action, dismissal, stopper, child, pipes, pasted>>
  BY DEF Present, flags
<1>2. Held(r) /\ request[r].pc # "idle" /\ request[r].pc \in Asking
  BY <1>1 DEF Held, Locking, Asking
<1>3. s \in Sessions /\ session[s].made /\ s \in 0 .. MaxSessions /\ n \in Nat /\ n <= revision
  BY <1>1, Owner, Numbers DEF WithChild
<1>4. CASE /\ session' = [Forgot(s, <<"ready", s>>) EXCEPT ![s].asked = n, ![s].display = n, ![s].shown = FALSE]
           /\ request' = [request EXCEPT ![r].pc = "handoff", ![r].owner = s, ![r].display = n]
           /\ UNCHANGED serial
  <2> HIDE DEF s, n
  <2>1. SessionCalm /\ HearsNothing
    BY <1>3, <1>4, Enters
  <2>2. "handoff" \in Stages \ {"idle"}
    BY DEF Stages, Locking
  <2>3. RequestCalm /\ \A q \in Requests \ {r} : request'[q] = request[q]
    BY <1>1, <1>2, <1>3, <1>4, <2>2, RequestMoves, ZenonT(30)
  <2> QED
    BY <1>1, <1>2, <1>4, <2>1, <2>3, HolderLetsGo
<1>5. CASE /\ session' = [Forgot(s, <<"ready", s>>) EXCEPT ![s].asked = n]
           /\ Ends(r) /\ serial' = FALSE
  <2> HIDE DEF s, n
  <2>1. SessionCalm /\ HearsNothing
    BY <1>3, <1>5, Forgets
  <2>2. RequestCalm /\ ~Held(r)' /\ \A q \in Requests \ {r} : request'[q] = request[q]
    BY <1>1, <1>5, HolderEnds
  <2> QED
    BY <1>1, <1>2, <1>5, <2>1, <2>2, HolderLetsGo
<1> QED
  BY <1>4, <1>5 DEF Present

LEMMA HideKeeps == ASSUME SupervisorInv, NEW r \in Requests, Hide(r) PROVE SupervisorInv'
<1> DEFINE s == process
           n == request[r].rev
           m == Message("hide", <<"hide", n>>, session[s].display)
<1>1. /\ request[r].pc = "locked"
      /\ UNCHANGED <<revision, visible, requested, process, action, dismissal, stopper, child, up, pasted>>
  BY DEF Hide, flags
<1>2. Held(r) /\ request[r].pc # "idle" /\ visible' \in Nat /\ n \in Nat
  BY <1>1, Numbers, Owner DEF Held, Locking
<1>3. ChildCalm /\ ProcessCalm
  BY <1>1, Unmoved
<1>4. s # 0 => s \in Sessions /\ request[r].owner # 0 /\ session[s].display \in Nat
  BY <1>1, Owner DEF SupervisorInv, SupervisorTyped, Single, SessionState
<1>5. CASE s = 0 /\ Ends(r) /\ serial' = FALSE /\ UNCHANGED <<session, down>>
  <2>1. SessionCalm /\ DownCalm /\ UpCalm
    BY <1>1, <1>5, Unmoved
  <2>2. RequestCalm /\ ~Held(r)' /\ \A q \in Requests \ {r} : request'[q] = request[q]
    BY <1>1, <1>5, HolderEnds
  <2> QED
    BY <1>1, <1>2, <1>3, <1>5, <2>1, <2>2, HolderGoes
<1>6. CASE /\ s # 0 /\ Go(r, "restore") /\ session' = [session EXCEPT ![s].asked = n]
           /\ UNCHANGED <<serial, down>>
  <2>1. "ready" \in {"ready", "show", "hide", "unfocus", "paste", "shutdown"} /\ <<"ready", n>> \in Tags
    BY <1>2 DEF Tags
  <2>2. SessionCalm /\ HearsNothing
    BY <1>2, <1>4, <1>6, <2>1, Waits
  <2>3. DownCalm /\ UpCalm
    BY <1>1, <1>6, <2>2, Unmoved, UpSame
  <2>4. RequestCalm /\ \A q \in Requests \ {r} : request'[q] = request[q]
    BY <1>1, <1>2, <1>4, <1>6, HolderGoesOn
  <2> QED
    BY <1>1, <1>2, <1>3, <1>6, <2>2, <2>3, <2>4, HolderGoes
<1>7. CASE /\ s # 0 /\ Go(r, "hidden")
           /\ session' = [Waiting(s, <<"hide", n>>) EXCEPT ![s].asked = n]
           /\ down' = WriteTo(s, m) /\ UNCHANGED serial
  <2>1. <<"hide", n>> \in Tags
    BY <1>2 DEF Tags
  <2>2. SessionCalm /\ HearsNothing
    BY <1>2, <1>4, <1>7, <2>1, Waits
  <2>3. m \in DownMessage /\ m.type = "hide" /\ m.id \in {"hide", "unfocus"} \X Nat
    BY <1>2, <1>4, <1>7, <2>1 DEF Message, DownMessage
  <2>4. DownCalm
    <3> HIDE DEF m
    <3>1. down' = WriteTo(s, m) /\ s \in Sessions /\ m.type # "show"
      BY <1>4, <1>7, <2>3
    <3> QED
      BY <2>3, <3>1, WritesCalmly
  <2>5. UpCalm
    BY <1>1, <2>2, UpSame
  <2>6. RequestCalm /\ \A q \in Requests \ {r} : request'[q] = request[q]
    BY <1>1, <1>2, <1>4, <1>7, HolderGoesOn
  <2> QED
    BY <1>1, <1>2, <1>3, <1>7, <2>2, <2>4, <2>5, <2>6, HolderGoes
<1> QED
  BY <1>5, <1>6, <1>7 DEF Hide

LEMMA HiddenByRequestKeeps ==
  ASSUME SupervisorInv, NEW r \in Requests, HiddenByRequest(r) PROVE SupervisorInv'
<1> DEFINE s == request[r].owner
           id == <<"hide", request[r].rev>>
           d == IF session[s].display = request[r].display THEN 0 ELSE session[s].display
<1>1. /\ request[r].pc = "hidden"
      /\ UNCHANGED <<revision, visible, requested, process, action, dismissal, stopper, child, pipes, pasted>>
  BY DEF HiddenByRequest, flags
<1>2. Held(r) /\ s \in Sessions /\ s # 0
  BY <1>1, Owner DEF Held, Locking, WithChild, Sessions
<1>3. CASE /\ session' = [Forgot(s, id) EXCEPT ![s].display = IF @ = request[r].display THEN 0 ELSE @]
           /\ Go(r, "restore") /\ UNCHANGED serial
  <2>1. session' = [Forgot(s, id) EXCEPT ![s].display = d]
    BY <1>2, <1>3, ZenonT(30) DEF Forgot, SupervisorInv, SupervisorTyped, SessionState
  <2>2. d \in {session[s].display, 0} /\ 0 \in Nat
    OBVIOUS
  <2> HIDE DEF d
  <2>3. SessionCalm /\ HearsNothing
    BY <1>2, <2>1, <2>2, Forgets
  <2>4. RequestCalm /\ \A q \in Requests \ {r} : request'[q] = request[q]
    BY <1>1, <1>2, <1>3, HolderGoesOn
  <2> QED
    BY <1>1, <1>2, <1>3, <2>3, <2>4, HolderLetsGo
<1>4. CASE session' = Forgot(s, id) /\ Ends(r) /\ serial' = FALSE
  <2>1. session[s].display \in {session[s].display, 0} /\ 0 \in Nat
    OBVIOUS
  <2>2. SessionCalm /\ HearsNothing
    BY <1>2, <1>4, <2>1, Forgets
  <2>3. RequestCalm /\ ~Held(r)' /\ \A q \in Requests \ {r} : request'[q] = request[q]
    BY <1>1, <1>4, HolderEnds
  <2> QED
    BY <1>1, <1>2, <1>4, <2>2, <2>3, HolderLetsGo
<1> QED
  BY <1>3, <1>4 DEF HiddenByRequest

LEMMA RestoredByRequestKeeps ==
  ASSUME SupervisorInv, NEW r \in Requests, RestoredByRequest(r) PROVE SupervisorInv'
<1>1. /\ request[r].pc = "restore" /\ Ends(r) /\ serial' = FALSE
      /\ UNCHANGED <<revision, visible, requested, process, session, action, dismissal, stopper, child, pipes, pasted>>
  BY DEF RestoredByRequest, flags
<1>2. Held(r)
  BY <1>1 DEF Held, Locking
<1>3. RequestCalm /\ ~Held(r)' /\ \A q \in Requests \ {r} : request'[q] = request[q]
  BY <1>1, HolderEnds
<1>4. SessionCalm /\ HearsNothing
  BY <1>1, Unmoved
<1> QED
  BY <1>1, <1>2, <1>3, <1>4, HolderLetsGo

LEMMA RequestFailsKeeps ==
  ASSUME SupervisorInv, NEW r \in Requests, RequestFails(r) PROVE SupervisorInv'
<1>1. /\ request[r].pc \in {"ready", "handoff", "shown", "hidden", "restore"} /\ serial' = FALSE
      /\ session' = Forgot(request[r].owner, ReplyOf(request[r]))
      /\ UNCHANGED <<revision, visible, requested, process, action, dismissal, stopper, child, pipes, pasted>>
  BY DEF RequestFails, flags
<1>2. PICK why \in {"error", "focus"} : Fails(r, why)
  BY DEF RequestFails
<1>3. Held(r) /\ request[r].owner \in Sessions
  BY <1>1, Owner DEF Held, Locking, WithChild
<1>4. RequestCalm /\ ~Held(r)' /\ \A q \in Requests \ {r} : request'[q] = request[q]
  BY <1>1, <1>2, <1>3, HolderFails
<1>5. SessionCalm /\ HearsNothing
  <2>1. session[request[r].owner].display \in {session[request[r].owner].display, 0} /\ 0 \in Nat
    OBVIOUS
  <2> QED
    BY <1>1, <1>3, <2>1, Forgets
<1> QED
  BY <1>1, <1>3, <1>4, <1>5, HolderLetsGo

\* A request that takes the lock, or leaves it as it is.
LEMMA TakerGoes ==
  ASSUME SupervisorInv, revision' \in {revision, revision + 1}, visible' \in Nat, requested' \in Nat,
         UNCHANGED <<pasted, action, dismissal, stopper>>,
         NEW r \in Requests, SessionCalm, DownCalm, UpCalm, ChildCalm, ProcessCalm, RequestCalm,
         \A q \in Requests \ {r} : request'[q] = request[q],
         \/ ~serial /\ serial' = TRUE
         \/ serial' = serial /\ (Held(r)' => Held(r))
  PROVE  SupervisorInv'
<1>1. Exclusive /\ ActionCalm
  BY Unmoved DEF SupervisorInv
<1>2. Exclusive'
  BY <1>1, RequestTurn
<1>3. revision' \in Nat
  BY Numbers
<1>4. serial' \in BOOLEAN
  BY DEF SupervisorInv, SupervisorTyped
<1>5. RestTyped'
  BY <1>3, <1>4 DEF SupervisorInv, SupervisorTyped, RestTyped
<1> QED
  BY <1>1, <1>2, <1>5, StepKeeps

LEMMA ClaimFailureKeeps ==
  ASSUME SupervisorInv, NEW r \in Requests, ClaimFailure(r) PROVE SupervisorInv'
<1> DEFINE q == request[r]
           id == <<"unfocus", q.rev>>
           m == Message("hide", id, q.display)
<1>1. /\ q.pc = "failed" /\ ~serial
      /\ UNCHANGED <<visible, requested, process, action, dismissal, stopper, child, up, pasted>>
  BY DEF ClaimFailure, flags
<1>2. revision' \in {revision, revision + 1}
  BY DEF ClaimFailure
<1>3. visible' \in Nat /\ requested' \in Nat /\ q.pc # "idle"
  BY <1>1, Numbers
<1>4. ChildCalm /\ ProcessCalm
  BY <1>1, Unmoved
<1>5. CASE Ends(r) /\ UNCHANGED <<serial, session, down>>
  <2>1. SessionCalm /\ DownCalm /\ UpCalm
    BY <1>1, <1>5, Unmoved
  <2>2. RequestCalm /\ ~Held(r)' /\ \A p \in Requests \ {r} : request'[p] = request[p]
    BY <1>1, <1>2, <1>5, HolderEnds
  <2> QED
    BY <1>1, <1>2, <1>3, <1>4, <1>5, <2>1, <2>2, TakerGoes
<1>6. ASSUME process # 0, Claimable(q), serial' = TRUE,
             \/ /\ session' = Waiting(process, id) /\ down' = WriteTo(process, m) /\ Go(r, "unfocus")
             \/ AskToStop(process) /\ Go(r, "stopping")
      PROVE  SupervisorInv'
  <2>1. process \in Sessions /\ q.owner # 0 /\ q.rev \in Nat /\ q.display \in Nat
    BY <1>6, Owner DEF Claimable
  <2>2. RequestCalm /\ \A p \in Requests \ {r} : request'[p] = request[p]
    BY <1>1, <1>2, <1>3, <1>6, <2>1, HolderGoesOn
  <2>3. SessionCalm /\ HearsNothing /\ DownCalm
    <3>1. CASE session' = Waiting(process, id) /\ down' = WriteTo(process, m)
      <4>1. id \in Tags /\ 0 \in Nat
        BY <2>1 DEF Tags
      <4>2. SessionCalm /\ HearsNothing
        BY <2>1, <3>1, <4>1, Waits
      <4>3. m \in DownMessage /\ m.type = "hide" /\ m.id \in {"hide", "unfocus"} \X Nat
        BY <2>1, <4>1 DEF Message, DownMessage
      <4>4. DownCalm
        <5> HIDE DEF m
        <5>1. m.type # "show" /\ down' = WriteTo(process, m)
          BY <3>1, <4>3
        <5> QED
          BY <2>1, <4>3, <5>1, WritesCalmly
      <4> QED
        BY <4>2, <4>4
    <3>2. CASE AskToStop(process)
      BY <2>1, <3>2, AsksToStop
    <3> QED
      BY <1>6, <3>1, <3>2
  <2>4. UpCalm
    BY <1>1, <2>3, UpSame
  <2> QED
    BY <1>1, <1>2, <1>3, <1>4, <1>6, <2>2, <2>3, <2>4, TakerGoes
<1> QED
  BY <1>5, <1>6 DEF ClaimFailure

LEMMA ReportHideFailureKeeps ==
  ASSUME SupervisorInv, NEW r \in Requests, ReportHideFailure(r) PROVE SupervisorInv'
<1>1. /\ Ends(r)
      /\ UNCHANGED <<revision, visible, requested, serial, process, session, action, dismissal, stopper, child, pipes, pasted>>
  BY DEF ReportHideFailure, flags
<1>2. SessionCalm /\ DownCalm /\ UpCalm /\ ChildCalm /\ ProcessCalm
  BY <1>1, Unmoved DEF pipes
<1>3. RequestCalm /\ ~Held(r)' /\ \A p \in Requests \ {r} : request'[p] = request[p]
  BY <1>1, HolderEnds
<1> QED
  BY <1>1, <1>2, <1>3, Numbers, TakerGoes

LEMMA UnfocusedKeeps ==
  ASSUME SupervisorInv, NEW r \in Requests, Unfocused(r) PROVE SupervisorInv'
<1> DEFINE s == request[r].owner
           id == <<"unfocus", request[r].rev>>
           d == IF session[s].display = request[r].display THEN 0 ELSE session[s].display
<1>1. /\ request[r].pc = "unfocus"
      /\ UNCHANGED <<revision, visible, requested, process, action, dismissal, stopper, child, up, pasted>>
  BY DEF Unfocused, flags
<1>2. Held(r) /\ s \in Sessions /\ s # 0 /\ visible' \in Nat
  BY <1>1, Owner, Numbers DEF Held, Locking, WithChild, Sessions
<1>3. CASE /\ session' = [Forgot(s, id) EXCEPT ![s].display = IF @ = request[r].display THEN 0 ELSE @]
           /\ Ends(r) /\ serial' = FALSE /\ UNCHANGED down
  <2>1. session' = [Forgot(s, id) EXCEPT ![s].display = d]
    BY <1>2, <1>3, ZenonT(30) DEF Forgot, SupervisorInv, SupervisorTyped, SessionState
  <2>2. d \in {session[s].display, 0} /\ 0 \in Nat
    OBVIOUS
  <2> HIDE DEF d
  <2>3. SessionCalm /\ HearsNothing
    BY <1>2, <2>1, <2>2, Forgets
  <2>4. RequestCalm /\ ~Held(r)' /\ \A q \in Requests \ {r} : request'[q] = request[q]
    BY <1>1, <1>3, HolderEnds
  <2>5. UNCHANGED pipes
    BY <1>1, <1>3 DEF pipes
  <2> QED
    BY <1>1, <1>2, <1>3, <2>3, <2>4, <2>5, HolderLetsGo
<1>4. CASE AskToStop(s) /\ Go(r, "stopping") /\ UNCHANGED serial
  <2>1. SessionCalm /\ HearsNothing /\ DownCalm
    BY <1>2, <1>4, AsksToStop
  <2>2. UpCalm /\ ChildCalm /\ ProcessCalm
    BY <1>1, <2>1, UpSame, Unmoved
  <2>3. RequestCalm /\ \A q \in Requests \ {r} : request'[q] = request[q]
    BY <1>1, <1>2, <1>4, HolderGoesOn
  <2> QED
    BY <1>1, <1>2, <1>4, <2>1, <2>2, <2>3, HolderGoes
<1> QED
  BY <1>3, <1>4 DEF Unfocused

LEMMA StoppedByRequestKeeps ==
  ASSUME SupervisorInv, NEW r \in Requests, StoppedByRequest(r) PROVE SupervisorInv'
<1>1. /\ request[r].pc = "stopping" /\ Ends(r) /\ serial' = FALSE
      /\ UNCHANGED <<revision, visible, requested, action, dismissal, stopper, pasted>>
  BY DEF StoppedByRequest, flags
<1>2. PICK ok \in BOOLEAN : ChildStopped(request[r].owner, ok)
  BY DEF StoppedByRequest
<1>3. Held(r) /\ request[r].owner \in Sessions /\ visible' \in Nat
  BY <1>1, Owner, Numbers DEF Held, Locking, WithChild
<1>4. SessionCalm /\ ChildCalm /\ DownCalm /\ UpCalm /\ ProcessCalm /\ process' \in {process, 0}
  BY <1>2, <1>3, StopsChild
<1>5. RequestCalm /\ ~Held(r)' /\ \A q \in Requests \ {r} : request'[q] = request[q]
  BY <1>1, <1>4, HolderEnds
<1> QED
  BY <1>1, <1>3, <1>4, <1>5, HolderGoes

LEMMA StopKeeps == ASSUME SupervisorInv, NEW r \in Requests, Stop(r) PROVE SupervisorInv'
<1>1. /\ request[r].pc = "locked"
      /\ UNCHANGED <<revision, visible, requested, process, action, dismissal, stopper, child, up, pasted>>
  BY DEF Stop, flags
<1>2. Held(r) /\ visible' \in Nat /\ (process # 0 => request[r].owner # 0 /\ process \in Sessions)
  BY <1>1, Owner, Numbers DEF Held, Locking, SupervisorInv, Single
<1>3. CASE Ends(r) /\ serial' = FALSE /\ UNCHANGED <<session, down>>
  <2>1. SessionCalm /\ HearsNothing /\ UNCHANGED pipes
    BY <1>1, <1>3, Unmoved DEF pipes
  <2>2. RequestCalm /\ ~Held(r)' /\ \A q \in Requests \ {r} : request'[q] = request[q]
    BY <1>1, <1>3, HolderEnds
  <2> QED
    BY <1>1, <1>2, <1>3, <2>1, <2>2, HolderLetsGo
<1>4. CASE process # 0 /\ AskToStop(process) /\ Go(r, "stopping") /\ UNCHANGED serial
  <2>1. SessionCalm /\ HearsNothing /\ DownCalm
    BY <1>2, <1>4, AsksToStop
  <2>2. UpCalm /\ ChildCalm /\ ProcessCalm
    BY <1>1, <2>1, UpSame, Unmoved
  <2>3. RequestCalm /\ \A q \in Requests \ {r} : request'[q] = request[q]
    BY <1>1, <1>2, <1>4, HolderGoesOn
  <2> QED
    BY <1>1, <1>2, <1>4, <2>1, <2>2, <2>3, HolderGoes
<1> QED
  BY <1>3, <1>4 DEF Stop

LEMMA ExitKeeps == ASSUME SupervisorInv, NEW r \in Requests, Exit(r) PROVE SupervisorInv'
<1>1. /\ request[r].pc = "exit"
      /\ UNCHANGED <<revision, visible, requested, serial, process, action, dismissal, stopper, child, up, pasted>>
  BY DEF Exit, flags
<1>2. CASE Ends(r) /\ UNCHANGED <<session, down>>
  <2>1. SessionCalm /\ DownCalm /\ UpCalm /\ ChildCalm /\ ProcessCalm
    BY <1>1, <1>2, Unmoved
  <2>2. RequestCalm /\ ~Held(r)' /\ \A p \in Requests \ {r} : request'[p] = request[p]
    BY <1>1, <1>2, HolderEnds
  <2> QED
    BY <1>1, <2>1, <2>2, Numbers, TakerGoes
<1>3. CASE /\ process # 0 /\ AskToStop(process)
           /\ request' = [request EXCEPT ![r].pc = "exiting", ![r].owner = process]
  <2>1. SessionCalm /\ HearsNothing /\ DownCalm
    BY <1>3, Owner, AsksToStop
  <2>2. UpCalm /\ ChildCalm /\ ProcessCalm
    BY <1>1, <2>1, UpSame, Unmoved
  <2>3. /\ "exiting" \in Stages \ {"idle"} /\ "exiting" \notin Asking /\ "exiting" \notin Locking
        /\ "exiting" # "start" /\ "exiting" # "locked" /\ "exiting" \notin {"ready", "handoff", "shown"}
    BY DEF Stages, Asking, Locking
  <2>4. /\ process \in 0 .. MaxSessions /\ process # 0 /\ request[r].display \in Nat
        /\ process' \in {process, 0} /\ revision' \in {revision, revision + 1} /\ request[r].pc # "idle"
    BY <1>1, <1>3, Owner
  <2>5. request' = [request EXCEPT ![r].pc = "exiting", ![r].owner = process, ![r].display = request[r].display]
    BY <1>3, Owner DEF RequestState, SupervisorInv, SupervisorTyped
  <2>6. RequestCalm /\ request'[r].pc = "exiting" /\ \A q \in Requests \ {r} : request'[q] = request[q]
    <3> DEFINE pc == "exiting"
    <3>1. /\ pc \in Stages \ {"idle"} /\ (pc \in Asking => request[r].pc \in Asking)
          /\ pc = "start" => process' = 0
          /\ pc = "locked" => process' \in {0, process}
          /\ pc \in WithChild => process # 0
          /\ pc \in {"ready", "handoff", "shown"} => session[process].made
      BY <2>3, <2>4
    <3>2. request' = [request EXCEPT ![r].pc = pc, ![r].owner = process, ![r].display = request[r].display]
      BY <2>5
    <3> HIDE DEF pc
    <3>3. RequestCalm
      BY <2>4, <3>1, <3>2, RequestMoves
    <3>4. request'[r].pc = pc /\ \A q \in Requests \ {r} : request'[q] = request[q]
      BY <3>2 DEF SupervisorInv, SupervisorTyped, RequestState
    <3> QED
      BY <3>3, <3>4 DEF pc
  <2>7. ~Held(r)'
    BY <2>3, <2>6 DEF Held
  <2> QED
    BY <1>1, <2>1, <2>2, <2>6, <2>7, Numbers, TakerGoes
<1> QED
  BY <1>2, <1>3 DEF Exit

LEMMA ExitedKeeps == ASSUME SupervisorInv, NEW r \in Requests, Exited(r) PROVE SupervisorInv'
<1>1. /\ request[r].pc = "exiting" /\ Ends(r)
      /\ UNCHANGED <<revision, visible, requested, serial, action, dismissal, stopper, pasted>>
  BY DEF Exited, flags
<1>2. PICK ok \in BOOLEAN : ChildStopped(request[r].owner, ok)
  BY DEF Exited
<1>3. request[r].owner \in Sessions
  BY <1>1, Owner DEF WithChild
<1>4. SessionCalm /\ ChildCalm /\ DownCalm /\ UpCalm /\ ProcessCalm /\ process' \in {process, 0}
  BY <1>2, <1>3, StopsChild
<1>5. RequestCalm /\ ~Held(r)' /\ \A q \in Requests \ {r} : request'[q] = request[q]
  BY <1>1, <1>4, HolderEnds
<1> QED
  BY <1>1, <1>4, <1>5, Numbers, TakerGoes

LEMMA BeginRequestKeeps ==
  ASSUME SupervisorInv, NEW r \in Requests, BeginRequest(r) PROVE SupervisorInv'
<1>1. /\ request[r].pc = "idle" /\ revision' = revision + 1
      /\ UNCHANGED <<visible, serial, process, session, action, dismissal, stopper, child, pipes, pasted>>
  BY DEF BeginRequest
<1>2. PICK kind \in {"show", "close", "hide", "stop", "exit"}, captured \in BOOLEAN :
        /\ requested' = IF kind = "show" THEN revision + 1 ELSE requested
        /\ request' = [request EXCEPT ![r] =
             [pc |-> IF ~captured THEN "failed" ELSE IF kind = "exit" THEN kind ELSE "lock",
              kind |-> kind, rev |-> revision + 1, owner |-> process,
              display |-> DisplayOf(process), fail |-> IF captured THEN "none" ELSE "error"]]
  BY DEF BeginRequest
<1> DEFINE o == [pc |-> IF ~captured THEN "failed" ELSE IF kind = "exit" THEN kind ELSE "lock",
                 kind |-> kind, rev |-> revision + 1, owner |-> process,
                 display |-> DisplayOf(process), fail |-> IF captured THEN "none" ELSE "error"]
<1>3. revision \in Nat /\ visible \in Nat /\ requested \in Nat
  BY Numbers
<1>4. o.pc \in {"failed", "exit", "lock"} /\ o.rev = revision + 1
  OBVIOUS
<1>5. o \in RequestState
  BY <1>3, ShowsOf DEF RequestState, Stages
<1>6. request' = [request EXCEPT ![r] = o]
  BY <1>2
<1> HIDE DEF o
<1>7. request \in [Requests -> RequestState] /\ Single /\ Fresh
  BY DEF SupervisorInv, SupervisorTyped
<1>8. request'[r] = o /\ \A q \in Requests \ {r} : request'[q] = request[q]
  BY <1>6, <1>7
<1>9. \A q \in Requests : request[q].rev \in Nat /\ request[q].rev <= revision
  BY <1>7 DEF Fresh, RequestState
<1>10. RequestsKept
  BY <1>1, <1>3, <1>4, <1>7, <1>8, <1>9 DEF RequestsKept, Fresh
<1>11. ASSUME NEW q \in Requests PROVE RequestStays(q)
  <2>1. CASE q = r
    BY <1>4, <1>8, <2>1 DEF RequestStays, WithChild
  <2>2. CASE q # r
    BY <1>1, <1>7, <1>8, <2>2 DEF RequestStays, Single
  <2> QED
    BY <2>1, <2>2
<1>12. request' \in [Requests -> RequestState]
  BY <1>5, <1>6, <1>7
<1>13. RequestCalm
  BY <1>10, <1>11, <1>12 DEF RequestCalm
<1>14. ~Held(r)'
  BY <1>4, <1>8 DEF Held, Locking
<1>15. SessionCalm /\ DownCalm /\ UpCalm /\ ChildCalm /\ ProcessCalm
  BY <1>1, Unmoved DEF pipes
<1>16. requested' \in Nat
  BY <1>2, <1>3
<1> QED
  BY <1>1, <1>3, <1>8, <1>13, <1>14, <1>15, <1>16, TakerGoes

LEMMA SchedulesStop ==
  ASSUME SupervisorInv, NEW s \in Sessions,
         \/ stopper' = [stopper EXCEPT ![s].matching = TRUE, ![s].pc = IF @ = "none" THEN "lock" ELSE @]
         \/ stopper' = [stopper EXCEPT ![s].pc = IF @ = "none" THEN "lock" ELSE @]
  PROVE  /\ stopper' \in [Sessions -> StopperState]
         /\ \A t \in Sessions : StopperHolds(t)' => StopperHolds(t)
<1> DEFINE old == stopper[s]
           pc == IF old.pc = "none" THEN "lock" ELSE old.pc
           a == [old EXCEPT !.matching = TRUE, !.pc = pc]
           b == [old EXCEPT !.pc = pc]
<1>1. old \in StopperState /\ stopper \in [Sessions -> StopperState]
  BY DEF SupervisorInv, SupervisorTyped
<1>2. a \in StopperState /\ b \in StopperState /\ a.pc = pc /\ b.pc = pc
  BY <1>1 DEF StopperState
<1>3. PICK x \in {a, b} : stopper' = [stopper EXCEPT ![s] = x]
  BY <1>1 DEF StopperState
<1>4. x \in StopperState /\ x.pc = pc
  BY <1>2
<1> HIDE DEF a, b
<1>5. stopper'[s] = x /\ \A t \in Sessions \ {s} : stopper'[t] = stopper[t]
  BY <1>1, <1>3
<1>6. stopper' \in [Sessions -> StopperState]
  BY <1>1, <1>3, <1>4
<1> QED
  BY <1>4, <1>5, <1>6 DEF StopperHolds

\* A step of the reader of a child's answers.
LEMMA ReaderKeeps ==
  ASSUME SupervisorInv, revision' \in {revision, revision + 1},
         UNCHANGED <<visible, requested, serial, process, request, child, down, pasted>>,
         dismissal' \in [Sessions -> DismissalState], stopper' \in [Sessions -> StopperState],
         \A t \in Sessions : DismissalHolds(t)' => DismissalHolds(t),
         \A t \in Sessions : StopperHolds(t)' => StopperHolds(t),
         \A t \in Sessions : ActionHolds(t)' => ActionHolds(t),
         SessionCalm, ActionCalm, UpCalm
  PROVE  SupervisorInv'
<1>1. Exclusive /\ revision' \in Nat
  BY Numbers DEF SupervisorInv, SupervisorTyped
<1>2. RestTyped'
  BY <1>1 DEF SupervisorInv, SupervisorTyped, RestTyped
<1>3. \A r \in Requests : Held(r)' => Held(r)
  BY DEF Held
<1>4. Exclusive'
  BY <1>1, <1>3, NobodyLocks
<1>5. ChildCalm /\ DownCalm /\ ProcessCalm
  BY Unmoved
<1>6. RequestCalm
  BY RequestsSame
<1> QED
  BY <1>2, <1>4, <1>5, <1>6, StepKeeps

LEMMA ScheduleStopKeeps ==
  ASSUME SupervisorInv, NEW s \in Sessions, ScheduleStop(s), up' = up \/ (up[s] # <<>> /\ Pop(s)),
         UNCHANGED <<revision, visible, requested, serial, process, request, action, dismissal, child, down, pasted>>
  PROVE  SupervisorInv'
<1>1. SessionCalm /\ HearsNothing
  BY Resets DEF ScheduleStop
<1>2. UpCalm
  BY <1>1, UpSame, UpRead
<1>3. stopper' \in [Sessions -> StopperState] /\ \A t \in Sessions : StopperHolds(t)' => StopperHolds(t)
  BY SchedulesStop DEF ScheduleStop
<1>4. ActionCalm /\ dismissal' \in [Sessions -> DismissalState]
  BY Unmoved DEF SupervisorInv, SupervisorTyped
<1>5. \A t \in Sessions : (DismissalHolds(t)' => DismissalHolds(t)) /\ (ActionHolds(t)' => ActionHolds(t))
  BY DEF DismissalHolds, ActionHolds
<1> QED
  BY <1>1, <1>2, <1>3, <1>4, <1>5, ReaderKeeps

\* The answer somebody waits for is taken from the pipe and kept for him.
LEMMA AnswerHeard ==
  ASSUME SupervisorInv, NEW s \in Sessions, up[s] # <<>>, Pop(s), Head(up[s]).id \in session[s].replies,
         Head(up[s]).type \in {"ready", "shown", "hidden", "stopped", "failed"},
         session' = [session EXCEPT ![s].replies = @ \ {Head(up[s]).id},
           ![s].got = IF Head(up[s]).type = "failed" THEN @ ELSE @ \cup {Head(up[s]).id}]
  PROVE  SessionCalm /\ UpCalm
<1> DEFINE m == up[s][1]
           old == session[s]
           g == IF m.type = "failed" THEN old.got ELSE old.got \cup {m.id}
           o == [old EXCEPT !.replies = @ \ {m.id}, !.got = g]
<1>1. m = Head(up[s]) /\ m \in UpMessage /\ 1 \in 1 .. Len(up[s])
  BY UpRead
<1>2. old \in SessionState /\ (old.shown => old.made /\ ~old.cancelled)
  BY DEF SupervisorInv, SupervisorTyped, Single
<1>3. session' = [session EXCEPT ![s] = o]
  BY <1>1, <1>2 DEF SupervisorInv, SupervisorTyped, SessionState
<1>4. m.id \in Tags /\ m.id \in old.replies /\ m.type \in {"ready", "shown", "hidden", "stopped", "failed"}
  BY <1>1, <1>2 DEF SessionState
<1>5. g \in SUBSET Tags
  BY <1>2, <1>4 DEF SessionState
<1>6. m.type # "failed" => \A n \in Nat : /\ m.id = <<"show", n>> => m.type = "shown"
                                          /\ m.id = <<"paste", n>> => m.type = "hidden"
  <2>1. /\ m.display \in Nat /\ (m.type = "ready" => m.id \in {"ready"} \X Nat)
        /\ (m.type = "shown" => m.id = <<"show", m.display>>) /\ (m.type = "hidden" => m.id \in Hides)
        /\ m.type = "stopped" => m.id \in {"shutdown"} \X Nat
    BY <1>1 DEF UpMessage
  <2> HIDE DEF m
  <2>2. CASE m.type \in {"ready", "stopped"}
    BY <2>1, <2>2
  <2>3. CASE m.type = "shown"
    BY <2>1, <2>3
  <2>4. CASE m.type = "hidden"
    BY <2>1, <2>4 DEF Hides
  <2>5. CASE m.type = "failed"
    BY <2>5
  <2> QED
    BY <1>4, <2>2, <2>3, <2>4, <2>5
<1> HIDE DEF m
<1>7. o \in SessionState
  <2> HIDE DEF g
  <2> QED
    BY <1>2, <1>5 DEF SessionState
<1>8. /\ o.made = old.made /\ o.cancelled = old.cancelled /\ o.shown = old.shown
      /\ o.reading = old.reading /\ o.display = old.display /\ o.got = g
  BY <1>2 DEF SessionState
<1>9. /\ \A n \in Nat : <<"show", n>> \in g => <<"show", n>> \in old.got \/ (m.type = "shown" /\ m.id = <<"show", n>>)
      /\ \A n \in Nat : <<"paste", n>> \in g => <<"paste", n>> \in old.got \/ (m.type = "hidden" /\ m.id = <<"paste", n>>)
  BY <1>6
<1> HIDE DEF o, g
<1>10. SessionCalm
  BY <1>2, <1>3, <1>7, <1>8, SessionEdited
<1>11. session'[s].got = g /\ \A t \in Sessions \ {s} : session'[t] = session[t]
  BY <1>3, <1>8 DEF SupervisorInv, SupervisorTyped
<1>12. \A t \in Sessions : \A i \in 1 .. Len(up'[t]) : \E j \in 1 .. Len(up[t]) : up'[t][i] = up[t][j]
  BY UpRead
<1>13. ASSUME NEW n \in Nat, Told(s, n)' PROVE Told(s, n)
  <2>1. CASE \E i \in 1 .. Len(up'[s]) : up'[s][i].type = "shown" /\ up'[s][i].id = <<"show", n>>
    BY <1>12, <2>1 DEF Told
  <2>2. CASE m.type = "shown" /\ m.id = <<"show", n>>
    BY <1>1, <2>2 DEF Told, m
  <2>3. CASE <<"show", n>> \in old.got
    BY <2>3 DEF Told
  <2> QED
    BY <1>9, <1>11, <1>13, <2>1, <2>2, <2>3 DEF Told
<1>14. ASSUME NEW n \in Nat, SaidHidden(s, n)' PROVE SaidHidden(s, n)
  <2>1. CASE \E i \in 1 .. Len(up'[s]) : up'[s][i].type = "hidden" /\ up'[s][i].id = <<"paste", n>>
    BY <1>12, <2>1 DEF SaidHidden
  <2>2. CASE m.type = "hidden" /\ m.id = <<"paste", n>>
    BY <1>1, <2>2 DEF SaidHidden, m
  <2>3. CASE <<"paste", n>> \in old.got
    BY <2>3 DEF SaidHidden
  <2> QED
    BY <1>9, <1>11, <1>14, <2>1, <2>2, <2>3 DEF SaidHidden
<1>15. \A t \in Sessions : AnswersKept(t)
  BY <1>11, <1>12, <1>13, <1>14, AnswersSame DEF AnswersKept
<1> QED
  BY <1>10, <1>15, UpRead DEF UpCalm

LEMMA ReadReplyKeeps == ASSUME SupervisorInv, NEW s \in Sessions, ReadReply(s) PROVE SupervisorInv'
<1>1. /\ up[s] # <<>> /\ Pop(s) /\ Head(up[s]).type \in {"ready", "shown", "hidden", "stopped", "failed"}
      /\ UNCHANGED <<revision, visible, requested, serial, process, request, action, dismissal, child, down, pasted>>
  BY DEF ReadReply, flags
<1>2. /\ dismissal' \in [Sessions -> DismissalState] /\ ActionCalm
      /\ \A t \in Sessions : (DismissalHolds(t)' => DismissalHolds(t)) /\ (ActionHolds(t)' => ActionHolds(t))
  BY <1>1, Unmoved DEF SupervisorInv, SupervisorTyped, DismissalHolds, ActionHolds
<1>3. CASE UNCHANGED stopper /\ SessionCalm /\ UpCalm
  <2>1. stopper' \in [Sessions -> StopperState] /\ \A t \in Sessions : StopperHolds(t)' => StopperHolds(t)
    BY <1>3 DEF SupervisorInv, SupervisorTyped, StopperHolds
  <2> QED
    BY <1>1, <1>2, <1>3, <2>1, ReaderKeeps
<1>4. CASE Head(up[s]).id \in session[s].replies
  <2>1. /\ UNCHANGED stopper
        /\ session' = [session EXCEPT ![s].replies = @ \ {Head(up[s]).id},
             ![s].got = IF Head(up[s]).type = "failed" THEN @ ELSE @ \cup {Head(up[s]).id}]
    BY <1>4 DEF ReadReply
  <2> QED
    BY <1>1, <1>3, <1>4, <2>1, AnswerHeard
<1>5. CASE ScheduleStop(s)
  BY <1>1, <1>5, ScheduleStopKeeps
<1>6. CASE UNCHANGED <<session, stopper>>
  BY <1>1, <1>3, <1>6, Unmoved, UpRead
<1> QED
  BY <1>4, <1>5, <1>6 DEF ReadReply

LEMMA ReadPasteKeeps == ASSUME SupervisorInv, NEW s \in Sessions, ReadPaste(s) PROVE SupervisorInv'
<1> DEFINE n == Head(up[s]).display
<1>1. /\ up[s] # <<>> /\ Pop(s) /\ session[s].reading
      /\ UNCHANGED <<revision, visible, requested, serial, process, session, request, dismissal, stopper, child, down, pasted>>
  BY DEF ReadPaste, flags
<1>2. SessionCalm /\ UpCalm
  BY <1>1, Unmoved, UpRead
<1>3. /\ dismissal' \in [Sessions -> DismissalState] /\ stopper' \in [Sessions -> StopperState]
      /\ \A t \in Sessions : (DismissalHolds(t)' => DismissalHolds(t)) /\ (StopperHolds(t)' => StopperHolds(t))
  BY <1>1 DEF SupervisorInv, SupervisorTyped, DismissalHolds, StopperHolds
<1>4. n \in Nat /\ session[s].made
  BY <1>1, UpRead DEF UpMessage, SupervisorInv, Single
<1>5. ActionCalm /\ \A t \in Sessions : ActionHolds(t)' => ActionHolds(t)
  <2>1. CASE UNCHANGED action
    BY <2>1, Unmoved DEF ActionHolds
  <2>2. CASE action' = [action EXCEPT ![s].pc = "lock", ![s].display = n, ![s].performed = FALSE]
    <3>1. "lock" \in {"none", "lock", "state", "complete", "unsent", "stopping"} /\ FALSE \in BOOLEAN
      OBVIOUS
    <3> HIDE DEF n
    <3>2. ActionCalm /\ action'[s].pc = "lock" /\ \A t \in Sessions \ {s} : action'[t] = action[t]
      BY <1>4, <2>2, <3>1, ActionGoes
    <3> QED
      BY <3>2 DEF ActionHolds
  <2> QED
    BY <2>1, <2>2 DEF ReadPaste
<1> QED
  BY <1>1, <1>2, <1>3, <1>5, ReaderKeeps

LEMMA ReadDismissKeeps == ASSUME SupervisorInv, NEW s \in Sessions, ReadDismiss(s) PROVE SupervisorInv'
<1> DEFINE m == Head(up[s])
           o == [pc |-> "lock", display |-> m.display, rev |-> m.display + 1, reason |-> m.id]
<1>1. /\ up[s] # <<>> /\ Pop(s) /\ m.type = "dismiss"
      /\ UNCHANGED <<visible, requested, serial, process, session, request, action, stopper, child, down, pasted>>
  BY DEF ReadDismiss, flags
<1>2. \/ revision' = revision + 1 /\ dismissal' = [dismissal EXCEPT ![s] = o]
      \/ UNCHANGED <<revision, dismissal>>
  BY DEF ReadDismiss
<1>3. SessionCalm /\ UpCalm /\ ActionCalm
  BY <1>1, Unmoved, UpRead
<1>4. stopper' \in [Sessions -> StopperState] /\ dismissal \in [Sessions -> DismissalState]
  BY <1>1 DEF SupervisorInv, SupervisorTyped
<1>5. m.display \in Nat /\ m.id \in {"cancel", "blur"}
  BY <1>1, UpRead DEF UpMessage
<1>6. o \in DismissalState /\ o.pc = "lock"
  BY <1>5 DEF DismissalState
<1> HIDE DEF o
<1>7. dismissal' \in [Sessions -> DismissalState]
  BY <1>2, <1>4, <1>6
<1>8. \A t \in Sessions : dismissal'[t] = dismissal[t] \/ dismissal'[t].pc = "lock"
  BY <1>2, <1>4, <1>6
<1>9. \A t \in Sessions : /\ DismissalHolds(t)' => DismissalHolds(t)
                          /\ StopperHolds(t)' => StopperHolds(t)
                          /\ ActionHolds(t)' => ActionHolds(t)
  BY <1>1, <1>8 DEF DismissalHolds, StopperHolds, ActionHolds
<1>10. revision' \in {revision, revision + 1}
  BY <1>2
<1> QED
  BY <1>1, <1>3, <1>4, <1>7, <1>9, <1>10, ReaderKeeps

LEMMA ReadEndKeeps == ASSUME SupervisorInv, NEW s \in Sessions, ReadEnd(s) PROVE SupervisorInv'
  BY ScheduleStopKeeps DEF ReadEnd, flags, pipes

\* A step of a paste: it takes the lock, leaves it as it is, or gives it back.
LEMMA ActionKeeps ==
  ASSUME SupervisorInv, UNCHANGED <<revision, request, dismissal, stopper, pasted>>,
         visible' \in Nat, requested' \in Nat, NEW s \in Sessions,
         \A t \in Sessions \ {s} : action'[t] = action[t],
         SessionCalm, ActionCalm, DownCalm, UpCalm, ChildCalm, ProcessCalm,
         \/ serial' = serial /\ (ActionHolds(s)' => ActionHolds(s))
         \/ ~serial /\ serial' = TRUE
         \/ ActionHolds(s) /\ ~ActionHolds(s)' /\ serial' = FALSE
  PROVE  SupervisorInv'
<1>1. Exclusive /\ serial' \in BOOLEAN
  BY DEF SupervisorInv, SupervisorTyped
<1>2. Exclusive'
  BY <1>1, ActionTurn
<1>3. RestTyped'
  BY <1>1 DEF SupervisorInv, SupervisorTyped, RestTyped
<1>4. RequestCalm
  BY RequestsSame DEF ProcessCalm
<1> QED
  BY <1>2, <1>3, <1>4, StepKeeps

LEMMA ActionOf ==
  ASSUME SupervisorInv, NEW s \in Sessions
  PROVE  /\ action[s] \in ActionState /\ action[s].display \in Nat /\ action[s].rev \in Nat
         /\ action[s].performed \in BOOLEAN /\ session[s].display \in Nat
         /\ action[s].pc # "none" => session[s].made
         /\ visible \in Nat /\ requested \in Nat /\ revision \in Nat
<1>1. SupervisorTyped /\ Single
  BY DEF SupervisorInv
<1>2. action[s] \in ActionState /\ session[s] \in SessionState
  BY <1>1 DEF SupervisorTyped
<1> QED
  BY <1>1, <1>2 DEF ActionState, SessionState, Single, SupervisorTyped

LEMMA ActionEnding ==
  ASSUME SupervisorInv, NEW s \in Sessions, action[s].pc # "none",
         NEW pc \in {"complete", "unsent", "stopping"}, ActionGo(s, pc)
  PROVE  ActionCalm /\ action'[s].pc = pc /\ \A t \in Sessions \ {s} : action'[t] = action[t]
<1>1. session[s].made /\ pc \in {"none", "lock", "state", "complete", "unsent", "stopping"}
  BY ActionOf
<1>2. action' = [action EXCEPT ![s].pc = pc] /\ 0 \in Nat /\ TRUE \in BOOLEAN
  BY DEF ActionGo
<1> QED
  BY <1>1, <1>2, ActionGoes

LEMMA ActionEnded ==
  ASSUME SupervisorInv, NEW s \in Sessions, action[s].pc # "none", action' = [action EXCEPT ![s] = NoAction]
  PROVE  ActionCalm /\ action'[s].pc = "none" /\ \A t \in Sessions \ {s} : action'[t] = action[t]
<1>1. session[s].made /\ "none" \in {"none", "lock", "state", "complete", "unsent", "stopping"}
  BY ActionOf
<1>2. 0 \in Nat /\ TRUE \in BOOLEAN
  OBVIOUS
<1> QED
  BY <1>1, <1>2, ActionGoes

LEMMA ActionLockKeeps == ASSUME SupervisorInv, NEW s \in Sessions, ActionLock(s) PROVE SupervisorInv'
<1>1. /\ action[s].pc = "lock" /\ ~serial
      /\ UNCHANGED <<revision, visible, requested, process, session, request, dismissal, stopper, child, down, up, pasted>>
  BY DEF ActionLock, ActionUnchanged, flags
<1>2. SessionCalm /\ DownCalm /\ UpCalm /\ ChildCalm /\ ProcessCalm
  BY <1>1, Unmoved
<1>3. visible' \in Nat /\ requested' \in Nat /\ revision \in Nat /\ session[s].made
  BY <1>1, ActionOf
<1>4. CASE ActionGo(s, "complete") /\ UNCHANGED serial
  <2>1. ActionCalm /\ action'[s].pc = "complete" /\ \A t \in Sessions \ {s} : action'[t] = action[t]
    BY <1>1, <1>4, ActionEnding
  <2>2. ~ActionHolds(s)'
    BY <2>1 DEF ActionHolds
  <2> QED
    BY <1>1, <1>2, <1>3, <1>4, <2>1, <2>2, ActionKeeps
<1>5. CASE action' = [action EXCEPT ![s].pc = "state", ![s].rev = revision] /\ serial' = TRUE
  <2>1. "state" \in {"none", "lock", "state", "complete", "unsent", "stopping"} /\ TRUE \in BOOLEAN
    OBVIOUS
  <2>2. ActionCalm /\ \A t \in Sessions \ {s} : action'[t] = action[t]
    BY <1>3, <1>5, <2>1, ActionGoes
  <2> QED
    BY <1>1, <1>2, <1>3, <1>5, <2>2, ActionKeeps
<1> QED
  BY <1>4, <1>5 DEF ActionLock

LEMMA ForgetsCalmly ==
  ASSUME SupervisorInv, NEW s \in Sessions, NEW id, session' = Forgot(s, id) PROVE SessionCalm /\ HearsNothing
<1>1. session[s].display \in {session[s].display, 0} /\ 0 \in Nat
  OBVIOUS
<1> QED
  BY <1>1, Forgets

LEMMA ActionHiddenKeeps == ASSUME SupervisorInv, NEW s \in Sessions, ActionHidden(s) PROVE SupervisorInv'
<1> DEFINE old == action[s]
           id == <<"paste", old.display>>
           o == [old EXCEPT !.pc = "copy"]
<1>1. /\ old.pc = "hidden" /\ id \in session[s].got /\ session' = Forgot(s, id)
      /\ UNCHANGED <<revision, visible, requested, process, request, dismissal, stopper, child, down, up, pasted>>
  BY DEF ActionHidden, ActionUnchanged, flags, Answered
<1>2. SessionCalm /\ HearsNothing
  BY <1>1, ForgetsCalmly
<1>3. DownCalm /\ UpCalm /\ ChildCalm /\ ProcessCalm
  BY <1>1, <1>2, Unmoved, UpSame
<1>4. visible' \in Nat /\ requested' \in Nat /\ old \in ActionState /\ old.rev \in Nat /\ session[s].made
  BY <1>1, ActionOf
<1>5. ActionHolds(s)
  BY <1>1 DEF ActionHolds
<1>6. CASE ActionGo(s, "copy") /\ UNCHANGED serial
  <2>1. Pasting(s) /\ old.display = old.rev
    BY <1>1 DEF Pasting, SupervisorInv, Fresh
  <2>2. SaidHidden(s, old.rev)
    BY <1>1, <1>4, <2>1 DEF SaidHidden
  <2>3. o \in ActionState /\ o.pc = "copy" /\ o.display = old.display /\ o.rev = old.rev
    BY <1>4 DEF ActionState
  <2>4. action' = [action EXCEPT ![s] = o]
    BY <1>4, <1>6 DEF ActionGo, SupervisorInv, SupervisorTyped
  <2> HIDE DEF o
  <2>5. ActionCalm /\ \A t \in Sessions \ {s} : action'[t] = action[t]
    BY <1>4, <2>1, <2>2, <2>3, <2>4, ActionEdited
  <2> QED
    BY <1>1, <1>2, <1>3, <1>4, <1>5, <1>6, <2>5, ActionKeeps
<1>7. CASE ActionEnds(s)
  <2>1. ActionCalm /\ action'[s].pc = "complete" /\ \A t \in Sessions \ {s} : action'[t] = action[t]
    BY <1>1, <1>7, ActionEnding DEF ActionEnds
  <2>2. ~ActionHolds(s)' /\ serial' = FALSE
    BY <1>7, <2>1 DEF ActionHolds, ActionEnds
  <2> QED
    BY <1>1, <1>2, <1>3, <1>4, <1>5, <2>1, <2>2, ActionKeeps
<1> QED
  BY <1>6, <1>7 DEF ActionHidden

LEMMA ActionFailsKeeps == ASSUME SupervisorInv, NEW s \in Sessions, ActionFails(s) PROVE SupervisorInv'
<1>1. /\ action[s].pc \in {"lock", "state", "hidden", "copy"} /\ ActionGo(s, "complete")
      /\ session' = Forgot(s, <<"paste", action[s].display>>)
      /\ serial' = IF action[s].pc = "lock" THEN serial ELSE FALSE
      /\ UNCHANGED <<revision, visible, requested, process, request, dismissal, stopper, child, down, up, pasted>>
  BY DEF ActionFails, ActionUnchanged, flags
<1>2. SessionCalm /\ HearsNothing
  BY <1>1, ForgetsCalmly
<1>3. DownCalm /\ UpCalm /\ ChildCalm /\ ProcessCalm
  BY <1>1, <1>2, Unmoved, UpSame
<1>4. visible' \in Nat /\ requested' \in Nat
  BY <1>1, ActionOf
<1>5. ActionCalm /\ action'[s].pc = "complete" /\ \A t \in Sessions \ {s} : action'[t] = action[t]
  BY <1>1, ActionEnding
<1>6. ~ActionHolds(s)' /\ (action[s].pc # "lock" => ActionHolds(s))
  BY <1>1, <1>5 DEF ActionHolds
<1> QED
  BY <1>1, <1>2, <1>3, <1>4, <1>5, <1>6, ActionKeeps

LEMMA ActionCompletesKeeps ==
  ASSUME SupervisorInv, NEW s \in Sessions, ActionCompletes(s) PROVE SupervisorInv'
<1> DEFINE old == session[s]
           d == IF old.display = action[s].display /\ IsCurrent(old.display) /\ ~old.shown THEN 0 ELSE old.display
           m == Message("result", action[s].performed, action[s].display)
<1>1. /\ action[s].pc = "complete" /\ ~serial
      /\ UNCHANGED <<revision, visible, requested, serial, process, request, dismissal, stopper, child, up, pasted>>
  BY DEF ActionCompletes, ActionUnchanged, flags
<1>2. session' = [session EXCEPT ![s].display = d] /\ down' = WriteTo(s, m)
  BY DEF ActionCompletes, SupervisorInv, SupervisorTyped, SessionState
<1>3. d \in {old.display, 0}
  OBVIOUS
<1>4. m \in DownMessage /\ m.type # "show" /\ m.type # "hide"
  BY ActionOf DEF Message, DownMessage
<1>5. SessionCalm /\ HearsNothing
  <2> HIDE DEF d
  <2> QED
    BY <1>2, <1>3, Clears
<1>6. DownCalm
  <2> HIDE DEF m
  <2> QED
    BY <1>2, <1>4, WritesCalmly
<1>7. UpCalm /\ ChildCalm /\ ProcessCalm
  BY <1>1, <1>5, Unmoved, UpSame
<1>8. visible' \in Nat /\ requested' \in Nat
  BY <1>1, ActionOf
<1>9. action' = [action EXCEPT ![s] = NoAction] \/ ActionGo(s, "unsent")
  BY DEF ActionCompletes
<1>10. ActionCalm /\ action'[s].pc \in {"none", "unsent"} /\ \A t \in Sessions \ {s} : action'[t] = action[t]
  BY <1>1, <1>9, ActionEnding, ActionEnded
<1>11. ~ActionHolds(s)'
  BY <1>10 DEF ActionHolds
<1> QED
  BY <1>1, <1>5, <1>6, <1>7, <1>8, <1>10, <1>11, ActionKeeps

LEMMA HiddenTyped == ASSUME SupervisorInv, NEW n, Hidden(n) PROVE visible' \in Nat /\ requested' \in Nat
  BY DEF SupervisorInv, SupervisorTyped, Hidden

LEMMA ActionStopsKeeps == ASSUME SupervisorInv, NEW s \in Sessions, ActionStops(s) PROVE SupervisorInv'
<1>1. /\ action[s].pc = "unsent" /\ ~serial
      /\ UNCHANGED <<revision, process, request, dismissal, stopper, child, up, pasted>>
  BY DEF ActionStops, ActionUnchanged
<1>2. CASE /\ Hidden(session[s].asked) /\ AskToStop(s)
           /\ ActionGo(s, "stopping") /\ serial' = TRUE
  <2>1. SessionCalm /\ HearsNothing /\ DownCalm
    BY <1>2, AsksToStop
  <2>2. UpCalm /\ ChildCalm /\ ProcessCalm
    BY <1>1, <2>1, Unmoved, UpSame
  <2>3. visible' \in Nat /\ requested' \in Nat
    BY <1>2, HiddenTyped
  <2>4. ActionCalm /\ \A t \in Sessions \ {s} : action'[t] = action[t]
    BY <1>1, <1>2, ActionEnding
  <2> QED
    BY <1>1, <1>2, <2>1, <2>2, <2>3, <2>4, ActionKeeps
<1>3. CASE action' = [action EXCEPT ![s] = NoAction] /\ UNCHANGED <<flags, session, serial, down>>
  <2>1. SessionCalm /\ DownCalm /\ UpCalm /\ ChildCalm /\ ProcessCalm
    BY <1>1, <1>3, Unmoved
  <2>2. visible' \in Nat /\ requested' \in Nat
    BY <1>3, ActionOf DEF flags
  <2>3. ActionCalm /\ action'[s].pc = "none" /\ \A t \in Sessions \ {s} : action'[t] = action[t]
    BY <1>1, <1>3, ActionEnded
  <2>4. ~ActionHolds(s)'
    BY <2>3 DEF ActionHolds
  <2> QED
    BY <1>1, <1>3, <2>1, <2>2, <2>3, <2>4, ActionKeeps
<1> QED
  BY <1>2, <1>3 DEF ActionStops

LEMMA ActionStoppedKeeps == ASSUME SupervisorInv, NEW s \in Sessions, ActionStopped(s) PROVE SupervisorInv'
<1>1. /\ action[s].pc = "stopping" /\ action' = [action EXCEPT ![s] = NoAction] /\ serial' = FALSE
      /\ UNCHANGED <<revision, visible, requested, request, dismissal, stopper, pasted>>
  BY DEF ActionStopped, flags
<1>2. SessionCalm /\ ChildCalm /\ DownCalm /\ UpCalm /\ ProcessCalm
  BY StopsChild DEF ActionStopped
<1>3. visible' \in Nat /\ requested' \in Nat
  BY <1>1, ActionOf
<1>4. ActionCalm /\ action'[s].pc = "none" /\ \A t \in Sessions \ {s} : action'[t] = action[t]
  BY <1>1, ActionEnded
<1>5. ActionHolds(s) /\ ~ActionHolds(s)'
  BY <1>1, <1>4 DEF ActionHolds
<1> QED
  BY <1>1, <1>2, <1>3, <1>4, <1>5, ActionKeeps

LEMMA TaskKeeps ==
  ASSUME SupervisorInv, revision' \in {revision, revision + 1}, visible' \in Nat, requested' \in Nat,
         serial' \in {serial, TRUE, FALSE}, UNCHANGED <<request, action, pasted>>,
         dismissal' \in [Sessions -> DismissalState], stopper' \in [Sessions -> StopperState],
         SessionCalm, DownCalm, UpCalm, ChildCalm, ProcessCalm, Exclusive'
  PROVE  SupervisorInv'
<1>1. revision' \in Nat /\ ActionCalm
  BY Numbers, Unmoved DEF SupervisorInv, SupervisorTyped
<1>2. serial' \in BOOLEAN
  BY DEF SupervisorInv, SupervisorTyped
<1>3. RestTyped'
  BY <1>1, <1>2 DEF RestTyped
<1>4. RequestCalm
  BY RequestsSame DEF ProcessCalm
<1> QED
  BY <1>1, <1>3, <1>4, StepKeeps

LEMMA TaskOf ==
  ASSUME SupervisorInv
  PROVE  /\ Exclusive /\ dismissal \in [Sessions -> DismissalState] /\ stopper \in [Sessions -> StopperState]
         /\ visible \in Nat /\ requested \in Nat /\ revision \in Nat
         /\ NoDismissal \in DismissalState /\ NoDismissal.pc = "none"
         /\ NoStopper \in StopperState /\ NoStopper.pc = "none"
  BY DEF SupervisorInv, SupervisorTyped, NoDismissal, NoStopper, DismissalState, StopperState

LEMMA DismissLockKeeps == ASSUME SupervisorInv, NEW s \in Sessions, DismissLock(s) PROVE SupervisorInv'
<1> DEFINE o == [dismissal[s] EXCEPT !.pc = "restore"]
<1>1. /\ dismissal[s].pc = "lock" /\ ~serial
      /\ UNCHANGED <<revision, visible, requested, process, request, action, stopper, child, down, up, pasted>>
  BY DEF DismissLock, flags, pipes
<1>2. /\ Exclusive /\ dismissal \in [Sessions -> DismissalState] /\ stopper' \in [Sessions -> StopperState]
      /\ visible' \in Nat /\ requested' \in Nat /\ NoDismissal \in DismissalState /\ NoDismissal.pc = "none"
  BY <1>1, TaskOf
<1>3. SessionCalm /\ HearsNothing
  <2>1. CASE session' = [session EXCEPT ![s].display = 0, ![s].shown = FALSE]
    <3>1. 0 \in {session[s].display, 0}
      OBVIOUS
    <3> QED
      BY <2>1, <3>1, Clears
  <2>2. CASE UNCHANGED session
    BY <2>2, Unmoved
  <2> QED
    BY <2>1, <2>2 DEF DismissLock
<1>4. DownCalm /\ UpCalm /\ ChildCalm /\ ProcessCalm
  BY <1>1, <1>3, Unmoved, UpSame
<1>5. CASE dismissal' = [dismissal EXCEPT ![s].pc = "restore"] /\ serial' = TRUE
  <2>1. o \in DismissalState /\ dismissal' = [dismissal EXCEPT ![s] = o]
    BY <1>2, <1>5 DEF DismissalState
  <2> HIDE DEF o
  <2>2. dismissal' \in [Sessions -> DismissalState] /\ \A t \in Sessions \ {s} : dismissal'[t] = dismissal[t]
    BY <1>2, <2>1
  <2>3. Exclusive'
    BY <1>1, <1>2, <1>5, <2>2, DismissalTurn
  <2> QED
    BY <1>1, <1>2, <1>3, <1>4, <1>5, <2>2, <2>3, TaskKeeps
<1>6. CASE dismissal' = [dismissal EXCEPT ![s] = NoDismissal] /\ UNCHANGED serial
  <2>1. /\ dismissal' \in [Sessions -> DismissalState] /\ dismissal'[s].pc = "none"
        /\ \A t \in Sessions \ {s} : dismissal'[t] = dismissal[t]
    BY <1>2, <1>6
  <2>2. ~DismissalHolds(s)'
    BY <2>1 DEF DismissalHolds
  <2>3. Exclusive'
    BY <1>1, <1>2, <1>6, <2>1, <2>2, DismissalTurn
  <2> QED
    BY <1>1, <1>2, <1>3, <1>4, <1>6, <2>1, <2>3, TaskKeeps
<1> QED
  BY <1>5, <1>6 DEF DismissLock

LEMMA DismissEndsKeeps == ASSUME SupervisorInv, NEW s \in Sessions, DismissEnds(s) PROVE SupervisorInv'
<1>1. /\ dismissal' = [dismissal EXCEPT ![s] = NoDismissal]
      /\ serial' = IF dismissal[s].pc = "restore" THEN FALSE ELSE serial
      /\ UNCHANGED <<revision, visible, requested, process, session, request, action, stopper, child, down, up, pasted>>
  BY DEF DismissEnds, flags, pipes
<1>2. /\ Exclusive /\ dismissal \in [Sessions -> DismissalState] /\ stopper' \in [Sessions -> StopperState]
      /\ visible' \in Nat /\ requested' \in Nat /\ NoDismissal \in DismissalState /\ NoDismissal.pc = "none"
  BY <1>1, TaskOf
<1>3. SessionCalm /\ DownCalm /\ UpCalm /\ ChildCalm /\ ProcessCalm
  BY <1>1, Unmoved
<1>4. /\ dismissal' \in [Sessions -> DismissalState] /\ dismissal'[s].pc = "none"
      /\ \A t \in Sessions \ {s} : dismissal'[t] = dismissal[t]
  BY <1>1, <1>2
<1>5. ~DismissalHolds(s)' /\ (dismissal[s].pc = "restore" => DismissalHolds(s))
  BY <1>4 DEF DismissalHolds
<1>6. Exclusive'
  BY <1>1, <1>2, <1>4, <1>5, DismissalTurn
<1> QED
  BY <1>1, <1>2, <1>3, <1>4, <1>6, TaskKeeps

LEMMA StopperStopsKeeps == ASSUME SupervisorInv, NEW s \in Sessions, StopperStops(s) PROVE SupervisorInv'
<1> DEFINE o == [stopper[s] EXCEPT !.pc = "stopping"]
<1>1. /\ stopper[s].pc = "lock" /\ ~serial
      /\ UNCHANGED <<revision, process, request, action, dismissal, child, up, pasted>>
  BY DEF StopperStops
<1>2. /\ Exclusive /\ dismissal' \in [Sessions -> DismissalState] /\ stopper \in [Sessions -> StopperState]
      /\ visible \in Nat /\ requested \in Nat /\ NoStopper \in StopperState /\ NoStopper.pc = "none"
  BY <1>1, TaskOf
<1>3. CASE /\ IF stopper[s].matching THEN Hidden(session[s].asked) ELSE UNCHANGED flags
           /\ AskToStop(s) /\ serial' = TRUE
           /\ stopper' = [stopper EXCEPT ![s].pc = "stopping"]
  <2>1. SessionCalm /\ HearsNothing /\ DownCalm
    BY <1>3, AsksToStop
  <2>2. UpCalm /\ ChildCalm /\ ProcessCalm
    BY <1>1, <2>1, Unmoved, UpSame
  <2>3. visible' \in Nat /\ requested' \in Nat
    BY <1>2, <1>3, HiddenTyped DEF flags
  <2>4. o \in StopperState /\ stopper' = [stopper EXCEPT ![s] = o]
    BY <1>2, <1>3 DEF StopperState
  <2> HIDE DEF o
  <2>5. stopper' \in [Sessions -> StopperState] /\ \A t \in Sessions \ {s} : stopper'[t] = stopper[t]
    BY <1>2, <2>4
  <2>6. Exclusive'
    BY <1>1, <1>2, <1>3, <2>5, StopperTurn
  <2> QED
    BY <1>1, <1>2, <1>3, <2>1, <2>2, <2>3, <2>5, <2>6, TaskKeeps
<1>4. CASE stopper' = [stopper EXCEPT ![s] = NoStopper] /\ UNCHANGED <<flags, session, serial, down>>
  <2>1. SessionCalm /\ DownCalm /\ UpCalm /\ ChildCalm /\ ProcessCalm
    BY <1>1, <1>4, Unmoved
  <2>2. visible' \in Nat /\ requested' \in Nat
    BY <1>2, <1>4 DEF flags
  <2>3. /\ stopper' \in [Sessions -> StopperState] /\ stopper'[s].pc = "none"
        /\ \A t \in Sessions \ {s} : stopper'[t] = stopper[t]
    BY <1>2, <1>4
  <2>4. ~StopperHolds(s)'
    BY <2>3 DEF StopperHolds
  <2>5. Exclusive'
    BY <1>1, <1>2, <1>4, <2>3, <2>4, StopperTurn
  <2> QED
    BY <1>1, <1>2, <1>4, <2>1, <2>2, <2>3, <2>5, TaskKeeps
<1> QED
  BY <1>3, <1>4 DEF StopperStops

LEMMA StopperStoppedKeeps == ASSUME SupervisorInv, NEW s \in Sessions, StopperStopped(s) PROVE SupervisorInv'
<1>1. /\ stopper[s].pc = "stopping" /\ stopper' = [stopper EXCEPT ![s] = NoStopper] /\ serial' = FALSE
      /\ UNCHANGED <<revision, visible, requested, request, action, dismissal, pasted>>
  BY DEF StopperStopped, flags
<1>2. /\ Exclusive /\ dismissal' \in [Sessions -> DismissalState] /\ stopper \in [Sessions -> StopperState]
      /\ visible' \in Nat /\ requested' \in Nat /\ NoStopper \in StopperState /\ NoStopper.pc = "none"
  BY <1>1, TaskOf
<1>3. SessionCalm /\ ChildCalm /\ DownCalm /\ UpCalm /\ ProcessCalm
  BY StopsChild DEF StopperStopped
<1>4. /\ stopper' \in [Sessions -> StopperState] /\ stopper'[s].pc = "none"
      /\ \A t \in Sessions \ {s} : stopper'[t] = stopper[t]
  BY <1>1, <1>2
<1>5. StopperHolds(s) /\ ~StopperHolds(s)'
  BY <1>1, <1>4 DEF StopperHolds
<1>6. Exclusive'
  BY <1>1, <1>2, <1>4, <1>5, StopperTurn
<1> QED
  BY <1>1, <1>2, <1>3, <1>4, <1>6, TaskKeeps

LEMMA InvalidateKeeps == ASSUME SupervisorInv, Invalidate PROVE SupervisorInv'
<1>1. /\ revision' = revision + 1
      /\ UNCHANGED <<visible, requested, serial, process, request, action, dismissal, child, down, up, pasted>>
  BY DEF Invalidate, flags, pipes
<1>2. /\ SessionCalm /\ HearsNothing
      /\ stopper' \in [Sessions -> StopperState] /\ \A t \in Sessions : StopperHolds(t)' => StopperHolds(t)
  <2>1. CASE UNCHANGED <<session, stopper>>
    BY <2>1, Unmoved, TaskOf DEF StopperHolds
  <2>2. CASE /\ process # 0 /\ session' = Cancelled(process)
             /\ stopper' = [stopper EXCEPT ![process].pc = IF @ = "none" THEN "lock" ELSE @]
    <3>1. process \in Sessions
      BY <2>2 DEF SupervisorInv, SupervisorTyped, Sessions
    <3> QED
      BY <2>2, <3>1, Cancels, SchedulesStop
  <2> QED
    BY <2>1, <2>2 DEF Invalidate
<1>3. UpCalm /\ ActionCalm /\ dismissal' \in [Sessions -> DismissalState]
  BY <1>1, <1>2, UpSame, Unmoved, TaskOf
<1>4. \A t \in Sessions : (DismissalHolds(t)' => DismissalHolds(t)) /\ (ActionHolds(t)' => ActionHolds(t))
  BY <1>1 DEF DismissalHolds, ActionHolds
<1> QED
  BY <1>1, <1>2, <1>3, <1>4, ReaderKeeps

-----------------------------------------------------------------------------
(* The steps of a child that show nothing.                                 *)

LEMMA ChildStepKeeps ==
  ASSUME SupervisorInv, ChildUnchanged, DownCalm, UpCalm, ChildCalm PROVE SupervisorInv'
<1>1. UNCHANGED <<revision, visible, requested, serial, process, session, request, action, dismissal, stopper, pasted>>
  BY DEF ChildUnchanged, flags, tasks
<1>2. SessionCalm /\ ProcessCalm /\ dismissal' \in [Sessions -> DismissalState]
      /\ stopper' \in [Sessions -> StopperState] /\ visible' \in Nat /\ requested' \in Nat /\ Exclusive
  BY <1>1, Unmoved, TaskOf
<1>3. Exclusive'
  BY <1>1, <1>2, NobodyLocks DEF Held, ActionHolds, DismissalHolds, StopperHolds
<1> QED
  BY <1>1, <1>2, <1>3, TaskKeeps

LEMMA ChildOf ==
  ASSUME SupervisorInv, NEW s \in Sessions
  PROVE  child[s] \in ChildState /\ child[s].display \in Nat /\ s \in Nat
  BY DEF SupervisorInv, SupervisorTyped, ChildState, Sessions

LEMMA ChildFailsKeeps == ASSUME SupervisorInv, NEW s \in Sessions, ChildFails(s) PROVE SupervisorInv'
<1> DEFINE id == IF child[s].open THEN <<"event", s>> ELSE <<"show", child[s].display>>
<1>1. ChildUnchanged /\ UNCHANGED <<session, down>> /\ child' = ChildHides(s) /\ Say(s, "failed", id, 0)
  BY DEF ChildFails, ChildUnchanged
<1>2. id \in Tags \cup ({"event", "action"} \X Nat)
  BY ChildOf DEF Tags
<1> HIDE DEF id
<1>3. Message("failed", id, 0) \in UpMessage
  BY <1>2 DEF Message, UpMessage
<1>4. UpCalm
  BY <1>1, <1>3, SpeaksCalmly
<1>5. ChildCalm /\ DownCalm
  BY <1>1, ChildGoes, Unmoved
<1> QED
  BY <1>1, <1>4, <1>5, ChildStepKeeps

LEMMA UserPastesKeeps == ASSUME SupervisorInv, NEW s \in Sessions, UserPastes(s) PROVE SupervisorInv'
<1> DEFINE id == <<"action", s>>
           n == child[s].display
<1>1. /\ ChildUnchanged /\ UNCHANGED <<session, down>> /\ child' = [child EXCEPT ![s].pasting = TRUE]
      /\ Say(s, "paste", id, n)
  BY DEF UserPastes, ChildUnchanged
<1>2. id \in {"event", "action"} \X Nat /\ n \in Nat
  BY ChildOf
<1> HIDE DEF id, n
<1>3. Message("paste", id, n) \in UpMessage
  BY <1>2 DEF Message, UpMessage
<1>4. UpCalm
  BY <1>1, <1>2, <1>3, SpeaksCalmly
<1>5. ChildCalm /\ DownCalm
  BY <1>1, ChildGoes, Unmoved
<1> QED
  BY <1>1, <1>4, <1>5, ChildStepKeeps

LEMMA UserDismissesKeeps == ASSUME SupervisorInv, NEW s \in Sessions, UserDismisses(s) PROVE SupervisorInv'
<1> DEFINE n == child[s].display
<1>1. ChildUnchanged /\ UNCHANGED <<session, down>> /\ child' = ChildHides(s)
  BY DEF UserDismisses, ChildUnchanged
<1>2. PICK reason \in {"cancel", "blur"} : Say(s, "dismiss", reason, n)
  BY DEF UserDismisses
<1>3. n \in Nat
  BY ChildOf
<1> HIDE DEF n
<1>4. Message("dismiss", reason, n) \in UpMessage
  BY <1>3 DEF Message, UpMessage
<1>5. UpCalm
  BY <1>1, <1>2, <1>3, <1>4, SpeaksCalmly
<1>6. ChildCalm /\ DownCalm
  BY <1>1, ChildGoes, Unmoved
<1> QED
  BY <1>1, <1>5, <1>6, ChildStepKeeps

LEMMA ChildCrashesKeeps == ASSUME SupervisorInv, NEW s \in Sessions, ChildCrashes(s) PROVE SupervisorInv'
<1>1. /\ ChildUnchanged /\ UNCHANGED <<session, up>> /\ child' = [ChildHides(s) EXCEPT ![s].up = FALSE]
      /\ down' = [down EXCEPT ![s] = <<>>]
  BY DEF ChildCrashes, ChildUnchanged
<1>2. ChildCalm /\ DownCalm /\ UpCalm
  BY <1>1, ChildGoes, DownEmptied, Unmoved
<1> QED
  BY <1>1, <1>2, ChildStepKeeps

\* A child is started: the only step after which there is one that was not there.
LEMMA StartFails ==
  ASSUME SupervisorInv, NEW r \in Requests, Held(r), Fails(r, "error"), serial' = FALSE,
         UNCHANGED <<revision, visible, requested, process, session, action, dismissal, stopper, child, down, up, pasted>>
  PROVE  SupervisorInv'
<1>1. SessionCalm /\ HearsNothing /\ UNCHANGED pipes
  BY Unmoved DEF pipes
<1>2. RequestCalm /\ ~Held(r)' /\ \A q \in Requests \ {r} : request'[q] = request[q]
  BY HolderFails
<1> QED
  BY <1>1, <1>2, HolderLetsGo

LEMMA Starts ==
  ASSUME SupervisorInv, NEW r \in Requests, request[r].pc \in {"start", "locked"}, process = 0,
         NEW s \in Sessions, ~session[s].made, process' = s,
         child' = [child EXCEPT ![s].up = TRUE],
         session' = [session EXCEPT ![s].made = TRUE, ![s].asked = request[r].rev, ![s].reading = TRUE,
                                    ![s].replies = {<<"ready", s>>}],
         down' = [down EXCEPT ![s] = <<Message("initialize", <<"ready", s>>, 0)>>],
         request' = [request EXCEPT ![r].pc = "ready", ![r].owner = s, ![r].display = 0],
         UNCHANGED <<revision, visible, requested, serial, action, dismissal, stopper, up, pasted>>
  PROVE  SupervisorInv'
<1> DEFINE old == session[s]
           n == request[r].rev
           o == [old EXCEPT !.made = TRUE, !.asked = n, !.reading = TRUE, !.replies = {<<"ready", s>>}]
           c == [child[s] EXCEPT !.up = TRUE]
           m == Message("initialize", <<"ready", s>>, 0)
           q == [request[r] EXCEPT !.pc = "ready", !.owner = s, !.display = 0]
<1>1. SupervisorTyped /\ Exclusive /\ Single /\ Fresh
  BY DEF SupervisorInv
<1>2. /\ old \in SessionState /\ child[s] \in ChildState /\ request[r] \in RequestState /\ n \in Nat
      /\ s \in Nat /\ s # 0 /\ s \in 0 .. MaxSessions /\ (child[s].open => child[s].up)
  BY Owner, ChildOf, SMTT(30) DEF SupervisorInv, SupervisorTyped, InOrder, Sessions
<1>3. /\ session' = [session EXCEPT ![s] = o] /\ child' = [child EXCEPT ![s] = c]
      /\ request' = [request EXCEPT ![r] = q] /\ down' = [down EXCEPT ![s] = <<m>>]
  BY <1>1 DEF SupervisorTyped
<1>4. o \in SessionState /\ c \in ChildState /\ q \in RequestState
  <2>1. <<"ready", s>> \in Tags
    BY <1>2 DEF Tags
  <2>2. "ready" \in Stages
    BY DEF Stages, Locking
  <2> QED
    BY <1>2, <2>1, <2>2 DEF SessionState, ChildState, RequestState
<1>5. /\ o.made /\ o.cancelled = old.cancelled /\ o.display = old.display /\ o.shown = old.shown
      /\ o.got = old.got /\ o.reading
      /\ c.up /\ c.display = child[s].display /\ c.open = child[s].open
      /\ q.pc = "ready" /\ q.owner = s /\ q.rev = n
  BY <1>2 DEF SessionState, ChildState, RequestState
<1>6. m \in DownMessage /\ m.type = "initialize"
  <2>1. <<"ready", s>> \in {"ready"} \X Nat /\ <<"ready", s>> \in Tags
    BY <1>2 DEF Tags
  <2> QED
    BY <2>1 DEF Message, DownMessage
<1> HIDE DEF o, c, m, q
<1>7. /\ session'[s] = o /\ \A t \in Sessions \ {s} : session'[t] = session[t]
      /\ child'[s] = c /\ \A t \in Sessions \ {s} : child'[t] = child[t]
      /\ down'[s] = <<m>> /\ \A t \in Sessions \ {s} : down'[t] = down[t]
      /\ request'[r] = q /\ \A p \in Requests \ {r} : request'[p] = request[p]
  BY <1>1, <1>3, ZenonT(30) DEF SupervisorTyped
<1>8. <<m>> \in Seq(DownMessage)
  BY <1>6
<1>9. SupervisorTyped'
  <2>1. /\ session \in [Sessions -> SessionState] /\ child \in [Sessions -> ChildState]
        /\ request \in [Requests -> RequestState] /\ down \in [Sessions -> Seq(DownMessage)]
    BY <1>1 DEF SupervisorTyped
  <2>2. session' \in [Sessions -> SessionState]
    BY <1>3, <1>4, <2>1
  <2>3. child' \in [Sessions -> ChildState]
    BY <1>3, <1>4, <2>1
  <2>4. request' \in [Requests -> RequestState]
    BY <1>3, <1>4, <2>1
  <2>5. down' \in [Sessions -> Seq(DownMessage)]
    BY <1>3, <1>8, <2>1
  <2> QED
    BY <1>1, <1>2, <2>2, <2>3, <2>4, <2>5 DEF SupervisorTyped
<1>10. \A t \in Sessions : SessionKept(t) /\ session'[t].got = session[t].got
  <2>1. \A t \in Sessions : /\ session'[t].cancelled = session[t].cancelled /\ session'[t].display = session[t].display
                           /\ session'[t].shown = session[t].shown /\ session'[t].got = session[t].got
    BY <1>5, <1>7, ZenonT(30)
  <2> QED
    BY <2>1 DEF SessionKept
<1>11. \A t \in Sessions : ChildKept(t)
  BY <1>2, <1>5, <1>7 DEF ChildKept, SupervisorInv, InOrder
<1>12. \A t \in Sessions : AnswersKept(t) /\ ActionKept(t)
  BY <1>10, Unmoved, AnswersSame DEF ActionCalm
<1>13. \A t \in Sessions : DownKept(t)
  <2>1. Len(down'[s]) = 1 /\ down'[s][1] = m
    BY <1>7
  <2>2. \A i \in Nat : ~ShowAt(s, i)'
    BY <1>6, <2>1 DEF ShowAt
  <2>3. \A k \in Nat : ~ToHide(s, k)'
    BY <1>6, <2>1 DEF ToHide
  <2> QED
    BY <1>7, <2>2, <2>3, DownSame DEF DownKept
<1>14. RequestsKept
  <2>1. \A p \in Requests : request[p].rev \in Nat /\ request[p].rev <= revision /\ revision \in Nat
    BY Owner, Numbers
  <2>2. "ready" \in Asking /\ request[r].pc \in Asking /\ "ready" # "idle" /\ request[r].pc # "idle"
    BY DEF Asking
  <2>3. \A p \in Requests : (request[p].pc = "idle" <=> request[p].rev = 0)
    BY <1>1 DEF Fresh
  <2>4. /\ request'[r].pc = "idle" <=> request'[r].rev = 0
        /\ request'[r].rev = request[r].rev
        /\ request'[r].pc \in Asking => request[r].pc \in Asking
    BY <1>5, <1>7, <2>2, <2>3
  <2>5. \A p \in Requests : /\ request'[p].pc = "idle" <=> request'[p].rev = 0
                            /\ request'[p].rev = request[p].rev
                            /\ request'[p].pc \in Asking => request[p].pc \in Asking
    BY <1>7, <2>3, <2>4
  <2> HIDE DEF n
  <2>6. revision <= revision'
    BY <2>1
  <2>7. ASSUME NEW p \in Requests PROVE ~(request'[p].rev > revision)
    <3>1. request'[p].rev = request[p].rev
      BY <2>5
    <3>2. request[p].rev \in Nat /\ request[p].rev <= revision /\ revision \in Nat
      BY <2>1
    <3> QED
      BY <3>1, <3>2
  <2>8. \A p \in Requests :
          /\ request'[p].pc = "idle" <=> request'[p].rev = 0
          /\ \/ request'[p].rev = 0
             \/ request'[p].rev = request[p].rev /\ (request'[p].pc \in Asking => request[p].pc \in Asking)
             \/ request'[p].rev = revision' /\ revision' > revision
    BY <2>5
  <2>9. \A p, w \in Requests : request'[p].rev > revision /\ request'[w].rev > revision => p = w
    BY <2>7
  <2> QED
    BY <2>6, <2>8, <2>9 DEF RequestsKept
<1>15. Held(r)
  BY DEF Held, Locking
<1>16. Exclusive'
  BY <1>1, <1>7, <1>15, RequestTurn
<1>17. Single'
  <2>1. ASSUME NEW t \in Sessions
        PROVE  /\ child'[t].up => process' = t
               /\ session'[t].made /\ ~session'[t].cancelled => process' = t
               /\ session'[t].shown => session'[t].made /\ ~session'[t].cancelled
               /\ session'[t].reading \/ action'[t].pc # "none" => session'[t].made
    <3>1. CASE t = s
      <4>1. ~old.shown
        BY <1>1 DEF Single
      <4> QED
        BY <1>5, <1>7, <3>1, <4>1
    <3>2. CASE t # s
      <4>1. session'[t] = session[t] /\ child'[t] = child[t]
        BY <1>7, <3>2
      <4>2. action' = action /\ t # 0
        BY DEF Sessions
      <4>3. ~child[t].up /\ ~(session[t].made /\ ~session[t].cancelled)
        BY <1>1, <4>2 DEF Single
      <4>4. session[t].shown => session[t].made /\ ~session[t].cancelled
        BY <1>1 DEF Single
      <4>5. session[t].reading \/ action[t].pc # "none" => session[t].made
        BY <1>1 DEF Single
      <4>6. ~child'[t].up /\ ~(session'[t].made /\ ~session'[t].cancelled)
        BY <4>1, <4>3
      <4>7. session'[t].reading \/ action'[t].pc # "none" => session'[t].made
        BY <4>1, <4>5, <4>2
      <4> QED
        BY <4>1, <4>4, <4>6, <4>7
    <3> QED
      BY <3>1, <3>2
  <2>2. process' # 0 => session'[process'].made
    BY <1>5, <1>7
  <2>3. ASSUME NEW p \in Requests
        PROVE  /\ request'[p].pc = "start" => process' = 0
               /\ request'[p].pc = "locked" => process' \in {0, request'[p].owner}
               /\ request'[p].pc \in WithChild => request'[p].owner # 0
               /\ request'[p].pc \in {"ready", "handoff", "shown"} => session'[request'[p].owner].made
    <3>1. CASE p = r
      BY <1>2, <1>5, <1>7, <3>1, ZenonT(30)
    <3>2. CASE p # r
      <4>1. request'[p] = request[p] /\ ~Held(p)
        BY <1>1, <1>7, <1>15, <3>2 DEF Exclusive
      <4>2. request[p].pc \notin Locking
        BY <4>1 DEF Held
      <4> QED
        BY <1>1, <4>1, <4>2 DEF Locking, Single
    <3> QED
      BY <3>1, <3>2
  <2> QED
    BY <2>1, <2>2, <2>3 DEF Single
<1>18. Fresh'
  BY <1>9, <1>10, <1>12, <1>14, KeptFresh
<1>19. \A t \in Sessions : InOrder(t)' /\ OfRequests(t)' /\ Quiet(t)'
  BY <1>9, <1>10, <1>11, <1>12, <1>13, <1>14, KeptShows DEF Kept
<1> QED
  BY <1>9, <1>16, <1>17, <1>18, <1>19 DEF SupervisorInv

LEMMA StartChildKeeps == ASSUME SupervisorInv, NEW r \in Requests, StartChild(r) PROVE SupervisorInv'
<1>1. /\ request[r].pc \in {"start", "locked"} /\ (request[r].pc = "locked" => process = 0)
      /\ UNCHANGED <<revision, visible, requested, action, dismissal, stopper, up, pasted>>
  BY DEF StartChild, flags
<1>2. process = 0 /\ Held(r)
  BY <1>1 DEF SupervisorInv, Single, Held, Locking
<1>3. CASE Fails(r, "error") /\ serial' = FALSE /\ UNCHANGED <<process, session, child, down>>
  BY <1>1, <1>2, <1>3, StartFails
<1>4. CASE /\ \E s \in Sessions :
                /\ ~session[s].made /\ process' = s
                /\ child' = [child EXCEPT ![s].up = TRUE]
                /\ session' = [session EXCEPT ![s].made = TRUE, ![s].asked = request[r].rev, ![s].reading = TRUE,
                                              ![s].replies = {<<"ready", s>>}]
                /\ down' = [down EXCEPT ![s] = <<Message("initialize", <<"ready", s>>, 0)>>]
                /\ request' = [request EXCEPT ![r].pc = "ready", ![r].owner = s, ![r].display = 0]
           /\ UNCHANGED serial
  BY <1>1, <1>2, <1>4, Starts
<1> QED
  BY <1>3, <1>4 DEF StartChild

\* A show that is on its way to the child is newer than all the child has been told.
LEMMA HandoffNewest ==
  ASSUME SupervisorInv, NEW r \in Requests, request[r].pc \in {"handoff", "shown"}, IsCurrent(request[r].rev),
         NEW s \in Sessions
  PROVE  /\ revision \in Nat /\ revision # 0 /\ request[r].rev = revision
         /\ request[r].pc = "handoff" => \A k \in Nat : Sent(s, k) => k < revision
         /\ \A k \in Nat : ToHide(s, k) \/ SaidHidden(s, k) => k # revision
         /\ ~(session[s].shown /\ session[s].display = revision)
         /\ ~(Pasting(s) /\ action[s].rev = revision)
         /\ pasted < revision
<1>1. Fresh /\ OfRequests(s) /\ revision \in Nat /\ pasted \in Nat /\ request[r].rev = revision
  BY DEF SupervisorInv, SupervisorTyped, IsCurrent
<1>2. revision # 0
  BY <1>1 DEF Fresh
<1>3. ASSUME request[r].pc = "handoff", NEW k \in Nat, Sent(s, k) PROVE k < revision
  <2>1. k <= revision /\ (request[r].rev = k => request[r].pc \notin Asking)
    BY <1>1, <1>3 DEF OfRequests
  <2>2. k # revision
    BY <1>1, <1>3, <2>1 DEF Asking
  <2> QED
    BY <1>1, <2>1, <2>2
<1>4. \A k \in Nat : ToHide(s, k) \/ SaidHidden(s, k) => k # revision
  BY <1>1 DEF OfRequests
<1>5. ~(session[s].shown /\ session[s].display = revision)
  BY <1>1, <1>2 DEF Fresh
<1>6. ~(Pasting(s) /\ action[s].rev = revision)
  BY <1>1 DEF Fresh
<1>7. pasted < revision
  <2>1. pasted <= revision /\ (pasted # 0 => request[r].rev # pasted)
    BY <1>1 DEF Fresh
  <2> QED
    BY <1>1, <1>2, <2>1
<1> QED
  BY <1>1, <1>2, <1>3, <1>4, <1>5, <1>6, <1>7

\* Whoever says this of a show that is written has told the child the newest.
LEMMA WritesShow ==
  ASSUME SupervisorInv, NEW s \in Sessions, NEW n \in Nat \ {0}, NEW m \in DownMessage,
         m.type = "show", m.display = n, down'[s] = Append(down[s], m),
         UNCHANGED <<child, up>>, session'[s].got = session[s].got,
         \A k \in Nat : Sent(s, k) => k < n
  PROVE  /\ InOrder(s)'
         /\ \A k \in Nat : Sent(s, k)' => Sent(s, k) \/ k = n
         /\ \A k \in Nat : ToHide(s, k)' \/ SaidHidden(s, k)' => ToHide(s, k) \/ SaidHidden(s, k)
<1>1. InOrder(s) /\ down[s] \in Seq(DownMessage) /\ child[s].display \in Nat
  BY ChildOf DEF SupervisorInv, SupervisorTyped
<1> DEFINE last == Len(down[s]) + 1
<1>2. Len(down[s]) \in Nat /\ Len(down'[s]) = last /\ down'[s][last] = m
  BY <1>1
<1>3. \A i \in 1 .. Len(down[s]) : down'[s][i] = down[s][i]
  BY <1>1
<1>4. \A i \in Nat : ShowAt(s, i)' => (ShowAt(s, i) /\ down'[s][i] = down[s][i]) \/ (i = last /\ down'[s][i] = m)
  BY <1>2, <1>3 DEF ShowAt
<1>5. \A i \in Nat : ShowAt(s, i) => down[s][i].display \in Nat /\ i < last
  BY <1>2, DownTyped DEF ShowAt, SupervisorInv
<1>6. \A i \in Nat : ShowAt(s, i) => down[s][i].display < n
  BY <1>5 DEF Sent
<1>7. child[s].display < n
  <2>1. child[s].display # 0 => Sent(s, child[s].display)
    BY DEF Sent
  <2> QED
    BY <1>1, <2>1
<1>8. \A k \in Nat : Told(s, k)' <=> Told(s, k)
  BY DEF Told
<1>9. \A k \in Nat : Told(s, k) => k < n
  BY DEF Sent
<1> HIDE DEF last
<1>10. \A i \in Nat : ShowAt(s, i)' => down'[s][i].display > child'[s].display
  BY <1>1, <1>4, <1>7 DEF InOrder
<1>11. ASSUME NEW i \in Nat, NEW j \in Nat, i < j, ShowAt(s, i)', ShowAt(s, j)'
       PROVE  down'[s][i].display < down'[s][j].display
  <2>1. last \in Nat
    BY <1>2 DEF last
  <2>2. CASE ShowAt(s, j) /\ down'[s][j] = down[s][j]
    <3>1. j < last
      BY <1>5, <2>2
    <3>2. i # last
      BY <1>11, <2>1, <3>1
    <3>3. ShowAt(s, i) /\ down'[s][i] = down[s][i]
      BY <1>4, <1>11, <3>2
    <3> QED
      BY <1>1, <1>11, <2>2, <3>3 DEF InOrder
  <2>3. CASE j = last /\ down'[s][j] = m
    <3>1. i # last
      BY <1>11, <2>1, <2>3
    <3>2. ShowAt(s, i) /\ down'[s][i] = down[s][i]
      BY <1>4, <1>11, <3>1
    <3> QED
      BY <1>6, <2>3, <3>2
  <2> QED
    BY <1>4, <1>11, <2>2, <2>3
<1>12. ASSUME NEW k \in Nat, Told(s, k)'
       PROVE  /\ \A i \in Nat : ShowAt(s, i)' => down'[s][i].display > k
              /\ child'[s].display # 0 => child'[s].display >= k
  <2>1. Told(s, k) /\ k < n
    BY <1>8, <1>9, <1>12
  <2>2. \A i \in Nat : ShowAt(s, i) => down[s][i].display > k
    BY <1>1, <2>1 DEF InOrder
  <2>3. \A i \in Nat : ShowAt(s, i)' => down'[s][i].display > k
    BY <1>4, <2>1, <2>2
  <2> QED
    BY <1>1, <2>1, <2>3 DEF InOrder
<1>13. InOrder(s)'
  BY <1>1, <1>10, <1>11, <1>12 DEF InOrder
<1>14. ASSUME NEW k \in Nat, Sent(s, k)' PROVE Sent(s, k) \/ k = n
  <2>1. CASE \E i \in Nat : ShowAt(s, i)' /\ down'[s][i].display = k
    BY <1>4, <2>1 DEF Sent
  <2>2. CASE Told(s, k)' \/ (child'[s].display = k /\ k # 0)
    BY <1>8, <2>2 DEF Sent
  <2> QED
    BY <1>14, <2>1, <2>2 DEF Sent
<1>15. ASSUME NEW k \in Nat, ToHide(s, k)' PROVE ToHide(s, k)
  <2>1. PICK i \in 1 .. Len(down'[s]) : down'[s][i].type = "hide" /\ down'[s][i].id = <<"paste", k>>
    BY <1>15 DEF ToHide
  <2>2. i # last
    BY <1>2, <2>1
  <2>3. i \in 1 .. Len(down[s])
    BY <1>2, <2>2 DEF last
  <2> QED
    BY <1>3, <2>1, <2>3 DEF ToHide
<1>16. \A k \in Nat : SaidHidden(s, k)' => SaidHidden(s, k)
  BY DEF SaidHidden
<1> QED
  BY <1>13, <1>14, <1>15, <1>16

LEMMA HandoffTo ==
  ASSUME SupervisorInv, NEW r \in Requests, Handoff(r),
         NEW s \in Sessions, s = request[r].owner, NEW n \in Nat, n = request[r].rev
  PROVE  SupervisorInv'
<1> DEFINE m == Message("show", <<"show", n>>, n)
<1>1. /\ request[r].pc = "handoff"
      /\ UNCHANGED <<revision, visible, requested, process, action, dismissal, stopper, child, up, pasted>>
  BY DEF Handoff, flags
<1>2. Held(r) /\ s \in Sessions /\ session[s].made /\ n \in Nat /\ s # 0 /\ visible' \in Nat
  BY <1>1, Owner, Numbers DEF Held, Locking, WithChild, Sessions
<1>3. CASE Ends(r) /\ serial' = FALSE /\ UNCHANGED <<session, down>>
  <2>1. SessionCalm /\ HearsNothing /\ UNCHANGED pipes
    BY <1>1, <1>3, Unmoved DEF pipes
  <2>2. RequestCalm /\ ~Held(r)' /\ \A q \in Requests \ {r} : request'[q] = request[q]
    BY <1>1, <1>3, HolderEnds
  <2> QED
    BY <1>1, <1>2, <1>3, <2>1, <2>2, HolderLetsGo
<1>4. CASE /\ StillValid(s, n) /\ session' = Waiting(s, <<"show", n>>)
           /\ down' = WriteTo(s, m) /\ Go(r, "shown") /\ UNCHANGED serial
  <2>1. <<"show", n>> \in Tags
    BY <1>2 DEF Tags
  <2>2. /\ SessionCalm /\ HearsNothing
        /\ session'[s].cancelled = session[s].cancelled /\ session'[s].display = session[s].display
    <3> DEFINE id == <<"show", n>>
    <3>1. session' = Waiting(s, id) /\ id \in Tags /\ 0 \in Nat
      BY <1>4, <2>1
    <3> HIDE DEF id
    <3>2. SessionCalm
      BY <3>1, Waits
    <3>3. HearsNothing
      BY <3>1, Waits
    <3>4. session'[s].cancelled = session[s].cancelled /\ session'[s].display = session[s].display
      BY <3>1 DEF Waiting, SupervisorInv, SupervisorTyped, SessionState
    <3> QED
      BY <3>2, <3>4, <3>3
  <2>3. m \in DownMessage /\ m.type = "show" /\ m.display = n
    BY <1>2, <2>1 DEF Message, DownMessage
  <2> HIDE DEF m
  <2>4. /\ down' \in [Sessions -> Seq(DownMessage)] /\ \A t \in Sessions \ {s} : down'[t] = down[t]
        /\ down'[s] = down[s] \/ down'[s] = Append(down[s], m)
    BY <1>2, <1>4, <2>3, Writes
  <2>5. "shown" \in Stages \ {"idle"} /\ "shown" \notin Asking /\ request[r].pc # "idle"
    BY <1>1 DEF Stages, Locking, Asking
  <2>6. RequestCalm /\ request'[r].pc = "shown" /\ \A q \in Requests \ {r} : request'[q] = request[q]
    BY <1>1, <1>2, <1>4, <2>5, RequestGoes DEF Go
  <2>7. UpCalm /\ ChildCalm /\ ProcessCalm /\ ActionCalm
    BY <1>1, <2>2, UpSame, Unmoved
  <2>8. CASE down'[s] = down[s]
    <3>1. DownCalm
      BY <2>4, <2>8, DownSame DEF DownCalm
    <3> QED
      BY <1>1, <1>2, <1>4, <2>2, <2>6, <2>7, <3>1, HolderGoes
  <2>9. CASE down'[s] = Append(down[s], m)
    <3>1. SupervisorTyped'
      BY <1>1, <1>4, <2>2, <2>4, <2>6 DEF SupervisorInv, SupervisorTyped, SessionCalm, RequestCalm
    <3>2. /\ revision \in Nat /\ revision # 0 /\ n = revision
          /\ \A k \in Nat : Sent(s, k) => k < revision
          /\ \A k \in Nat : ToHide(s, k) \/ SaidHidden(s, k) => k # revision
          /\ ~(session[s].shown /\ session[s].display = revision)
          /\ ~(Pasting(s) /\ action[s].rev = revision)
      BY <1>1, <1>2, <1>4, HandoffNewest DEF StillValid
    <3>3. Exclusive'
      BY <1>1, <1>2, <1>4, <2>6, RequestTurn DEF SupervisorInv
    <3>4. \A t \in Sessions : SessionKept(t) /\ ActionKept(t) /\ AnswersKept(t) /\ ChildKept(t)
      BY <2>2, <2>7 DEF SessionCalm, ActionCalm, UpCalm, ChildCalm
    <3>5. RequestsKept
      BY <2>6 DEF RequestCalm
    <3>6. Fresh'
      BY <1>1, <3>1, <3>4, <3>5, KeptFresh
    <3>7. Single'
      <4>1. Stays
        BY <2>2, <2>6, <2>7 DEF Stays, SessionCalm, RequestCalm, ActionCalm, ChildCalm, ProcessCalm
      <4> QED
        BY <3>1, <4>1, StaysSingle
    <3>8. session'[s].got = session[s].got
      BY <1>2, <1>4 DEF Waiting, SupervisorInv, SupervisorTyped, SessionState
    <3>9. n \in Nat \ {0} /\ \A k \in Nat : Sent(s, k) => k < n
      BY <3>2
    <3>10. /\ InOrder(s)'
           /\ \A k \in Nat : Sent(s, k)' => Sent(s, k) \/ k = n
           /\ \A k \in Nat : ToHide(s, k)' \/ SaidHidden(s, k)' => ToHide(s, k) \/ SaidHidden(s, k)
      BY <1>1, <1>2, <2>3, <2>9, <3>8, <3>9, WritesShow
    <3>11. OfRequests(s)'
      <4>1. ASSUME NEW k \in Nat, Sent(s, k)'
            PROVE  k <= revision' /\ k # 0 /\ \A q \in Requests : request'[q].rev = k => request'[q].pc \notin Asking
        <5>1. CASE k = n
          <6>1. request'[r].pc \notin Asking
            BY <2>5, <2>6
          <6>2. request[r].rev = n /\ n # 0 /\ Fresh
            BY <3>2 DEF SupervisorInv
          <6>3. \A q \in Requests \ {r} : request[q].rev # n
            BY <6>2 DEF Fresh
          <6>4. \A q \in Requests \ {r} : request'[q].rev # n
            BY <2>6, <6>3
          <6> QED
            BY <1>1, <3>2, <5>1, <6>1, <6>4
        <5>2. CASE Sent(s, k)
          <6>1. k <= revision /\ k # 0 /\ \A q \in Requests : request[q].rev = k => request[q].pc \notin Asking
            BY <1>2, <5>2 DEF SupervisorInv, OfRequests
          <6> QED
            BY <1>1, <3>2, <3>5, <6>1 DEF RequestsKept
        <5> QED
          BY <3>10, <4>1, <5>1, <5>2
      <4>2. ASSUME NEW k \in Nat, ToHide(s, k)' \/ SaidHidden(s, k)'
            PROVE  /\ k # 0 /\ k <= revision' /\ ~(session'[s].shown /\ session'[s].display = k)
                   /\ \A q \in Requests : request'[q].rev # k
        <5>1. ToHide(s, k) \/ SaidHidden(s, k)
          BY <3>10, <4>2
        <5>2. /\ k # 0 /\ k <= revision /\ ~(session[s].shown /\ session[s].display = k)
              /\ \A q \in Requests : request[q].rev # k
          BY <1>2, <5>1 DEF SupervisorInv, OfRequests
        <5>3. ~(session'[s].shown /\ session'[s].display = k)
          BY <1>2, <3>4, <5>2 DEF SessionKept
        <5> QED
          BY <1>1, <3>1, <3>2, <3>5, <5>2, <5>3, KeptRequests
      <4> QED
        BY <4>1, <4>2 DEF OfRequests
    <3>12. Quiet(s)'
      <4>1. ~(session'[s].shown /\ session'[s].display = revision')
        BY <1>1, <1>2, <2>2, <3>2, <3>4 DEF SessionKept
      <4>2. ~(Pasting(s)' /\ action'[s].rev = revision')
        BY <1>1, <1>2, <3>2, <3>4 DEF ActionKept
      <4> QED
        BY <4>1, <4>2 DEF Quiet
    <3>13. ASSUME NEW t \in Sessions \ {s} PROVE InOrder(t)' /\ OfRequests(t)' /\ Quiet(t)'
      <4>1. DownKept(t)
        BY <2>4, DownSame
      <4> QED
        BY <3>1, <3>4, <3>5, <4>1, KeptShows DEF Kept
    <3> QED
      BY <3>1, <3>3, <3>6, <3>7, <3>10, <3>11, <3>12, <3>13 DEF SupervisorInv
  <2> QED
    BY <2>4, <2>8, <2>9
<1> QED
  BY <1>3, <1>4 DEF Handoff

LEMMA HandoffKeeps == ASSUME SupervisorInv, NEW r \in Requests, Handoff(r) PROVE SupervisorInv'
<1>1. request[r].owner \in Sessions /\ request[r].rev \in Nat
  BY Owner DEF Handoff, WithChild
<1> QED
  BY <1>1, HandoffTo

\* The child that has said it shows the newest shows nothing else any more.
LEMMA ToldNewest ==
  ASSUME SupervisorInv, NEW s \in Sessions, Told(s, revision) PROVE Rests(s, revision)
<1>1. SupervisorTyped /\ InOrder(s) /\ OfRequests(s) /\ revision \in Nat /\ child[s].display \in Nat
  BY ChildOf DEF SupervisorInv, SupervisorTyped
<1>2. ASSUME NEW i \in Nat, ShowAt(s, i) PROVE FALSE
  <2>1. down[s][i].display > revision
    BY <1>1, <1>2 DEF InOrder
  <2>2. down[s][i].display \in Nat
    BY <1>1, <1>2, DownTyped DEF ShowAt
  <2>3. Sent(s, down[s][i].display)
    BY <1>2 DEF Sent
  <2>4. down[s][i].display <= revision
    BY <1>1, <2>2, <2>3 DEF OfRequests
  <2> QED
    BY <1>1, <2>1, <2>2, <2>4
<1>3. child[s].display # 0 => child[s].display >= revision
  BY <1>1 DEF InOrder
<1>4. child[s].display # 0 => child[s].display <= revision
  BY <1>1 DEF OfRequests, Sent
<1>5. child[s].display \in {0, revision}
  BY <1>1, <1>3, <1>4
<1> QED
  BY <1>2, <1>5 DEF Rests

\* The display is presented.
LEMMA Presented ==
  ASSUME SupervisorInv, NEW r \in Requests, request[r].pc = "shown",
         NEW s \in Sessions, s = request[r].owner, NEW n \in Nat, n = request[r].rev,
         Answered(s, <<"show", n>>), StillValid(s, n), session[s].display = n,
         session' = [Forgot(s, <<"show", n>>) EXCEPT ![s].shown = TRUE],
         visible' = Larger(visible, n), Ends(r), serial' = FALSE,
         UNCHANGED <<revision, requested, process, action, dismissal, stopper, child, down, up, pasted>>
  PROVE  SupervisorInv'
<1> DEFINE old == session[s]
           id == <<"show", n>>
           o == [old EXCEPT !.replies = @ \ {id}, !.got = @ \ {id}, !.shown = TRUE]
<1>1. old \in SessionState /\ session \in [Sessions -> SessionState]
  BY DEF SupervisorInv, SupervisorTyped
<1>2. session' = [session EXCEPT ![s] = o]
  BY <1>1 DEF Forgot, SessionState
<1>3. o \in SessionState
  BY <1>1 DEF SessionState
<1>4. o.made = old.made /\ o.cancelled = old.cancelled /\ o.reading = old.reading
  BY <1>1 DEF SessionState
<1>5. o.shown
  BY <1>1 DEF SessionState
<1>6. o.display = old.display /\ o.got = old.got \ {id}
  BY <1>1 DEF SessionState
<1>7. session'[s] = o /\ (\A t \in Sessions \ {s} : session'[t] = session[t]) /\ session' \in [Sessions -> SessionState]
  <2> HIDE DEF o, old, id
  <2>1. session \in [Sessions -> SessionState]
    BY <1>1
  <2>2. session'[s] = o
    BY <1>2, <2>1
  <2>3. \A t \in Sessions \ {s} : session'[t] = session[t]
    BY <1>2, <2>1
  <2>4. session' \in [Sessions -> SessionState]
    BY <1>2, <1>3, <2>1
  <2> QED
    BY <2>2, <2>3, <2>4
<1>8. session'[s].got \subseteq session[s].got
  BY <1>6, <1>7
<1>9. /\ session'[s].made = session[s].made /\ session'[s].cancelled = session[s].cancelled
      /\ session'[s].shown /\ session'[s].reading = session[s].reading
      /\ session'[s].display = session[s].display
  BY <1>4, <1>5, <1>6, <1>7
<1> HIDE DEF o, id, old
<1>10. RequestCalm /\ request'[r].pc = "idle" /\ \A q \in Requests \ {r} : request'[q] = request[q]
  BY RequestEnds
<1>11. RequestsKept /\ (\A q \in Requests : RequestStays(q)) /\ request' \in [Requests -> RequestState]
  BY <1>10 DEF RequestCalm
<1>12. Held(r) /\ ~Held(r)'
  BY <1>10 DEF Held, Locking
<1>13. ~session[s].cancelled /\ n = revision /\ session[s].made
  BY Owner DEF StillValid, IsCurrent
<1>14. /\ revision \in Nat /\ revision # 0
       /\ \A k \in Nat : ToHide(s, k) \/ SaidHidden(s, k) => k # revision
       /\ pasted < revision
  BY <1>13, HandoffNewest DEF IsCurrent
<1>15. SupervisorTyped'
  <2>1. visible' \in Nat
    BY DEF Larger, SupervisorInv, SupervisorTyped
  <2> QED
    BY <1>7, <1>11, <2>1 DEF SupervisorInv, SupervisorTyped
<1>16. Exclusive'
  BY <1>10, <1>12, RequestTurn DEF SupervisorInv
<1>17. ~Pasting(s)
  BY <1>12 DEF SupervisorInv, Exclusive, ActionHolds, Pasting
<1>18. Single'
  <2>1. \A t \in Sessions : SessionStays(t)
    BY <1>7, <1>9, <1>13 DEF SessionStays, SupervisorInv, Single
  <2>2. \A t \in Sessions : action'[t].pc # "none" => session[t].made
    BY DEF SupervisorInv, Single
  <2>3. Stays
    BY <1>11, <2>1, <2>2 DEF Stays
  <2> QED
    BY <1>15, <2>3, StaysSingle
<1>19. \A q \in Requests : request'[q].rev # n
  <2>1. Fresh
    BY DEF SupervisorInv
  <2>2. \A q \in Requests \ {r} : request[q].rev # n
    <3>1. request[r].rev = n /\ n # 0
      BY <1>13, <1>14
    <3> QED
      BY <2>1, <3>1 DEF Fresh
  <2>3. \A q \in Requests \ {r} : request'[q].rev # n
    BY <1>10, <2>2
  <2>4. request'[r].rev = 0
    BY <1>10, <1>11 DEF RequestsKept
  <2> QED
    BY <1>13, <1>14, <2>3, <2>4
<1>20. \A t \in Sessions \ {s} : SessionKept(t)
  BY <1>7, <1>15 DEF SessionKept
<1>21. \A t \in Sessions : ActionKept(t) /\ ChildKept(t) /\ DownKept(t)
  BY Unmoved DEF ActionCalm, ChildCalm, DownCalm
<1>22. \A t \in Sessions : AnswersKept(t)
  BY <1>7, <1>8, AnswersSame
<1>23. ASSUME NEW t \in Sessions \ {s} PROVE InOrder(t)' /\ OfRequests(t)' /\ Quiet(t)'
  BY <1>11, <1>15, <1>20, <1>21, <1>22, KeptShows DEF Kept
<1>24. InOrder(s)'
  BY <1>15, <1>21, <1>22, KeptInOrder DEF AnswersKept, DownKept
<1>25. OfRequests(s)'
  <2>1. /\ \A k \in Nat : Told(s, k)' => Told(s, k)
        /\ \A k \in Nat : SaidHidden(s, k)' => SaidHidden(s, k)
        /\ \A k \in Nat : ToHide(s, k)' => ToHide(s, k)
    BY <1>21, <1>22 DEF AnswersKept, DownKept
  <2>2. \A k \in Nat : Sent(s, k)' => Sent(s, k)
    BY <2>1 DEF Sent, ShowAt
  <2>3. ASSUME NEW k \in Nat, Sent(s, k)'
        PROVE  k <= revision' /\ k # 0 /\ \A q \in Requests : request'[q].rev = k => request'[q].pc \notin Asking
    <3>1. k <= revision /\ k # 0 /\ \A q \in Requests : request[q].rev = k => request[q].pc \notin Asking
      BY <2>2, <2>3 DEF SupervisorInv, OfRequests
    <3> QED
      BY <1>11, <3>1 DEF RequestsKept
  <2>4. ASSUME NEW k \in Nat, ToHide(s, k)' \/ SaidHidden(s, k)'
        PROVE  /\ k # 0 /\ k <= revision' /\ ~(session'[s].shown /\ session'[s].display = k)
               /\ \A q \in Requests : request'[q].rev # k
    <3>1. ToHide(s, k) \/ SaidHidden(s, k)
      BY <2>1, <2>4
    <3>2. k # 0 /\ k <= revision /\ \A q \in Requests : request[q].rev # k
      BY <3>1 DEF SupervisorInv, OfRequests
    <3>3. session'[s].display # k
      BY <1>9, <1>13, <1>14, <3>1
    <3>4. \A q \in Requests : request'[q].rev # k
      BY <1>11, <1>14, <3>2 DEF RequestsKept
    <3> QED
      BY <3>2, <3>3, <3>4
  <2> QED
    BY <2>3, <2>4 DEF OfRequests
<1>26. Quiet(s)'
  <2>1. Told(s, revision)
    BY <1>13 DEF Told, Answered
  <2>2. Rests(s, revision)
    BY <2>1, ToldNewest
  <2>3. Rests(s, revision)'
    BY <2>2 DEF Rests, ShowAt
  <2>4. ~Pasting(s)'
    BY <1>17 DEF Pasting
  <2> QED
    BY <2>3, <2>4 DEF Quiet
<1>27. Fresh'
  <2>1. SupervisorTyped /\ Fresh
    BY DEF SupervisorInv
  <2>2. /\ \A q \in Requests : request'[q].rev <= revision' /\ (request'[q].pc = "idle" <=> request'[q].rev = 0)
        /\ \A p, q \in Requests : request'[q].rev # 0 /\ request'[q].rev = request'[p].rev => p = q
    BY <1>11, <1>15, KeptRequests
  <2>3. \A q \in Requests : request'[q].rev \in {request[q].rev, 0}
    BY <1>11, <1>14 DEF RequestsKept
  <2>4. pasted' <= revision' /\ (pasted' # 0 => \A q \in Requests : request'[q].rev # pasted')
    <3>1. pasted <= revision /\ (pasted # 0 => \A q \in Requests : request[q].rev # pasted)
      BY <2>1 DEF Fresh
    <3> QED
      BY <2>3, <3>1
  <2>5. \A t \in Sessions : session'[t].display = session[t].display
    BY <1>7, <1>9
  <2>6. \A t \in Sessions \ {s} : session'[t].shown = session[t].shown
    BY <1>7
  <2>7. ASSUME NEW t \in Sessions
        PROVE  session'[t].display <= revision' /\ (session'[t].shown => revision' # 0)
    BY <1>14, <2>1, <2>5 DEF Fresh
  <2>8. ASSUME NEW t \in Sessions, session'[t].shown, session'[t].display # 0
        PROVE  /\ pasted' < session'[t].display
               /\ \A q \in Requests : request'[q].rev # session'[t].display
    <3>1. CASE t = s
      BY <1>9, <1>13, <1>14, <1>19, <3>1
    <3>2. CASE t # s
      <4>1. session[t].shown /\ session[t].display # 0 /\ session'[t].display = session[t].display
        BY <2>5, <2>6, <2>8, <3>2
      <4>2. pasted < session[t].display /\ \A q \in Requests : request[q].rev # session[t].display
        BY <2>1, <4>1 DEF Fresh
      <4> QED
        BY <2>3, <4>1, <4>2
    <3> QED
      BY <3>1, <3>2
  <2>9. ASSUME NEW t \in Sessions, Pasting(t)'
        PROVE  /\ action'[t].display = action'[t].rev /\ action'[t].rev <= revision'
               /\ pasted' < action'[t].display /\ ~session'[t].shown
               /\ \A q \in Requests : request'[q].rev # action'[t].display
    <3>1. Pasting(t) /\ t # s
      BY <1>17, <2>9 DEF Pasting
    <3>2. /\ action[t].display = action[t].rev /\ action[t].rev <= revision
          /\ pasted < action[t].display /\ ~session[t].shown
          /\ \A q \in Requests : request[q].rev # action[t].display
      BY <2>1, <3>1 DEF Fresh
    <3>3. pasted \in Nat /\ action[t].display \in Nat
      BY <2>1 DEF SupervisorTyped, ActionState
    <3>4. \A q \in Requests : request'[q].rev # action[t].display
      BY <2>3, <3>2, <3>3
    <3> QED
      BY <2>6, <3>1, <3>2, <3>4
  <2> QED
    BY <2>4, <2>2, <2>7, <2>8, <2>9 DEF Fresh
<1> QED
  BY <1>15, <1>16, <1>18, <1>23, <1>24, <1>25, <1>26, <1>27 DEF SupervisorInv

LEMMA ShownTo ==
  ASSUME SupervisorInv, NEW r \in Requests, Shown(r),
         NEW s \in Sessions, s = request[r].owner, NEW n \in Nat, n = request[r].rev
  PROVE  SupervisorInv'
<1> DEFINE id == <<"show", n>>
<1>1. /\ request[r].pc = "shown" /\ Answered(s, id) /\ serial' = FALSE
      /\ UNCHANGED <<revision, requested, process, action, dismissal, stopper, child, pipes, down, up, pasted>>
  BY DEF Shown, pipes
<1>2. CASE /\ StillValid(s, n) /\ session[s].display = n
           /\ session' = [Forgot(s, id) EXCEPT ![s].shown = TRUE]
           /\ visible' = Larger(visible, n) /\ Ends(r)
  BY <1>1, <1>2, Presented
<1>3. CASE session' = Forgot(s, id) /\ UNCHANGED visible /\ (Fails(r, "error") \/ Ends(r))
  <2>1. SessionCalm /\ HearsNothing
    <3>1. 0 \in Nat /\ 0 \in {session[s].display, 0}
      OBVIOUS
    <3> HIDE DEF id
    <3> QED
      BY <1>3, <3>1, Forgets
  <2>2. Held(r)
    BY <1>1 DEF Held, Locking
  <2>3. RequestCalm /\ ~Held(r)' /\ \A q \in Requests \ {r} : request'[q] = request[q]
    <3>1. CASE Fails(r, "error")
      BY <1>1, <2>2, <3>1, HolderFails
    <3>2. CASE Ends(r)
      BY <1>1, <3>2, HolderEnds
    <3> QED
      BY <1>3, <3>1, <3>2
  <2> QED
    BY <1>1, <1>3, <2>1, <2>2, <2>3, HolderLetsGo
<1> QED
  BY <1>2, <1>3 DEF Shown

LEMMA ShownKeeps == ASSUME SupervisorInv, NEW r \in Requests, Shown(r) PROVE SupervisorInv'
<1>1. request[r].owner \in Sessions /\ request[r].rev \in Nat
  BY Owner DEF Shown, WithChild
<1> QED
  BY <1>1, ShownTo

-----------------------------------------------------------------------------
(* The paste itself.                                                       *)

LEMMA ActionPastesKeeps == ASSUME SupervisorInv, NEW s \in Sessions, ActionPastes(s) PROVE SupervisorInv'
<1>1. /\ action[s].pc = "copy" /\ StillValid(s, action[s].rev) /\ pasted' = action[s].display
      /\ action' = [action EXCEPT ![s].pc = "complete", ![s].performed = TRUE] /\ serial' = FALSE
      /\ UNCHANGED <<revision, visible, requested, process, session, request, dismissal, stopper, child, down, up>>
  BY DEF ActionPastes, ActionUnchanged, flags
<1>2. action[s].pc # "none" /\ Pasting(s) /\ ActionHolds(s)
  BY <1>1 DEF Pasting, ActionHolds
<1>3. SupervisorTyped /\ Exclusive /\ Single /\ Fresh
  BY DEF SupervisorInv
<1>4. session[s].made /\ action[s].display \in Nat /\ action[s].rev \in Nat /\ revision \in Nat /\ pasted \in Nat
  BY <1>2, <1>3, ActionOf DEF SupervisorTyped
<1>5. /\ action[s].display = action[s].rev /\ ~session[s].shown
      /\ \A r \in Requests : request[r].rev # action[s].display
  BY <1>2, <1>3 DEF Fresh
<1>6. ~session[s].cancelled /\ pasted' = revision
  BY <1>1, <1>5 DEF StillValid, IsCurrent
<1>7. ActionCalm /\ action'[s].pc = "complete" /\ \A t \in Sessions \ {s} : action'[t] = action[t]
  <2>1. "complete" \in {"none", "lock", "state", "complete", "unsent", "stopping"} /\ TRUE \in BOOLEAN /\ 0 \in Nat
    OBVIOUS
  <2> QED
    BY <1>1, <1>4, <2>1, ActionGoes
<1>8. SessionCalm /\ DownCalm /\ ChildCalm /\ UpCalm /\ ProcessCalm
  BY <1>1, Unmoved
<1>9. RequestCalm
  BY <1>1, RequestsSame
<1>10. SupervisorTyped'
  BY <1>1, <1>3, <1>4, <1>6, <1>7 DEF SupervisorTyped, ActionCalm
<1>11. Exclusive'
  <2>1. ~ActionHolds(s)'
    BY <1>7 DEF ActionHolds
  <2> QED
    BY <1>1, <1>2, <1>3, <1>7, <2>1, ActionTurn
<1>12. Single'
  <2>1. Stays
    BY <1>7, <1>8, <1>9 DEF Stays, SessionCalm, RequestCalm, ActionCalm, ChildCalm, ProcessCalm
  <2> QED
    BY <1>10, <2>1, StaysSingle
<1>13. ASSUME NEW t \in Sessions PROVE InOrder(t)' /\ OfRequests(t)' /\ Quiet(t)'
  <2>1. Kept(t)
    BY <1>7, <1>8 DEF Kept, SessionCalm, ActionCalm, DownCalm, UpCalm, ChildCalm
  <2> QED
    BY <1>9, <1>10, <2>1, KeptShows DEF RequestCalm
<1>14. Fresh'
  <2>1. ASSUME NEW t \in Sessions PROVE ~session[t].shown
    <3>1. CASE t = s
      BY <1>5, <3>1
    <3>2. CASE t # s
      BY <1>3, <1>4, <1>6, <3>2 DEF Single
    <3> QED
      BY <3>1, <3>2
  <2>2. ASSUME NEW t \in Sessions PROVE ~Pasting(t)'
    <3>1. CASE t = s
      BY <1>7, <3>1 DEF Pasting
    <3>2. CASE t # s
      <4>1. ~ActionHolds(t)
        BY <1>2, <1>3, <3>2 DEF Exclusive
      <4> QED
        BY <1>7, <3>2, <4>1 DEF Pasting, ActionHolds
    <3> QED
      BY <3>1, <3>2
  <2>3. /\ \A r \in Requests : request[r].rev <= revision /\ (request[r].pc = "idle" <=> request[r].rev = 0)
        /\ \A q, r \in Requests : request[r].rev # 0 /\ request[r].rev = request[q].rev => q = r
        /\ \A t \in Sessions : session[t].display <= revision
    BY <1>3 DEF Fresh
  <2>4. \A r \in Requests : request[r].rev # revision
    BY <1>1, <1>5, <1>6
  <2> QED
    BY <1>1, <1>4, <1>6, <2>1, <2>2, <2>3, <2>4 DEF Fresh
<1> QED
  BY <1>10, <1>11, <1>12, <1>13, <1>14 DEF SupervisorInv

-----------------------------------------------------------------------------
(* What a child does with its display.                                     *)

LEMMA ChildDoes ==
  ASSUME SupervisorInv, ChildUnchanged, NEW s \in Sessions,
         down' \in [Sessions -> Seq(DownMessage)], up' \in [Sessions -> Seq(UpMessage)],
         child' \in [Sessions -> ChildState],
         \A t \in Sessions \ {s} : child'[t] = child[t] /\ down'[t] = down[t] /\ up'[t] = up[t],
         child'[s].up = child[s].up,
         SupervisorTyped' => InOrder(s)' /\ OfRequests(s)' /\ Quiet(s)'
  PROVE  SupervisorInv'
<1>1. UNCHANGED <<revision, visible, requested, serial, process, session, request, action, dismissal, stopper, pasted>>
  BY DEF ChildUnchanged, flags, tasks
<1>2. SessionCalm /\ ActionCalm /\ ProcessCalm /\ RequestCalm
  BY <1>1, Unmoved, RequestsSame
<1>3. SupervisorTyped'
  BY <1>1 DEF SupervisorInv, SupervisorTyped
<1>4. Exclusive'
  BY <1>1, NobodyLocks DEF Held, ActionHolds, DismissalHolds, StopperHolds, SupervisorInv
<1>5. \A t \in Sessions : child'[t].up => child[t].up
  OBVIOUS
<1>6. Single'
  <2>1. Stays
    BY <1>1, <1>2, <1>5 DEF Stays, SessionCalm, RequestCalm, ActionCalm
  <2> QED
    BY <1>3, <2>1, StaysSingle
<1>7. Fresh'
  BY <1>1, <1>2, <1>3, KeptFresh DEF SessionCalm, ActionCalm, RequestCalm
<1>8. ASSUME NEW t \in Sessions \ {s} PROVE InOrder(t)' /\ OfRequests(t)' /\ Quiet(t)'
  <2>1. DownKept(t) /\ AnswersKept(t)
    BY <1>1, DownSame, AnswersSame
  <2>2. ChildKept(t)
    BY <1>3 DEF ChildKept, SupervisorInv, InOrder
  <2>3. Kept(t)
    BY <1>2, <2>1, <2>2 DEF Kept, SessionCalm, ActionCalm
  <2> QED
    BY <1>2, <1>3, <2>3, KeptShows DEF RequestCalm
<1> QED
  BY <1>3, <1>4, <1>6, <1>7, <1>8 DEF SupervisorInv

LEMMA ChildShowsKeeps == ASSUME SupervisorInv, NEW s \in Sessions, ChildShows(s) PROVE SupervisorInv'
<1> DEFINE old == child[s]
           o == [old EXCEPT !.open = TRUE]
<1>1. /\ old.up /\ old.display # 0 /\ child' = [child EXCEPT ![s] = o]
      /\ ChildUnchanged /\ UNCHANGED <<session, request, action, revision, down>>
  BY DEF ChildShows, ChildUnchanged, tasks, SupervisorInv, SupervisorTyped
<1>2. old \in ChildState /\ old.display \in Nat /\ s \in Nat
  BY ChildOf
<1>3. o \in ChildState /\ o.up = old.up /\ o.display = old.display
  BY <1>2 DEF ChildState
<1>4. child \in [Sessions -> ChildState] /\ down \in [Sessions -> Seq(DownMessage)] /\ up \in [Sessions -> Seq(UpMessage)]
  BY DEF SupervisorInv, SupervisorTyped
<1> HIDE DEF o
<1>5. child' \in [Sessions -> ChildState] /\ child'[s] = o /\ \A t \in Sessions \ {s} : child'[t] = child[t]
  BY <1>1, <1>3, <1>4
<1>6. child'[s].up = child[s].up /\ child'[s].display = child[s].display
  BY <1>3, <1>5
<1>7. ASSUME NEW n \in Nat, n = child[s].display, n # 0 PROVE SupervisorInv'
  <2> DEFINE id == <<"show", n>>
             m == Message("shown", id, n)
  <2>1. Say(s, "shown", id, n)
    BY <1>7 DEF ChildShows
  <2>2. m \in UpMessage
    <3>1. id \in Tags
      BY DEF Tags
    <3> HIDE DEF id
    <3>2. m.type = "shown" /\ m.id = id /\ m.display = n
      BY DEF Message
    <3> QED
      BY <3>1, <3>2 DEF Message, UpMessage, id
  <2>3. m.type = "shown" /\ m.id = <<"show", n>>
    BY DEF Message
  <2>4. /\ up' \in [Sessions -> Seq(UpMessage)]
        /\ \A t \in Sessions \ {s} : up'[t] = up[t]
        /\ \A i \in 1 .. Len(up'[s]) : up'[s][i] = m \/ \E j \in 1 .. Len(up[s]) : up'[s][i] = up[s][j]
    BY <2>1, <2>2, Speaks
  <2> HIDE DEF m
  <2>5. ASSUME NEW k \in Nat, Told(s, k)' PROVE Told(s, k) \/ k = n
    <3>1. CASE <<"show", k>> \in session'[s].got
      BY <1>1, <3>1 DEF Told
    <3>2. CASE \E i \in 1 .. Len(up'[s]) : up'[s][i].type = "shown" /\ up'[s][i].id = <<"show", k>>
      <4>1. PICK i \in 1 .. Len(up'[s]) : up'[s][i].type = "shown" /\ up'[s][i].id = <<"show", k>>
        BY <3>2
      <4>2. CASE up'[s][i] = m
        BY <2>3, <4>1, <4>2
      <4>3. CASE \E j \in 1 .. Len(up[s]) : up'[s][i] = up[s][j]
        BY <4>1, <4>3 DEF Told
      <4> QED
        BY <2>4, <4>2, <4>3
    <3> QED
      BY <2>5, <3>1, <3>2 DEF Told
  <2>6. ASSUME NEW k \in Nat, SaidHidden(s, k)' PROVE SaidHidden(s, k)
    BY <1>1, <2>3, <2>4, <2>6, ZenonT(30) DEF SaidHidden
  <2>7. (\A i \in Nat : ShowAt(s, i)' <=> ShowAt(s, i)) /\ \A k \in Nat : ToHide(s, k)' => ToHide(s, k)
    BY <1>1 DEF ShowAt, ToHide
  <2>8. InOrder(s) /\ SupervisorTyped
    BY DEF SupervisorInv
  <2>9. InOrder(s)'
    <3>1. child'[s].up /\ child'[s].display # 0
      BY <1>1, <1>6
    <3>2. \A i \in Nat : ShowAt(s, i)' => down'[s][i].display > child'[s].display
      BY <1>1, <1>6, <2>7, <2>8 DEF InOrder
    <3>3. \A i, j \in Nat : i < j /\ ShowAt(s, i)' /\ ShowAt(s, j)' => down'[s][i].display < down'[s][j].display
      BY <1>1, <2>7, <2>8 DEF InOrder
    <3>4. ASSUME NEW k \in Nat, Told(s, k)'
          PROVE  /\ \A i \in Nat : ShowAt(s, i)' => down'[s][i].display > k
                 /\ child'[s].display # 0 => child'[s].display >= k
      <4>1. CASE k = n
        BY <1>1, <1>6, <1>7, <2>7, <2>8, <4>1 DEF InOrder
      <4>2. CASE Told(s, k)
        BY <1>1, <1>6, <2>7, <2>8, <4>2 DEF InOrder
      <4> QED
        BY <2>5, <3>4, <4>1, <4>2
    <3> QED
      BY <3>1, <3>2, <3>3, <3>4 DEF InOrder
  <2>10. ASSUME SupervisorTyped' PROVE OfRequests(s)' /\ Quiet(s)'
    <3>1. SessionCalm /\ ActionCalm /\ RequestCalm /\ DownCalm
      BY <1>1, Unmoved, RequestsSame DEF ChildUnchanged
    <3>2. SessionKept(s) /\ ActionKept(s) /\ RequestsKept /\ DownKept(s)
      BY <3>1 DEF SessionCalm, ActionCalm, RequestCalm, DownCalm
    <3>3. ASSUME NEW k \in Nat, Sent(s, k)' PROVE Sent(s, k)
      <4>1. CASE Told(s, k)'
        BY <1>7, <2>5, <4>1 DEF Sent
      <4>2. CASE child'[s].display = k /\ k # 0
        BY <1>6, <4>2 DEF Sent
      <4>3. CASE \E i \in Nat : ShowAt(s, i)' /\ down'[s][i].display = k
        BY <1>1, <2>7, <4>3 DEF Sent
      <4> QED
        BY <3>3, <4>1, <4>2, <4>3 DEF Sent
    <3>4. \A k \in Nat : ToHide(s, k)' \/ SaidHidden(s, k)' => ToHide(s, k) \/ SaidHidden(s, k)
      BY <2>6, <2>7
    <3>5. OfRequests(s)'
      BY <2>10, <3>2, <3>3, <3>4, KeptOfRequests
    <3>6. Quiet(s)'
      BY <1>6, <2>6, <2>10, <3>2, KeptQuiet
    <3> QED
      BY <3>5, <3>6
  <2> QED
    BY <1>1, <1>4, <1>5, <1>6, <2>4, <2>9, <2>10, ChildDoes
<1> QED
  BY <1>1, <1>2, <1>7

\* The child has read the head of its pipe.
LEMMA DownNext ==
  ASSUME SupervisorInv, NEW s \in Sessions, down[s] # <<>>, down' = [down EXCEPT ![s] = Tail(@)]
  PROVE  /\ \A i \in Nat : ShowAt(s, i)' => i # 0 /\ ShowAt(s, i + 1) /\ down'[s][i] = down[s][i + 1]
         /\ \A t \in Sessions \ {s} : down'[t] = down[t]
<1>1. down \in [Sessions -> Seq(DownMessage)] /\ down[s] \in Seq(DownMessage)
  BY DEF SupervisorInv, SupervisorTyped
<1>2. Tail(down[s]) \in Seq(DownMessage) /\ Len(down[s]) \in Nat \ {0}
  BY <1>1
<1>3. down'[s] = Tail(down[s]) /\ \A t \in Sessions \ {s} : down'[t] = down[t]
  BY <1>1
<1>4. Len(down'[s]) = Len(down[s]) - 1 /\ \A i \in 1 .. Len(down[s]) - 1 : down'[s][i] = down[s][i + 1]
  BY <1>1, <1>2, <1>3
<1> QED
  BY <1>2, <1>3, <1>4 DEF ShowAt

\* The child is to show d.
LEMMA ReceivesShow ==
  ASSUME SupervisorInv, ChildUnchanged, NEW s \in Sessions, down[s] # <<>>,
         down' = [down EXCEPT ![s] = Tail(@)], UNCHANGED up,
         NEW d \in Nat, ShowAt(s, 1), down[s][1].display = d,
         child' = [ChildHides(s) EXCEPT ![s].display = d]
  PROVE  SupervisorInv'
<1> DEFINE old == child[s]
           o == [old EXCEPT !.display = d, !.open = FALSE, !.pasting = FALSE]
<1>1. child \in [Sessions -> ChildState] /\ old \in ChildState /\ old.display \in Nat
  BY ChildOf DEF SupervisorInv, SupervisorTyped
<1>2. child' = [child EXCEPT ![s] = o]
  BY <1>1 DEF ChildHides, ChildState
<1>3. o \in ChildState /\ o.up = old.up /\ o.display = d /\ ~o.open
  BY <1>1 DEF ChildState
<1> HIDE DEF o
<1>4. child' \in [Sessions -> ChildState] /\ child'[s] = o /\ \A t \in Sessions \ {s} : child'[t] = child[t]
  BY <1>1, <1>2, <1>3
<1>5. child'[s].up = child[s].up /\ child'[s].display = d /\ ~child'[s].open
  BY <1>3, <1>4
<1>6. /\ DownCalm
      /\ \A i \in Nat : ShowAt(s, i)' => i # 0 /\ ShowAt(s, i + 1) /\ down'[s][i] = down[s][i + 1]
      /\ \A t \in Sessions \ {s} : down'[t] = down[t]
  BY DownRead, DownNext
<1>7. UNCHANGED <<session, action, request, revision>>
  BY DEF ChildUnchanged, tasks
<1>8. \A k \in Nat : (Told(s, k)' <=> Told(s, k)) /\ (SaidHidden(s, k)' <=> SaidHidden(s, k))
  BY <1>7 DEF Told, SaidHidden
<1>9. InOrder(s) /\ OfRequests(s) /\ Quiet(s) /\ SupervisorTyped /\ revision \in Nat
  BY DEF SupervisorInv, SupervisorTyped
<1>10. d > child[s].display /\ \A k \in Nat : Told(s, k) => d > k
  BY <1>9 DEF InOrder
<1>11. ASSUME NEW k \in Nat, Sent(s, k)' PROVE Sent(s, k)
  <2>1. CASE Told(s, k)'
    BY <1>8, <2>1 DEF Sent
  <2>2. CASE child'[s].display = k /\ k # 0
    BY <1>5, <2>2 DEF Sent
  <2>3. CASE \E i \in Nat : ShowAt(s, i)' /\ down'[s][i].display = k
    <3>1. PICK i \in Nat : ShowAt(s, i)' /\ down'[s][i].display = k
      BY <2>3
    <3>2. ShowAt(s, i + 1) /\ down'[s][i] = down[s][i + 1]
      BY <1>6, <3>1
    <3>3. down[s][i + 1].display = k
      BY <3>1, <3>2
    <3>4. i + 1 \in Nat
      OBVIOUS
    <3> QED
      BY <3>2, <3>3, <3>4 DEF Sent
  <2> QED
    BY <1>11, <2>1, <2>2, <2>3 DEF Sent
<1>12. InOrder(s)'
  <2>1. ASSUME NEW i \in Nat, ShowAt(s, i)'
        PROVE  /\ i + 1 \in Nat /\ 1 < i + 1 /\ ShowAt(s, i + 1) /\ down'[s][i].display = down[s][i + 1].display
    <3>1. i # 0 /\ ShowAt(s, i + 1) /\ down'[s][i] = down[s][i + 1]
      BY <1>6, <2>1
    <3>2. i + 1 \in Nat /\ 1 < i + 1
      BY <3>1
    <3>3. down'[s][i].display = down[s][i + 1].display
      BY <3>1
    <3> QED
      BY <3>1, <3>2, <3>3
  <2>2. ASSUME NEW i \in Nat, ShowAt(s, i)' PROVE down'[s][i].display > child'[s].display
    <3>1. i + 1 \in Nat /\ 1 \in Nat /\ 1 < i + 1 /\ ShowAt(s, i + 1) /\ down'[s][i].display = down[s][i + 1].display
      BY <2>1, <2>2
    <3>2. down[s][1].display < down[s][i + 1].display /\ down[s][i + 1].display \in Nat
      BY <1>9, <3>1, DownTyped DEF InOrder, ShowAt
    <3> QED
      BY <1>5, <3>1, <3>2
  <2>3. ASSUME NEW i \in Nat, NEW j \in Nat, i < j, ShowAt(s, i)', ShowAt(s, j)'
        PROVE  down'[s][i].display < down'[s][j].display
    <3>1. /\ i + 1 \in Nat /\ ShowAt(s, i + 1) /\ down'[s][i].display = down[s][i + 1].display
          /\ j + 1 \in Nat /\ ShowAt(s, j + 1) /\ down'[s][j].display = down[s][j + 1].display
      BY <2>1, <2>3
    <3>2. i + 1 < j + 1
      BY <2>3
    <3>3. down[s][i + 1].display < down[s][j + 1].display
      BY <1>9, <3>1, <3>2 DEF InOrder
    <3> QED
      BY <3>1, <3>3
  <2>4. ASSUME NEW k \in Nat, Told(s, k)'
        PROVE  /\ \A i \in Nat : ShowAt(s, i)' => down'[s][i].display > k
               /\ child'[s].display # 0 => child'[s].display >= k
    <3>1. Told(s, k)
      BY <1>8, <2>4
    <3>2. \A i \in Nat : ShowAt(s, i) => down[s][i].display > k
      BY <1>9, <3>1 DEF InOrder
    <3>3. child'[s].display >= k
      BY <1>5, <1>10, <3>1
    <3> QED
      BY <2>1, <3>2, <3>3
  <2> QED
    BY <1>5, <2>2, <2>3, <2>4 DEF InOrder
<1>13. SessionKept(s) /\ ActionKept(s) /\ RequestsKept
  BY <1>7, Unmoved, RequestsSame DEF SessionCalm, ActionCalm, RequestCalm, ChildUnchanged
<1>14. ASSUME SupervisorTyped' PROVE OfRequests(s)'
  <2>1. \A k \in Nat : ToHide(s, k)' \/ SaidHidden(s, k)' => ToHide(s, k) \/ SaidHidden(s, k)
    BY <1>6, <1>8 DEF DownCalm, DownKept
  <2> QED
    BY <1>11, <1>13, <1>14, <2>1, KeptOfRequests
<1>15. Quiet(s)'
  <2>1. ~Rests(s, revision)
    BY DEF Rests
  <2>2. ~(session[s].shown /\ session[s].display = revision)
    BY <1>9, <2>1 DEF Quiet
  <2>3. ~(Pasting(s) /\ action[s].rev = revision /\ ~session[s].cancelled)
    BY <1>9, <2>1 DEF Quiet
  <2> QED
    BY <1>7, <2>2, <2>3 DEF Quiet, Pasting
<1>16. down' \in [Sessions -> Seq(DownMessage)] /\ up' \in [Sessions -> Seq(UpMessage)]
  BY <1>6, <1>9 DEF DownCalm, SupervisorTyped
<1> QED
  BY <1>4, <1>5, <1>6, <1>12, <1>14, <1>15, <1>16, ChildDoes

\* The child is to hide k for a paste.
LEMMA ReceivesHide ==
  ASSUME SupervisorInv, ChildUnchanged, NEW s \in Sessions, down[s] # <<>>,
         down' = [down EXCEPT ![s] = Tail(@)],
         NEW k \in Nat, ToHide(s, k), Say(s, "hidden", <<"paste", k>>, k),
         child' = IF child[s].display = k THEN ChildHides(s) ELSE child
  PROVE  SupervisorInv'
<1> DEFINE m == Message("hidden", <<"paste", k>>, k)
<1>1. m \in UpMessage
  <2>1. <<"paste", k>> \in Tags \cap Hides
    BY DEF Tags, Hides
  <2> DEFINE id == <<"paste", k>>
  <2> HIDE DEF id
  <2>2. id \in Tags \cap Hides
    BY <2>1 DEF id
  <2>3. Message("hidden", id, k) \in UpMessage
    BY <2>2 DEF Message, UpMessage
  <2> QED
    BY <2>3 DEF id
<1>2. m.type = "hidden" /\ m.id = <<"paste", k>>
  BY DEF Message
<1>3. /\ up' \in [Sessions -> Seq(UpMessage)]
      /\ \A t \in Sessions \ {s} : up'[t] = up[t]
      /\ \A i \in 1 .. Len(up'[s]) : up'[s][i] = m \/ \E j \in 1 .. Len(up[s]) : up'[s][i] = up[s][j]
  BY <1>1, Speaks
<1> HIDE DEF m
<1>4. UNCHANGED <<session, action, request, revision>>
  BY DEF ChildUnchanged, tasks
<1>5. ASSUME NEW n \in Nat, Told(s, n)' PROVE Told(s, n)
  BY <1>2, <1>3, <1>4, <1>5 DEF Told
<1>6. ASSUME NEW n \in Nat, SaidHidden(s, n)' PROVE SaidHidden(s, n) \/ n = k
  <2>1. CASE <<"paste", n>> \in session'[s].got
    BY <1>4, <2>1 DEF SaidHidden
  <2>2. CASE \E i \in 1 .. Len(up'[s]) : up'[s][i].type = "hidden" /\ up'[s][i].id = <<"paste", n>>
    <3>1. PICK i \in 1 .. Len(up'[s]) : up'[s][i].type = "hidden" /\ up'[s][i].id = <<"paste", n>>
      BY <2>2
    <3>2. CASE up'[s][i] = m
      BY <1>2, <3>1, <3>2
    <3>3. CASE \E j \in 1 .. Len(up[s]) : up'[s][i] = up[s][j]
      BY <3>1, <3>3 DEF SaidHidden
    <3> QED
      BY <1>3, <3>2, <3>3
  <2> QED
    BY <1>6, <2>1, <2>2 DEF SaidHidden
<1>7. ChildCalm
  <2>1. TRUE \in BOOLEAN
    OBVIOUS
  <2>2. CASE child' = ChildHides(s)
    BY <2>1, <2>2, ChildGoes
  <2>3. CASE child' = child
    BY <2>3, Unmoved
  <2> QED
    BY <2>2, <2>3
<1>8. /\ child'[s].up = child[s].up /\ child'[s].display \in {child[s].display, 0}
      /\ child[s].display = k => child'[s].display = 0
      /\ \A t \in Sessions \ {s} : child'[t] = child[t]
  BY DEF ChildHides, SupervisorInv, SupervisorTyped, ChildState
<1>9. DownCalm /\ \A t \in Sessions \ {s} : down'[t] = down[t]
  BY DownRead, DownNext
<1>10. InOrder(s) /\ OfRequests(s) /\ Quiet(s) /\ SupervisorTyped
  BY DEF SupervisorInv
<1>11. SessionKept(s) /\ ActionKept(s) /\ RequestsKept /\ DownKept(s) /\ ChildKept(s)
  BY <1>4, <1>7, <1>9, Unmoved, RequestsSame DEF SessionCalm, ActionCalm, RequestCalm, ChildUnchanged, DownCalm, ChildCalm
<1>12. ASSUME NEW n \in Nat, Sent(s, n)' PROVE Sent(s, n)
  <2>1. CASE Told(s, n)'
    BY <1>5, <2>1 DEF Sent
  <2>2. CASE child'[s].display = n /\ n # 0
    BY <1>8, <2>2 DEF Sent
  <2>3. CASE \E i \in Nat : ShowAt(s, i)' /\ down'[s][i].display = n
    <3>1. PICK j \in {0, 1} : \A i \in Nat : ShowAt(s, i)' => ShowAt(s, i + j) /\ down'[s][i] = down[s][i + j]
      BY <1>11 DEF DownKept
    <3>2. PICK i \in Nat : ShowAt(s, i)' /\ down'[s][i].display = n
      BY <2>3
    <3>3. ShowAt(s, i + j) /\ down'[s][i] = down[s][i + j]
      BY <3>1, <3>2
    <3>4. down[s][i + j].display = n
      BY <3>2, <3>3
    <3>5. i + j \in Nat
      OBVIOUS
    <3> QED
      BY <3>3, <3>4, <3>5 DEF Sent
  <2> QED
    BY <1>12, <2>1, <2>2, <2>3 DEF Sent
<1>13. ASSUME NEW n \in Nat, ToHide(s, n)' \/ SaidHidden(s, n)' PROVE ToHide(s, n) \/ SaidHidden(s, n)
  BY <1>6, <1>11, <1>13 DEF DownKept
<1>14. Quiet(s)'
  <2>1. Rests(s, revision) => Rests(s, revision)'
    BY <1>4, <1>8, <1>11 DEF Rests, DownKept
  <2>2. session'[s].shown /\ session'[s].display = revision' => Rests(s, revision)'
    BY <1>4, <1>10, <2>1 DEF Quiet
  <2>3. ASSUME Pasting(s)', action'[s].rev = revision', ~session'[s].cancelled
        PROVE  /\ Rests(s, revision)'
               /\ action'[s].pc = "copy" \/ SaidHidden(s, revision)' => child'[s].display = 0
    <3>1. Pasting(s) /\ action[s].rev = revision /\ ~session[s].cancelled
      BY <1>4, <2>3 DEF Pasting
    <3>2. /\ Rests(s, revision)
          /\ action[s].pc = "copy" \/ SaidHidden(s, revision) => child[s].display = 0
      BY <1>10, <3>1 DEF Quiet
    <3>3. revision \in Nat /\ child[s].display \in {0, revision}
      BY <1>10, <3>2 DEF Rests, SupervisorTyped
    <3>4. CASE child[s].display = 0
      BY <1>8, <2>1, <3>2, <3>4
    <3>5. CASE child[s].display # 0
      <4>1. action'[s].pc # "copy" /\ ~SaidHidden(s, revision)
        BY <1>4, <3>2, <3>5
      <4>2. SaidHidden(s, revision)' => revision = k
        BY <1>4, <1>6, <3>3, <4>1
      <4>3. SaidHidden(s, revision)' => child'[s].display = 0
        BY <1>8, <3>3, <3>5, <4>2
      <4> QED
        BY <2>1, <3>2, <4>1, <4>3
    <3> QED
      BY <3>4, <3>5
  <2> QED
    BY <2>2, <2>3 DEF Quiet
<1>15. ASSUME SupervisorTyped' PROVE InOrder(s)' /\ OfRequests(s)' /\ Quiet(s)'
  <2>1. InOrder(s)'
    BY <1>5, <1>11, <1>15, KeptInOrder DEF DownKept
  <2>2. OfRequests(s)'
    BY <1>11, <1>12, <1>13, <1>15, KeptOfRequests
  <2> QED
    BY <1>14, <2>1, <2>2
<1> QED
  BY <1>3, <1>7, <1>8, <1>9, <1>15, ChildDoes DEF ChildCalm, DownCalm

LEMMA ChildReceivesKeeps == ASSUME SupervisorInv, NEW s \in Sessions, ChildReceives(s) PROVE SupervisorInv'
<1> DEFINE m == Head(down[s])
<1>1. /\ down[s] # <<>> /\ down' = [down EXCEPT ![s] = Tail(@)] /\ ChildUnchanged /\ UNCHANGED session
  BY DEF ChildReceives, ChildUnchanged
<1>2. DownCalm /\ m \in DownMessage /\ m = down[s][1] /\ 1 \in 1 .. Len(down[s])
  BY <1>1, DownRead
<1>3. /\ m.display \in Nat /\ m.type \in {"initialize", "show", "hide", "result", "shutdown"}
      /\ m.type = "initialize" => m.id \in {"ready"} \X Nat
      /\ m.type = "hide" => m.id = <<"paste", m.display>> \/ m.id \in {"hide", "unfocus"} \X Nat
      /\ m.type = "shutdown" => m.id \in {"shutdown"} \X Nat
  BY <1>2 DEF DownMessage
<1>4. ASSUME NEW type \in {"ready", "failed", "stopped", "hidden"}, NEW id, NEW n \in Nat, Say(s, type, id, n),
             id \in Tags, type = "ready" => id \in {"ready"} \X Nat, type = "stopped" => id \in {"shutdown"} \X Nat,
             type = "hidden" => id \in {"hide", "unfocus"} \X Nat
      PROVE  UpCalm
  <2>1. Message(type, id, n) \in UpMessage
    BY <1>4 DEF Message, UpMessage, Hides
  <2>2. type # "shown" /\ (type = "hidden" => \A k \in Nat : id # <<"paste", k>>)
    BY <1>4
  <2> QED
    BY <1>1, <1>4, <2>1, <2>2, SpeaksCalmly
<1> HIDE DEF m
<1>5. CASE m.type = "initialize" /\ (Say(s, "ready", m.id, 0) \/ Say(s, "failed", m.id, 0)) /\ UNCHANGED child
  <2>1. m.id \in {"ready"} \X Nat /\ m.id \in Tags
    BY <1>3, <1>5 DEF Tags
  <2>2. UpCalm
    BY <1>4, <1>5, <2>1
  <2>3. ChildCalm
    BY <1>5, Unmoved
  <2> QED
    BY <1>1, <1>2, <2>2, <2>3, ChildStepKeeps
<1>6. CASE m.type = "show" /\ UNCHANGED up /\ child' = [ChildHides(s) EXCEPT ![s].display = m.display]
  <2>1. ShowAt(s, 1) /\ down[s][1].display = m.display
    BY <1>2, <1>6 DEF ShowAt
  <2> QED
    BY <1>1, <1>3, <1>6, <2>1, ReceivesShow
<1>7. CASE /\ m.type = "hide" /\ Say(s, "hidden", m.id, m.display)
           /\ child' = IF child[s].display = m.display THEN ChildHides(s) ELSE child
  <2>1. CASE m.id = <<"paste", m.display>>
    <3>1. ToHide(s, m.display)
      BY <1>2, <1>7, <2>1 DEF ToHide
    <3> QED
      BY <1>1, <1>3, <1>7, <2>1, <3>1, ReceivesHide
  <2>2. CASE m.id \in {"hide", "unfocus"} \X Nat
    <3>1. UpCalm
      BY <1>3, <1>4, <1>7, <2>2 DEF Tags
    <3>2. ChildCalm
      <4>1. TRUE \in BOOLEAN
        OBVIOUS
      <4>2. CASE child' = ChildHides(s)
        BY <4>1, <4>2, ChildGoes
      <4>3. CASE child' = child
        BY <4>3, Unmoved
      <4> QED
        BY <1>7, <4>2, <4>3
    <3> QED
      BY <1>1, <1>2, <3>1, <3>2, ChildStepKeeps
  <2> QED
    BY <1>3, <1>7, <2>1, <2>2
<1>8. CASE /\ UNCHANGED up
           /\ child' = child \/ child' = ChildHides(s) \/ child' = [child EXCEPT ![s].pasting = FALSE]
  <2>1. TRUE \in BOOLEAN /\ FALSE \in BOOLEAN
    OBVIOUS
  <2>2. ChildCalm
    <3>1. CASE child' = child
      BY <3>1, Unmoved
    <3>2. CASE child' = ChildHides(s)
      BY <2>1, <3>2, ChildGoes
    <3>3. CASE child' = [child EXCEPT ![s].pasting = FALSE]
      BY <2>1, <3>3, ChildGoes
    <3> QED
      BY <1>8, <3>1, <3>2, <3>3
  <2>3. UpCalm
    BY <1>1, <1>8, Unmoved
  <2> QED
    BY <1>1, <1>2, <2>2, <2>3, ChildStepKeeps
<1>9. CASE m.type = "shutdown" /\ Say(s, "stopped", m.id, 0) /\ child' = [ChildHides(s) EXCEPT ![s].stopped = TRUE]
  <2>1. m.id \in {"shutdown"} \X Nat /\ m.id \in Tags
    BY <1>3, <1>9 DEF Tags
  <2>2. UpCalm
    BY <1>4, <1>9, <2>1
  <2>3. TRUE \in BOOLEAN
    OBVIOUS
  <2>4. ChildCalm
    BY <1>9, <2>3, ChildGoes
  <2> QED
    BY <1>1, <1>2, <2>2, <2>4, ChildStepKeeps
<1> QED
  BY <1>5, <1>6, <1>7, <1>8, <1>9 DEF ChildReceives, m

-----------------------------------------------------------------------------
(* A paste is let in: it takes the display, and the child is to hide it.   *)

LEMMA Appended ==
  ASSUME NEW S, NEW q \in Seq(S), NEW e \in S, NEW i \in 1 .. Len(Append(q, e))
  PROVE  (i \in 1 .. Len(q) /\ Append(q, e)[i] = q[i]) \/ Append(q, e)[i] = e
  OBVIOUS

LEMMA Admitted ==
  ASSUME SupervisorInv, NEW s \in Sessions, action[s].pc = "state",
         NEW k \in Nat, k = action[s].display, k = action[s].rev, k = revision,
         session[s].shown, session[s].display = k,
         session' = [Waiting(s, <<"paste", k>>) EXCEPT ![s].shown = FALSE],
         visible' \in Nat, requested' \in Nat,
         down' = WriteTo(s, Message("hide", <<"paste", k>>, k)), ActionGo(s, "hidden"), UNCHANGED serial,
         UNCHANGED <<revision, process, request, dismissal, stopper, child, up, pasted>>
  PROVE  SupervisorInv'
<1> DEFINE m == Message("hide", <<"paste", k>>, k)
           old == action[s]
           o == [old EXCEPT !.pc = "hidden"]
<1>1. SupervisorTyped /\ Exclusive /\ Single /\ Fresh /\ InOrder(s) /\ OfRequests(s) /\ Quiet(s)
  BY DEF SupervisorInv
<1>2. /\ k # 0 /\ pasted < k
      /\ \A r \in Requests : request[r].rev # k
  BY <1>1 DEF Fresh
<1>3. SessionCalm /\ HearsNothing /\ \A t \in Sessions \ {s} : session'[t] = session[t]
  <2> DEFINE id == <<"paste", k>>
  <2>1. id \in Tags /\ 0 \in Nat
    BY DEF Tags
  <2> HIDE DEF id
  <2>2. session' = [Waiting(s, id) EXCEPT ![s].shown = FALSE]
    BY DEF id
  <2> QED
    BY <2>1, <2>2, Waits
<1>4. ~session'[s].shown /\ session'[s].got = session[s].got
  BY <1>1 DEF Waiting, SupervisorTyped, SessionState
<1>5. old \in ActionState /\ session[s].made
  <2>1. action[s].pc # "none"
    OBVIOUS
  <2> QED
    BY <2>1, ActionOf
<1>6. o \in ActionState /\ o.pc = "hidden" /\ o.display = k /\ o.rev = k
  BY <1>5 DEF ActionState
<1>7. action' = [action EXCEPT ![s] = o] /\ action \in [Sessions -> ActionState]
  BY <1>1, <1>5 DEF ActionGo, SupervisorTyped
<1> HIDE DEF o, old
<1>8. action'[s] = o /\ (\A t \in Sessions \ {s} : action'[t] = action[t]) /\ action' \in [Sessions -> ActionState]
  BY <1>6, <1>7
<1>9. m \in DownMessage /\ m.type = "hide" /\ m.id = <<"paste", k>>
  <2> DEFINE id == <<"paste", k>>
  <2>1. id \in Tags
    BY DEF Tags
  <2>2. id = <<"paste", k>>
    OBVIOUS
  <2> HIDE DEF id
  <2>3. Message("hide", id, k).type = "hide" /\ Message("hide", id, k).id = id /\ Message("hide", id, k).display = k
    BY DEF Message
  <2>4. Message("hide", id, k) \in DownMessage
    BY <2>1, <2>2 DEF Message, DownMessage
  <2> QED
    BY <2>2, <2>3, <2>4
<1> HIDE DEF m
<1>10. /\ down' \in [Sessions -> Seq(DownMessage)]
       /\ \A t \in Sessions \ {s} : down'[t] = down[t]
       /\ down'[s] = down[s] \/ down'[s] = Append(down[s], m)
  BY <1>9, Writes DEF m
<1>11. ChildCalm /\ ProcessCalm /\ RequestCalm /\ UpCalm
  BY <1>3, Unmoved, UpSame, RequestsSame
<1>12. SupervisorTyped'
  BY <1>1, <1>3, <1>8, <1>10 DEF SupervisorTyped, SessionCalm
<1>13. Exclusive'
  <2>1. ActionHolds(s)' => ActionHolds(s)
    BY DEF ActionHolds
  <2> QED
    BY <1>1, <1>8, <2>1, ActionTurn
<1>14. Single'
  <2>1. \A t \in Sessions : action'[t].pc # "none" => session[t].made
    BY <1>1, <1>5, <1>8 DEF Single
  <2>2. Stays
    BY <1>3, <1>11, <2>1 DEF Stays, SessionCalm, RequestCalm, ChildCalm, ProcessCalm
  <2> QED
    BY <1>12, <2>2, StaysSingle
<1>15. Fresh'
  <2>1. /\ pasted' <= revision' /\ (pasted' # 0 => \A r \in Requests : request'[r].rev # pasted')
        /\ \A r \in Requests : request'[r].rev <= revision' /\ (request'[r].pc = "idle" <=> request'[r].rev = 0)
        /\ \A q, r \in Requests : request'[r].rev # 0 /\ request'[r].rev = request'[q].rev => q = r
    BY <1>1 DEF Fresh
  <2>2. ASSUME NEW t \in Sessions
        PROVE  /\ session'[t].display <= revision'
               /\ session'[t].shown => revision' # 0
               /\ session'[t].shown /\ session'[t].display # 0 =>
                    /\ pasted' < session'[t].display
                    /\ \A r \in Requests : request'[r].rev # session'[t].display
    <3>1. CASE t = s
      <4>1. session'[s].display \in {session[s].display, 0} \/ session'[s].display <= revision
        BY <1>3 DEF SessionCalm, SessionKept
      <4> QED
        BY <1>4, <3>1, <4>1
    <3>2. CASE t # s
      <4>1. session'[t] = session[t]
        BY <1>3, <3>2
      <4>2. /\ session[t].display <= revision
            /\ session[t].shown => revision # 0
            /\ session[t].shown /\ session[t].display # 0 =>
                 /\ pasted < session[t].display
                 /\ \A r \in Requests : request[r].rev # session[t].display
        BY <1>1 DEF Fresh
      <4> QED
        BY <1>1, <4>1, <4>2
    <3> QED
      BY <3>1, <3>2
  <2>3. ASSUME NEW t \in Sessions, Pasting(t)'
        PROVE  /\ action'[t].display = action'[t].rev /\ action'[t].rev <= revision'
               /\ pasted' < action'[t].display /\ ~session'[t].shown
               /\ \A r \in Requests : request'[r].rev # action'[t].display
    <3>1. CASE t = s
      BY <1>2, <1>4, <1>6, <1>8, <3>1
    <3>2. CASE t # s
      <4>1. session'[t] = session[t] /\ action'[t] = action[t]
        BY <1>3, <1>8, <3>2
      <4>2. Pasting(t)
        BY <2>3, <4>1 DEF Pasting
      <4> QED
        BY <1>1, <4>1, <4>2 DEF Fresh
    <3> QED
      BY <3>1, <3>2
  <2> QED
    BY <2>1, <2>2, <2>3 DEF Fresh
<1>16. ASSUME NEW i \in 1 .. Len(down'[s])
       PROVE  (i \in 1 .. Len(down[s]) /\ down'[s][i] = down[s][i]) \/ down'[s][i] = m
  <2>1. down[s] \in Seq(DownMessage) /\ Len(down[s]) \in Nat /\ m \in DownMessage
    BY <1>1, <1>9 DEF SupervisorTyped
  <2>2. CASE down'[s] = down[s]
    BY <2>2
  <2>3. CASE down'[s] = Append(down[s], m)
    <3>1. i \in 1 .. Len(Append(down[s], m))
      BY <2>3
    <3>2. (i \in 1 .. Len(down[s]) /\ Append(down[s], m)[i] = down[s][i]) \/ Append(down[s], m)[i] = m
      BY <2>1, <3>1, Appended
    <3> QED
      BY <2>3, <3>2
  <2> QED
    BY <1>10, <2>2, <2>3
<1>17. ASSUME NEW i \in Nat, ShowAt(s, i)' PROVE ShowAt(s, i) /\ down'[s][i] = down[s][i] /\ i + 0 = i
  <2>1. i \in 1 .. Len(down'[s]) /\ down'[s][i].type = "show"
    BY <1>17 DEF ShowAt
  <2>2. down'[s][i] # m
    BY <1>9, <2>1
  <2> QED
    BY <1>16, <2>1, <2>2 DEF ShowAt
<1>18. ASSUME NEW n \in Nat, ToHide(s, n)' PROVE ToHide(s, n) \/ n = k
  <2>1. PICK i \in 1 .. Len(down'[s]) : down'[s][i].type = "hide" /\ down'[s][i].id = <<"paste", n>>
    BY <1>18 DEF ToHide
  <2>2. CASE down'[s][i] = m
    BY <1>9, <2>1, <2>2
  <2>3. CASE i \in 1 .. Len(down[s]) /\ down'[s][i] = down[s][i]
    BY <2>1, <2>3 DEF ToHide
  <2> QED
    BY <1>16, <2>2, <2>3
<1>19. \A n \in Nat : (Told(s, n)' <=> Told(s, n)) /\ (SaidHidden(s, n)' <=> SaidHidden(s, n))
  BY <1>4 DEF Told, SaidHidden
<1>20. InOrder(s)'
  <2>1. ChildKept(s)
    BY <1>11 DEF ChildCalm
  <2>2. 0 \in {0, 1} /\ \A i \in Nat : ShowAt(s, i)' => ShowAt(s, i + 0) /\ down'[s][i] = down[s][i + 0]
    BY <1>17
  <2> QED
    BY <1>12, <1>19, <2>1, <2>2, KeptInOrder
<1>21. OfRequests(s)'
  <2>1. ASSUME NEW n \in Nat, Sent(s, n)' PROVE Sent(s, n)
    <3>1. CASE Told(s, n)' \/ (child'[s].display = n /\ n # 0)
      BY <1>19, <3>1 DEF Sent
    <3>2. CASE \E i \in Nat : ShowAt(s, i)' /\ down'[s][i].display = n
      BY <1>17, <3>2 DEF Sent
    <3> QED
      BY <2>1, <3>1, <3>2 DEF Sent
  <2>2. ASSUME NEW n \in Nat, Sent(s, n)'
        PROVE  n <= revision' /\ n # 0 /\ \A r \in Requests : request'[r].rev = n => request'[r].pc \notin Asking
    BY <1>1, <2>1, <2>2 DEF OfRequests
  <2>3. ASSUME NEW n \in Nat, ToHide(s, n)' \/ SaidHidden(s, n)'
        PROVE  /\ n # 0 /\ n <= revision' /\ ~(session'[s].shown /\ session'[s].display = n)
               /\ \A r \in Requests : request'[r].rev # n
    <3>1. CASE n = k
      BY <1>2, <1>4, <3>1
    <3>2. CASE ToHide(s, n) \/ SaidHidden(s, n)
      BY <1>1, <1>4, <3>2 DEF OfRequests
    <3> QED
      BY <1>18, <1>19, <2>3, <3>1, <3>2
  <2> QED
    BY <2>2, <2>3 DEF OfRequests
<1>22. Quiet(s)'
  <2>1. Rests(s, revision)
    BY <1>1 DEF Quiet
  <2>2. Rests(s, revision)'
    BY <1>17, <2>1 DEF Rests
  <2>3. ~SaidHidden(s, k)
    BY <1>1 DEF OfRequests
  <2>4. ~SaidHidden(s, revision)'
    BY <1>19, <2>3
  <2>5. action'[s].pc # "copy"
    BY <1>6, <1>8
  <2> QED
    BY <1>4, <2>2, <2>4, <2>5 DEF Quiet
<1>23. ASSUME NEW t \in Sessions \ {s} PROVE InOrder(t)' /\ OfRequests(t)' /\ Quiet(t)'
  <2>1. DownKept(t) /\ ActionKept(t)
    BY <1>8, <1>10, DownSame DEF ActionKept, Pasting
  <2>2. Kept(t)
    BY <1>3, <1>11, <2>1 DEF Kept, SessionCalm, ChildCalm, UpCalm
  <2> QED
    BY <1>11, <1>12, <2>2, KeptShows DEF RequestCalm
<1> QED
  BY <1>12, <1>13, <1>14, <1>15, <1>20, <1>21, <1>22, <1>23 DEF SupervisorInv

LEMMA AdmitKeeps == ASSUME SupervisorInv, NEW s \in Sessions, Admit(s) PROVE SupervisorInv'
<1>1. /\ action[s].pc = "state"
      /\ UNCHANGED <<revision, process, request, dismissal, stopper, child, up, pasted>>
  BY DEF Admit, ActionUnchanged
<1>2. action[s].display \in Nat /\ visible \in Nat /\ requested \in Nat
  BY ActionOf
<1>3. CASE /\ StillValid(s, action[s].rev) /\ Admissible(s)
           /\ session' = [Waiting(s, <<"paste", action[s].display>>) EXCEPT ![s].shown = FALSE]
           /\ Hidden(action[s].rev)
           /\ down' = WriteTo(s, Message("hide", <<"paste", action[s].display>>, action[s].display))
           /\ ActionGo(s, "hidden") /\ UNCHANGED serial
  <2>1. visible' \in Nat /\ requested' \in Nat
    BY <1>3, HiddenTyped
  <2>2. /\ action[s].display = action[s].rev /\ action[s].display = revision
        /\ session[s].shown /\ session[s].display = action[s].display
    BY <1>3 DEF StillValid, IsCurrent, Admissible
  <2> QED
    BY <1>1, <1>2, <1>3, <2>1, <2>2, Admitted
<1>4. CASE ActionEnds(s) /\ UNCHANGED <<session, visible, requested, down>>
  <2>1. SessionCalm /\ DownCalm /\ UpCalm /\ ChildCalm /\ ProcessCalm
    BY <1>1, <1>4, Unmoved
  <2>2. action[s].pc # "none" /\ ActionHolds(s)
    BY <1>1 DEF ActionHolds
  <2>3. ActionCalm /\ action'[s].pc = "complete" /\ \A t \in Sessions \ {s} : action'[t] = action[t]
    BY <1>4, <2>2, ActionEnding DEF ActionEnds
  <2>4. ~ActionHolds(s)' /\ serial' = FALSE
    BY <1>4, <2>3 DEF ActionHolds, ActionEnds
  <2> QED
    BY <1>1, <1>2, <1>4, <2>1, <2>2, <2>3, <2>4, ActionKeeps
<1> QED
  BY <1>3, <1>4 DEF Admit, flags

-----------------------------------------------------------------------------
LEMMA SupervisorStarts == SupervisorInit => SupervisorInv
<1> SUFFICES ASSUME SupervisorInit PROVE SupervisorInv
  OBVIOUS
<1>1. NewSession \in SessionState /\ NewChild \in ChildState /\ NoRequest \in RequestState
  BY SurfaceAssumption DEF NewSession, NewChild, NoRequest, SessionState, ChildState, RequestState, Stages, Locking
<1>2. NoAction \in ActionState /\ NoDismissal \in DismissalState /\ NoStopper \in StopperState
  BY DEF NoAction, NoDismissal, NoStopper, ActionState, DismissalState, StopperState
<1>3. /\ ~NewSession.made /\ ~NewSession.shown /\ ~NewSession.reading /\ NewSession.display = 0 /\ NewSession.got = {}
      /\ ~NewChild.up /\ ~NewChild.open /\ NewChild.display = 0
      /\ NoRequest.pc = "idle" /\ NoRequest.rev = 0 /\ NoAction.pc = "none" /\ NoDismissal.pc = "none"
      /\ NoStopper.pc = "none"
  BY DEF NewSession, NewChild, NoRequest, NoAction, NoDismissal, NoStopper
<1>4. SupervisorTyped
  <2>1. process \in 0 .. MaxSessions
    BY SurfaceAssumption DEF SupervisorInit
  <2>2. session \in [Sessions -> SessionState] /\ request \in [Requests -> RequestState]
    BY <1>1 DEF SupervisorInit
  <2>3. action \in [Sessions -> ActionState] /\ dismissal \in [Sessions -> DismissalState]
    BY <1>2 DEF SupervisorInit
  <2>4. stopper \in [Sessions -> StopperState] /\ child \in [Sessions -> ChildState]
    BY <1>1, <1>2 DEF SupervisorInit
  <2>5. down \in [Sessions -> Seq(DownMessage)] /\ up \in [Sessions -> Seq(UpMessage)]
    <3>1. <<>> \in Seq(DownMessage) /\ <<>> \in Seq(UpMessage)
      OBVIOUS
    <3> QED
      BY <3>1 DEF SupervisorInit
  <2> QED
    BY <2>1, <2>2, <2>3, <2>4, <2>5 DEF SupervisorInit, SupervisorTyped
<1>5. /\ \A s \in Sessions : /\ session[s] = NewSession /\ child[s] = NewChild /\ action[s] = NoAction
                             /\ dismissal[s] = NoDismissal /\ stopper[s] = NoStopper
                             /\ down[s] = <<>> /\ up[s] = <<>>
      /\ \A r \in Requests : request[r] = NoRequest
      /\ revision = 0 /\ pasted = 0 /\ process = 0
  BY DEF SupervisorInit
<1>6. Exclusive
  BY <1>3, <1>5 DEF Exclusive, Held, Locking, ActionHolds, DismissalHolds, StopperHolds
<1>7. Single
  BY <1>3, <1>5 DEF Single, WithChild
<1>8. Fresh
  BY <1>3, <1>5 DEF Fresh, Pasting
<1>9. ASSUME NEW s \in Sessions PROVE InOrder(s) /\ OfRequests(s) /\ Quiet(s)
  <2>1. /\ \A i \in Nat : ~ShowAt(s, i)
        /\ \A n \in Nat : ~Told(s, n) /\ ~ToHide(s, n) /\ ~SaidHidden(s, n)
    BY <1>3, <1>5 DEF ShowAt, Told, ToHide, SaidHidden
  <2>2. ~child[s].open /\ child[s].display = 0 /\ ~session[s].shown /\ ~Pasting(s)
    BY <1>3, <1>5 DEF Pasting
  <2> QED
    BY <2>1, <2>2 DEF InOrder, OfRequests, Quiet, Sent
<1> QED
  BY <1>4, <1>6, <1>7, <1>8, <1>9 DEF SupervisorInv

LEMMA SupervisorRests == ASSUME SupervisorInv, UNCHANGED supervisorVars PROVE SupervisorInv'
<1>1. UNCHANGED <<revision, visible, requested, serial, process, session, request, action, dismissal, stopper, child, pasted>>
      /\ UNCHANGED <<down, up>>
  BY DEF supervisorVars, flags, tasks, pipes
<1>2. ChildUnchanged /\ DownCalm /\ UpCalm /\ ChildCalm
  BY <1>1, Unmoved DEF ChildUnchanged, flags, tasks
<1> QED
  BY <1>2, ChildStepKeeps

LEMMA SupervisorKeeps == ASSUME SupervisorInv, [SupervisorNext]_supervisorVars PROVE SupervisorInv'
<1>1. ASSUME NEW r \in Requests, RequestStep(r) PROVE SupervisorInv'
  BY <1>1, BeginRequestKeeps, LockKeeps, RecycleKeeps, RecycledKeeps, StartChildKeeps, PresentKeeps,
     HandoffKeeps, ShownKeeps, HideKeeps, HiddenByRequestKeeps, RestoredByRequestKeeps,
     RequestFailsKeeps, ClaimFailureKeeps, ReportHideFailureKeeps, UnfocusedKeeps,
     StoppedByRequestKeeps, StopKeeps, ExitKeeps, ExitedKeeps DEF RequestStep
<1>2. ASSUME NEW s \in Sessions, ReaderStep(s) PROVE SupervisorInv'
  BY <1>2, ReadReplyKeeps, ReadPasteKeeps, ReadDismissKeeps, ReadEndKeeps DEF ReaderStep
<1>3. ASSUME NEW s \in Sessions, ActionStep(s) PROVE SupervisorInv'
  BY <1>3, ActionLockKeeps, AdmitKeeps, ActionHiddenKeeps, ActionPastesKeeps, ActionFailsKeeps,
     ActionCompletesKeeps, ActionStopsKeeps, ActionStoppedKeeps DEF ActionStep
<1>4. ASSUME NEW s \in Sessions, TaskStep(s) PROVE SupervisorInv'
  BY <1>4, DismissLockKeeps, DismissEndsKeeps, StopperStopsKeeps, StopperStoppedKeeps DEF TaskStep
<1>5. ASSUME NEW s \in Sessions, ChildStep(s) PROVE SupervisorInv'
  BY <1>5, ChildReceivesKeeps, ChildShowsKeeps, ChildFailsKeeps, UserPastesKeeps, UserDismissesKeeps,
     ChildCrashesKeeps DEF ChildStep
<1> QED
  BY <1>1, <1>2, <1>3, <1>4, <1>5, InvalidateKeeps, SupervisorRests DEF SupervisorNext

\* Whoever holds the lock, whichever messages are on their way and whichever
\* displays are over: the supervisor keeps to what SupervisorInv says.
THEOREM SupervisorInvariant == SupervisorSpec => []SupervisorInv
<1>1. SupervisorInv /\ [SupervisorNext]_supervisorVars => SupervisorInv'
  BY SupervisorKeeps
<1> QED
  BY <1>1, SupervisorStarts, PTL DEF SupervisorSpec

\* There is never a second child, however the requests, stops and crashes meet.
THEOREM OneChildHolds == SupervisorSpec => []OneChild
<1>1. SupervisorInv => OneChild
  BY DEF SupervisorInv, Single, OneChild
<1> QED
  BY <1>1, SupervisorInvariant, PTL

-----------------------------------------------------------------------------
(* What is pasted.                                                         *)

\* Only one step sends the native input.
LEMMA OnlyActionPastes ==
  ASSUME SupervisorInv, SupervisorNext, NEW s \in Sessions, Pastes(s) PROVE ActionPastes(s)
<1>1. action \in [Sessions -> ActionState] /\ action' # action
  BY DEF Pastes, SupervisorInv, SupervisorTyped
<1>2. ASSUME NEW r \in Requests, RequestStep(r) PROVE FALSE
  <2>1. UNCHANGED action
    BY <1>2 DEF RequestStep, BeginRequest, Lock, Recycle, Recycled, StartChild, Present, Handoff, Shown,
       Hide, HiddenByRequest, RestoredByRequest, RequestFails, ClaimFailure, ReportHideFailure,
       Unfocused, StoppedByRequest, Stop, Exit, Exited
  <2> QED
    BY <1>1, <2>1
<1>3. ASSUME NEW t \in Sessions, ReaderStep(t) PROVE FALSE
  <2>1. CASE UNCHANGED action
    BY <1>1, <2>1
  <2>2. CASE action' = [action EXCEPT ![t].pc = "lock", ![t].display = Head(up[t]).display, ![t].performed = FALSE]
    BY <1>1, <2>2 DEF Pastes, ActionState
  <2> QED
    BY <1>3, <2>1, <2>2 DEF ReaderStep, ReadReply, ReadPaste, ReadDismiss, ReadEnd
<1>4. ASSUME NEW t \in Sessions, TaskStep(t) \/ ChildStep(t) PROVE FALSE
  <2>1. UNCHANGED action
    BY <1>4 DEF TaskStep, DismissLock, DismissEnds, StopperStops, StopperStopped, ChildStep, ChildReceives,
       ChildShows, ChildFails, UserPastes, UserDismisses, ChildCrashes, ChildUnchanged, tasks
  <2> QED
    BY <1>1, <2>1
<1>5. ~Invalidate
  BY <1>1 DEF Invalidate
<1>6. PICK t \in Sessions : ActionStep(t)
  BY <1>2, <1>3, <1>4, <1>5 DEF SupervisorNext
<1>7. ASSUME NEW pc, ActionGo(t, pc) PROVE FALSE
  BY <1>1, <1>7 DEF ActionGo, Pastes, ActionState
<1>8. action' # [action EXCEPT ![t] = NoAction]
  BY <1>1 DEF NoAction, Pastes
<1>9. action' # [action EXCEPT ![t].pc = "state", ![t].rev = revision]
  BY <1>1 DEF Pastes, ActionState
<1>10. ActionPastes(t)
  <2>1. ~ActionLock(t)
    BY <1>7, <1>9 DEF ActionLock
  <2>2. ~Admit(t)
    BY <1>7 DEF Admit, ActionEnds
  <2>3. ~ActionHidden(t) /\ ~ActionFails(t)
    BY <1>7 DEF ActionHidden, ActionEnds, ActionFails
  <2>4. ~ActionCompletes(t) /\ ~ActionStops(t) /\ ~ActionStopped(t)
    BY <1>7, <1>8 DEF ActionCompletes, ActionStops, ActionStopped
  <2> QED
    BY <1>6, <2>1, <2>2, <2>3, <2>4 DEF ActionStep
<1>11. t = s
  BY <1>1, <1>10 DEF ActionPastes, Pastes
<1> QED
  BY <1>10, <1>11

\* The step that sends the native input finds no panel on the screen, and pastes
\* from the newest display, which was not pasted from before.
LEMMA PastesWell ==
  ASSUME SupervisorInv, NEW s \in Sessions, ActionPastes(s)
  PROVE  /\ \A t \in Sessions : ~child[t].open
         /\ action[s].display = revision /\ action[s].display > pasted
<1>1. /\ Pasting(s) /\ action[s].pc = "copy" /\ ~session[s].cancelled /\ action[s].rev = revision
  BY DEF ActionPastes, Pasting, StillValid, IsCurrent
<1>2. action[s].display = action[s].rev /\ pasted < action[s].display
  BY <1>1 DEF SupervisorInv, Fresh
<1>3. child[s].display = 0
  BY <1>1 DEF SupervisorInv, Quiet
<1>4. session[s].made /\ process = s
  BY <1>1 DEF SupervisorInv, Single
<1>5. ASSUME NEW t \in Sessions, child[t].open PROVE FALSE
  <2>1. child[t].up /\ child[t].display # 0
    BY <1>5 DEF SupervisorInv, InOrder
  <2>2. process = t
    BY <2>1 DEF SupervisorInv, Single
  <2> QED
    BY <1>3, <1>4, <2>1, <2>2
<1>6. pasted \in Nat /\ action[s].display \in Nat
  BY ActionOf DEF SupervisorInv, SupervisorTyped
<1> QED
  BY <1>1, <1>2, <1>5, <1>6

\* No panel is on the screen when the native input is sent, and what is pasted was
\* chosen in the display asked for last and is pasted once.
THEOREM PastesOnceHiddenHolds == SupervisorSpec => PastesOnceHidden
<1>1. SupervisorInv /\ [SupervisorNext]_supervisorVars =>
        [\A s \in Sessions : Pastes(s) => \A t \in Sessions : ~child[t].open]_supervisorVars
  BY OnlyActionPastes, PastesWell
<1>2. SupervisorInv /\ [SupervisorNext]_supervisorVars =>
        [\A s \in Sessions : Pastes(s) => /\ action[s].display = revision
                                          /\ action[s].display > pasted]_supervisorVars
  BY OnlyActionPastes, PastesWell
<1>3. SupervisorSpec => HiddenWhenPasting
  BY <1>1, SupervisorInvariant, PTL DEF SupervisorSpec, HiddenWhenPasting
<1>4. SupervisorSpec => PastesTheNewestOnce
  BY <1>2, SupervisorInvariant, PTL DEF SupervisorSpec, PastesTheNewestOnce
<1> QED
  BY <1>3, <1>4 DEF PastesOnceHidden

-----------------------------------------------------------------------------
(* The main window.                                                        *)

ShowTyped == show \in [pending : BOOLEAN, id : Nat, required : Nat, ready : Nat]
Threads == Workers \cup {"main"}
Places == {"idle", "tick", "serve", "age", "claim", "destroy", "finish", "leave", "give up",
           "recreate", "label", "build", "built", "begin", "ready", "showing",
           "check", "toggle", "queue", "refuse", "undo"}
Place == [at : Places, visible : BOOLEAN, request : Nat, resume : BOOLEAN]
WindowTyped == ShowTyped /\ th \in [Threads -> Place]

\* What a step does to the show that is asked for: nothing, a cancel, a request, that it is
\* carried out, or that its page is ready.
ShowMoves ==
  \/ CancelShow
  \/ \E needs \in BOOLEAN : AskShow(needs)
  \/ /\ voided' = voided
     /\ \/ show' = show
        \/ show' = [show EXCEPT !.pending = FALSE]
        \/ show' = [show EXCEPT !.ready = show.required]

LEMMA HowShowMoves ==
  ASSUME WindowNext
  PROVE  ShowMoves
<1>1. CASE Tick
  BY <1>1 DEF ShowMoves, Tick, atomics, shows, Settle
<1>2. CASE Serve
  BY <1>2 DEF ShowMoves, Serve, shows
<1>3. CASE Age
  BY <1>3 DEF ShowMoves, Age, shows
<1>4. CASE Leave
  BY <1>4 DEF ShowMoves, Leave, atomics, shows
<1>5. CASE GiveUp
  BY <1>5 DEF ShowMoves, GiveUp, shows
<1>6. CASE Press
  BY <1>6 DEF ShowMoves, Press, atomics, shows, Settle
<1>7. CASE Ensure
  BY <1>7 DEF ShowMoves, Ensure, shows
<1>8. CASE ServeInPress
  BY <1>8 DEF ShowMoves, ServeInPress, shows
<1>9. CASE Refuse
  BY <1>9 DEF ShowMoves, Refuse, shows
<1>10. CASE Queue
  BY <1>10 DEF ShowMoves, Queue, shows
<1>11. CASE Toggle
  BY <1>11 DEF ShowMoves, Toggle, shows
<1>12. CASE HideWindow
  BY <1>12 DEF ShowMoves, HideWindow
<1>13. CASE Switch
  BY <1>13 DEF ShowMoves, Switch, atomics, shows
<1>14. CASE Release
  BY <1>14 DEF ShowMoves, Release, atomics, shows
<1>15. CASE Paint
  BY <1>15 DEF ShowMoves, Paint, atomics
<1>16. CASE Resume
  BY <1>16 DEF ShowMoves, Resume, atomics
<1>17. CASE BecomesDue
  BY <1>17 DEF ShowMoves, BecomesDue, shows
<1>18. CASE BudgetEnds
  BY <1>18 DEF ShowMoves, BudgetEnds, shows
<1>19. CASE DeadlinePasses
  BY <1>19 DEF ShowMoves, DeadlinePasses, atomics
<1>20. ASSUME NEW x \in Workers, Claim(x) PROVE ShowMoves
  BY <1>20 DEF ShowMoves, Claim, shows
<1>21. ASSUME NEW x \in Workers, Destroy(x) PROVE ShowMoves
  BY <1>21 DEF ShowMoves, Destroy, atomics, shows
<1>22. ASSUME NEW x \in Workers, Recreate(x) PROVE ShowMoves
  BY <1>22 DEF ShowMoves, Recreate, shows, Failed
<1>23. ASSUME NEW x \in Workers, Label(x) PROVE ShowMoves
  BY <1>23 DEF ShowMoves, Label, Failed
<1>24. ASSUME NEW x \in Workers, Build(x) PROVE ShowMoves
  BY <1>24 DEF ShowMoves, Build, atomics, shows
<1>25. ASSUME NEW x \in Workers, PublishWindow(x) PROVE ShowMoves
  BY <1>25 DEF ShowMoves, PublishWindow
<1>26. ASSUME NEW x \in Workers, Begin(x) PROVE ShowMoves
  BY <1>26 DEF ShowMoves, Begin, atomics
<1>27. ASSUME NEW x \in Workers, Ready(x) PROVE ShowMoves
  BY <1>27 DEF ShowMoves, Ready, atomics
<1>28. ASSUME NEW x \in Workers, ShowNow(x) PROVE ShowMoves
  BY <1>28 DEF ShowMoves, ShowNow, shows
<1>29. ASSUME NEW x \in Workers, NEW exited \in BOOLEAN, Finish(x, exited) PROVE ShowMoves
  BY <1>29 DEF ShowMoves, Finish, shows
<1>30. ASSUME NEW x \in Workers, Abort(x) PROVE ShowMoves
  BY <1>30 DEF ShowMoves, Abort, shows
<1>31. ASSUME NEW x \in Workers, BuildFails(x) PROVE ShowMoves
  BY <1>31 DEF ShowMoves, BuildFails, shows, Failed
<1>32. ASSUME NEW r \in DOMAIN watch, Poll(r) PROVE ShowMoves
  BY <1>32 DEF ShowMoves, Poll, atomics, shows
<1>33. ASSUME NEW r \in DOMAIN watch, Commit(r) PROVE ShowMoves
  BY <1>33 DEF ShowMoves, Commit
<1> QED
  BY <1>1, <1>2, <1>3, <1>4, <1>5, <1>6, <1>7, <1>8, <1>9, <1>10, <1>11, <1>12, <1>13, <1>14,
      <1>15, <1>16, <1>17, <1>18, <1>19, <1>20, <1>21, <1>22, <1>23, <1>24, <1>25, <1>26, <1>27,
      <1>28, <1>29, <1>30, <1>31, <1>32, <1>33
    DEF WindowNext, Works, Main, Watcher, Clock

LEMMA ShowStaysTyped ==
  ASSUME ShowTyped, ShowMoves
  PROVE  /\ ShowTyped'
         /\ show'.id >= show.id
         /\ \/ voided' = voided
            \/ show'.id = show.id + 1 /\ voided' = voided \cup Awaited
<1>1. show.id \in Nat /\ show.id + 1 \in Nat /\ show.id + 1 >= show.id
  BY DEF ShowTyped
<1>2. CASE voided' = voided /\ show' = show
  BY <1>1, <1>2 DEF ShowTyped
<1>3. CASE CancelShow
  <2>1. show' = [pending |-> FALSE, id |-> show.id + 1, required |-> 0, ready |-> 0]
    BY <1>3 DEF ShowTyped, CancelShow, CancelledShow
  <2> QED
    BY <1>1, <1>3, <2>1 DEF ShowTyped, CancelShow
<1>4. CASE \E needs \in BOOLEAN : AskShow(needs)
  <2> PICK needs \in BOOLEAN : AskShow(needs)
    BY <1>4
  <2>1. show' = [pending |-> TRUE, id |-> show.id + 1,
                 required |-> IF needs THEN show.id + 1 ELSE show.required,
                 ready |-> IF needs THEN 0 ELSE show.ready]
    BY DEF ShowTyped, AskShow, Begun
  <2>2. voided' = voided \cup Awaited
    BY DEF AskShow
  <2>3. CASE needs
    BY <1>1, <2>1, <2>2, <2>3 DEF ShowTyped
  <2>4. CASE ~needs
    BY <1>1, <2>1, <2>2, <2>4 DEF ShowTyped
  <2> QED
    BY <2>3, <2>4
<1>5. CASE voided' = voided /\ show' = [show EXCEPT !.pending = FALSE]
  <2>1. show' = [pending |-> FALSE, id |-> show.id, required |-> show.required, ready |-> show.ready]
    BY <1>5 DEF ShowTyped
  <2>2. voided' = voided
    BY <1>5
  <2> QED
    BY <1>1, <2>1, <2>2 DEF ShowTyped
<1>6. CASE voided' = voided /\ show' = [show EXCEPT !.ready = show.required]
  <2>1. show' = [pending |-> show.pending, id |-> show.id, required |-> show.required,
                 ready |-> show.required]
    BY <1>6 DEF ShowTyped
  <2>2. voided' = voided
    BY <1>6
  <2> QED
    BY <1>1, <2>1, <2>2 DEF ShowTyped
<1> QED
  BY <1>2, <1>3, <1>4, <1>5, <1>6 DEF ShowMoves

LEMMA ThreadMoves ==
  ASSUME NEW x \in Threads, NEW place \in Places, GoTo(x, place),
         th \in [Threads -> Place]
  PROVE  /\ th' \in [Threads -> Place]
         /\ th'[x].at = place
         /\ \A y \in Threads : y # x => th'[y] = th[y]
BY DEF GoTo, Place

\* A claim and a request are noted with the place.
LEMMA ThreadNotes ==
  ASSUME NEW x \in Threads, th \in [Threads -> Place], ShowTyped,
         Claim(x) \/ Begin(x)
  PROVE  /\ th' \in [Threads -> Place]
         /\ th'[x].at \in {"idle", "destroy", "ready"}
         /\ \A y \in Threads : y # x => th'[y] = th[y]
<1>1. CASE Begin(x)
  <2>1. PICK n \in Nat :
          th' = [th EXCEPT ![x] = [at |-> "ready", visible |-> th[x].visible, request |-> n,
                                   resume |-> window = "hidden"]]
    <3>1. show.id + 1 \in Nat
      BY DEF ShowTyped
    <3> QED
      BY <1>1, <3>1 DEF Begin
  <2>2. [at |-> "ready", visible |-> th[x].visible, request |-> n,
         resume |-> window = "hidden"] \in Place
    <3>1. (window = "hidden") \in BOOLEAN /\ th[x] \in Place
      OBVIOUS
    <3> QED
      BY <3>1 DEF Place, Places
  <2> QED
    BY <2>1, <2>2
<1>2. CASE Claim(x) /\ lifecycle = "open"
  <2>1. th' = [th EXCEPT ![x] = [at |-> "destroy", visible |-> window = "visible",
                                 request |-> th[x].request, resume |-> th[x].resume]]
    BY <1>2 DEF Claim, Place
  <2> QED
    BY <2>1 DEF Place, Places
<1>3. CASE Claim(x) /\ lifecycle # "open"
  BY <1>3, ThreadMoves DEF Claim, Home, Places
<1> QED
  BY <1>1, <1>2, <1>3

LEMMA ThreadsStayTyped ==
  ASSUME WindowTyped, WindowNext
  PROVE  th' \in [Threads -> Place]
<1> USE DEF WindowTyped
<1>1. CASE Tick
  BY <1>1, ThreadMoves DEF Threads, Workers, Places, Tick, Home, Settle
<1>2. CASE Serve
  BY <1>2, ThreadMoves DEF Threads, Workers, Places, Serve, Home
<1>3. CASE Age
  BY <1>3, ThreadMoves DEF Threads, Workers, Places, Age, Home
<1>4. CASE Leave
  BY <1>4, ThreadMoves DEF Threads, Workers, Places, Leave
<1>5. CASE GiveUp
  BY <1>5, ThreadMoves DEF Threads, Workers, Places, GiveUp, Home
<1>6. CASE Press
  BY <1>6, ThreadMoves DEF Threads, Workers, Places, Press, Home, Settle
<1>7. CASE Ensure
  BY <1>7, ThreadMoves DEF Threads, Workers, Places, Ensure
<1>8. CASE ServeInPress
  BY <1>8, ThreadMoves DEF Threads, Workers, Places, ServeInPress
<1>9. CASE Refuse
  BY <1>9, ThreadMoves DEF Threads, Workers, Places, Refuse
<1>10. CASE Queue
  BY <1>10, ThreadMoves DEF Threads, Workers, Places, Queue, Home
<1>11. CASE Toggle
  BY <1>11, ThreadMoves DEF Threads, Workers, Places, Toggle, Home
<1>12. CASE HideWindow
  BY <1>12, ThreadMoves DEF Threads, Workers, Places, HideWindow, Home
<1>13. CASE Switch
  BY <1>13, ThreadMoves DEF Threads, Workers, Places, Switch, Home
<1>14. CASE Release
  BY <1>14, ThreadMoves DEF Threads, Workers, Places, Release, Home
<1>15. CASE Paint
  BY <1>15, ThreadMoves DEF Threads, Workers, Places, Paint
<1>16. CASE Resume
  BY <1>16, ThreadMoves DEF Threads, Workers, Places, Resume
<1>17. CASE BecomesDue
  BY <1>17, ThreadMoves DEF Threads, Workers, Places, BecomesDue, Home
<1>18. CASE BudgetEnds
  BY <1>18, ThreadMoves DEF Threads, Workers, Places, BudgetEnds
<1>19. CASE DeadlinePasses
  BY <1>19, ThreadMoves DEF Threads, Workers, Places, DeadlinePasses
<1>20. ASSUME NEW x \in Workers, Claim(x) PROVE th' \in [Threads -> Place]
  BY <1>20, ThreadNotes DEF Threads
<1>21. ASSUME NEW x \in Workers, Destroy(x) PROVE th' \in [Threads -> Place]
  BY <1>21, ThreadMoves DEF Threads, Workers, Places, Destroy
<1>22. ASSUME NEW x \in Workers, Recreate(x) PROVE th' \in [Threads -> Place]
  BY <1>22, ThreadMoves DEF Threads, Workers, Places, Recreate, Failed
<1>23. ASSUME NEW x \in Workers, Label(x) PROVE th' \in [Threads -> Place]
  BY <1>23, ThreadMoves DEF Threads, Workers, Places, Label, Failed
<1>24. ASSUME NEW x \in Workers, Build(x) PROVE th' \in [Threads -> Place]
  BY <1>24, ThreadMoves DEF Threads, Workers, Places, Build, Home
<1>25. ASSUME NEW x \in Workers, PublishWindow(x) PROVE th' \in [Threads -> Place]
  BY <1>25, ThreadMoves DEF Threads, Workers, Places, PublishWindow, Home
<1>26. ASSUME NEW x \in Workers, Begin(x) PROVE th' \in [Threads -> Place]
  BY <1>26, ThreadNotes DEF Threads
<1>27. ASSUME NEW x \in Workers, Ready(x) PROVE th' \in [Threads -> Place]
  BY <1>27, ThreadMoves DEF Threads, Workers, Places, Ready, Home
<1>28. ASSUME NEW x \in Workers, ShowNow(x) PROVE th' \in [Threads -> Place]
  BY <1>28, ThreadMoves DEF Threads, Workers, Places, ShowNow, Home
<1>29. ASSUME NEW x \in Workers, NEW exited \in BOOLEAN, Finish(x, exited) PROVE th' \in [Threads -> Place]
  BY <1>29, ThreadMoves DEF Threads, Workers, Places, Finish, Home
<1>30. ASSUME NEW x \in Workers, Abort(x) PROVE th' \in [Threads -> Place]
  BY <1>30, ThreadMoves DEF Threads, Workers, Places, Abort, Home
<1>31. ASSUME NEW x \in Workers, BuildFails(x) PROVE th' \in [Threads -> Place]
  BY <1>31, ThreadMoves DEF Threads, Workers, Places, BuildFails, Failed, Home
<1>32. ASSUME NEW r \in DOMAIN watch, Poll(r) PROVE th' \in [Threads -> Place]
  BY <1>32, ThreadMoves DEF Threads, Workers, Places, Poll
<1>33. ASSUME NEW r \in DOMAIN watch, Commit(r) PROVE th' \in [Threads -> Place]
  BY <1>33, ThreadMoves DEF Threads, Workers, Places, Commit, Home
<1> QED
  BY <1>1, <1>2, <1>3, <1>4, <1>5, <1>6, <1>7, <1>8, <1>9, <1>10, <1>11, <1>12, <1>13, <1>14,
      <1>15, <1>16, <1>17, <1>18, <1>19, <1>20, <1>21, <1>22, <1>23, <1>24, <1>25, <1>26, <1>27,
      <1>28, <1>29, <1>30, <1>31, <1>32, <1>33
    DEF WindowNext, Works, Main, Watcher, Clock

LEMMA WindowTypes == WindowSpec => []WindowTyped
<1>1. WindowInit => WindowTyped
  BY DEF WindowInit, WindowTyped, ShowTyped, Place, Places, Threads, Thread
<1>2. WindowTyped /\ [WindowNext]_windowVars => WindowTyped'
  <2>1. ASSUME WindowTyped, WindowNext PROVE WindowTyped'
    BY <2>1, HowShowMoves, ShowStaysTyped, ThreadsStayTyped DEF WindowTyped
  <2>2. ASSUME WindowTyped, UNCHANGED windowVars PROVE WindowTyped'
    BY <2>2 DEF WindowTyped, ShowTyped, windowVars, shows
  <2> QED
    BY <2>1, <2>2
<1> QED
  BY <1>1, <1>2, PTL DEF WindowSpec

-----------------------------------------------------------------------------
(* Opening is given back.                                                  *)

LEMMA OpeningIsHeld ==
  ASSUME WindowTyped, NeverParked, WindowNext
  PROVE  NeverParked'
<1> USE DEF WindowTyped
<1>1. CASE Tick
  BY <1>1, ThreadMoves DEF NeverParked, Threads, Workers, Places, Tick, atomics, Home, At, Settle
<1>2. CASE Serve
  BY <1>2, ThreadMoves DEF NeverParked, Threads, Workers, Places, Serve, Home, At
<1>3. CASE Age
  BY <1>3, ThreadMoves DEF NeverParked, Threads, Workers, Places, Age, Home, At
<1>4. CASE Leave
  BY <1>4, ThreadMoves DEF NeverParked, Threads, Workers, Places, Leave, atomics, At
<1>5. CASE GiveUp
  BY <1>5, ThreadMoves DEF NeverParked, Threads, Workers, Places, GiveUp, Home, At
<1>6. CASE Press
  BY <1>6, ThreadMoves DEF NeverParked, Threads, Workers, Places, Press, atomics, Home, At, Settle
<1>7. CASE Ensure
  BY <1>7, ThreadMoves DEF NeverParked, Threads, Workers, Places, Ensure, At
<1>8. CASE ServeInPress
  BY <1>8, ThreadMoves DEF NeverParked, Threads, Workers, Places, ServeInPress, At
<1>9. CASE Refuse
  BY <1>9, ThreadMoves DEF NeverParked, Threads, Workers, Places, Refuse, GivenBack, At
<1>10. CASE Queue
  BY <1>10, ThreadMoves DEF NeverParked, Threads, Workers, Places, Queue, Home, At
<1>11. CASE Toggle
  BY <1>11, ThreadMoves DEF NeverParked, Threads, Workers, Places, Toggle, Home, At
<1>12. CASE HideWindow
  BY <1>12 DEF NeverParked, Threads, Workers, Places, HideWindow, Home, At
<1>13. CASE Switch
  BY <1>13, ThreadMoves DEF NeverParked, Threads, Workers, Places, Switch, atomics, Home, At
<1>14. CASE Release
  BY <1>14 DEF NeverParked, Threads, Workers, Places, Release, atomics, Home, At
<1>15. CASE Paint
  BY <1>15 DEF NeverParked, Threads, Workers, Places, Paint, atomics
<1>16. CASE Resume
  BY <1>16 DEF NeverParked, Threads, Workers, Places, Resume, atomics
<1>17. CASE BecomesDue
  BY <1>17 DEF NeverParked, Threads, Workers, Places, BecomesDue, Home
<1>18. CASE BudgetEnds
  BY <1>18 DEF NeverParked, Threads, Workers, Places, BudgetEnds
<1>19. CASE DeadlinePasses
  BY <1>19 DEF NeverParked, Threads, Workers, Places, DeadlinePasses, atomics
<1>20. ASSUME NEW x \in Workers, Claim(x) PROVE NeverParked'
  BY <1>20, ThreadNotes DEF NeverParked, Threads, Workers, Places, Claim, Home, At
<1>21. ASSUME NEW x \in Workers, Destroy(x) PROVE NeverParked'
  BY <1>21, ThreadMoves DEF NeverParked, Threads, Workers, Places, Destroy, atomics, At
<1>22. ASSUME NEW x \in Workers, Recreate(x) PROVE NeverParked'
  BY <1>22, ThreadMoves DEF NeverParked, Threads, Workers, Places, Recreate, MayOpen, Failed, At
<1>23. ASSUME NEW x \in Workers, Label(x) PROVE NeverParked'
  BY <1>23, ThreadMoves DEF NeverParked, Threads, Workers, Places, Label, GivenBack, Failed, At
<1>24. ASSUME NEW x \in Workers, Build(x) PROVE NeverParked'
  BY <1>24, ThreadMoves DEF NeverParked, Threads, Workers, Places, Build, atomics, Home, At
<1>25. ASSUME NEW x \in Workers, PublishWindow(x) PROVE NeverParked'
  BY <1>25, ThreadMoves DEF NeverParked, Threads, Workers, Places, PublishWindow, Home, At
<1>26. ASSUME NEW x \in Workers, Begin(x) PROVE NeverParked'
  BY <1>26, ThreadNotes DEF NeverParked, Threads, Workers, Places, Begin, atomics, At
<1>27. ASSUME NEW x \in Workers, Ready(x) PROVE NeverParked'
  BY <1>27, ThreadMoves DEF NeverParked, Threads, Workers, Places, Ready, atomics, Home, At
<1>28. ASSUME NEW x \in Workers, ShowNow(x) PROVE NeverParked'
  BY <1>28, ThreadMoves DEF NeverParked, Threads, Workers, Places, ShowNow, Home, At
<1>29. ASSUME NEW x \in Workers, NEW exited \in BOOLEAN, Finish(x, exited) PROVE NeverParked'
  BY <1>29, ThreadMoves DEF NeverParked, Threads, Workers, Places, Finish, Home, At
<1>30. ASSUME NEW x \in Workers, Abort(x) PROVE NeverParked'
  BY <1>30, ThreadMoves DEF NeverParked, Threads, Workers, Places, Abort, Home, At
<1>31. ASSUME NEW x \in Workers, BuildFails(x) PROVE NeverParked'
  BY <1>31, ThreadMoves DEF NeverParked, Threads, Workers, Places, BuildFails, GivenBack, Failed, Home, At
<1>32. ASSUME NEW r \in DOMAIN watch, Poll(r) PROVE NeverParked'
  BY <1>32 DEF NeverParked, Threads, Workers, Places, Poll, atomics
<1>33. ASSUME NEW r \in DOMAIN watch, Commit(r) PROVE NeverParked'
  BY <1>33 DEF NeverParked, Threads, Workers, Places, Commit, Home, At
<1> QED
  BY <1>1, <1>2, <1>3, <1>4, <1>5, <1>6, <1>7, <1>8, <1>9, <1>10, <1>11, <1>12, <1>13, <1>14,
      <1>15, <1>16, <1>17, <1>18, <1>19, <1>20, <1>21, <1>22, <1>23, <1>24, <1>25, <1>26, <1>27,
      <1>28, <1>29, <1>30, <1>31, <1>32, <1>33
    DEF WindowNext, Works, Main, Watcher, Clock

\* Whoever took the window's life to Opening builds, or is about to give it back: it is never
\* left there.
THEOREM NeverParkedHolds == WindowSpec => []NeverParked
<1>1. WindowInit => NeverParked
  BY DEF WindowInit, NeverParked
<1>2. WindowTyped /\ NeverParked /\ [WindowNext]_windowVars => NeverParked'
  <2>1. ASSUME NeverParked, UNCHANGED windowVars PROVE NeverParked'
    BY <2>1 DEF NeverParked, windowVars, atomics
  <2> QED
    BY <2>1, OpeningIsHeld
<1> QED
  BY <1>1, <1>2, WindowTypes, PTL DEF WindowSpec

-----------------------------------------------------------------------------
(* What comes onto the screen.                                             *)

\* What a step does to those who wait: the new ones are of the newest number, and a watcher that
\* brings the window up is of the newest one too.
StillWaiting == \A r \in Awaited' : r \in Awaited \/ r = show'.id
NewestShows == \A r \in DOMAIN watch : Shows(r) => r = show.id

LEMMA NobodyAsks ==
  ASSUME watch' = watch, th' = th
  PROVE  StillWaiting /\ NewestShows
BY DEF StillWaiting, NewestShows, Awaited, Shows, At

LEMMA MovesOn ==
  ASSUME NEW x \in Threads, NEW place \in Places, place # "ready", GoTo(x, place),
         th \in [Threads -> Place], watch' = watch
  PROVE  StillWaiting /\ NewestShows
<1>1. NewestShows
  BY DEF NewestShows, Shows
<1>2. \A y \in Workers : th'[y].at = "ready" => th[y].at = "ready" /\ th'[y] = th[y]
  BY ThreadMoves DEF Threads
<1> QED
  BY <1>1, <1>2 DEF StillWaiting, Awaited, At

LEMMA WaitersAreNew ==
  ASSUME WindowTyped, WindowNext
  PROVE  StillWaiting /\ NewestShows
<1> DEFINE Goal == StillWaiting /\ NewestShows
<1> USE DEF WindowTyped
<1> HIDE DEF Goal
<1>1. CASE Tick
  BY <1>1, MovesOn DEF Goal, Threads, Workers, Places, Tick, Settle, Home
<1>2. CASE Serve
  BY <1>2, MovesOn DEF Goal, Threads, Workers, Places, Serve, Home
<1>3. CASE Age
  BY <1>3, MovesOn DEF Goal, Threads, Workers, Places, Age, Home
<1>4. CASE Leave
  BY <1>4, MovesOn DEF Goal, Threads, Workers, Places, Leave, Home
<1>5. CASE GiveUp
  BY <1>5, MovesOn DEF Goal, Threads, Workers, Places, GiveUp, Home
<1>6. CASE Press
  BY <1>6, MovesOn DEF Goal, Threads, Workers, Places, Press, Settle, Home
<1>7. CASE Ensure
  BY <1>7, MovesOn DEF Goal, Threads, Workers, Places, Ensure, Home
<1>8. CASE ServeInPress
  BY <1>8, MovesOn DEF Goal, Threads, Workers, Places, ServeInPress, Home
<1>9. CASE Refuse
  BY <1>9, MovesOn DEF Goal, Threads, Workers, Places, Refuse, Home
<1>10. CASE Queue
  BY <1>10, MovesOn DEF Goal, Threads, Workers, Places, Queue, Home
<1>11. CASE Toggle
  <2>1. th' \in [Threads -> Place] /\ th'["main"].at = "idle"
        /\ \A y \in Workers : th'[y] = th[y]
    BY <1>11, ThreadMoves DEF Toggle, Threads, Workers, Places, Home
  <2>2. CASE watch' = watch
    BY <2>1, <2>2 DEF Goal, StillWaiting, NewestShows, Awaited, Shows, At
  <2>3. CASE AskShow(TRUE) /\ Watched(show.id + 1, TRUE)
    <3>1. show'.id = show.id + 1
      BY <2>3 DEF AskShow, Begun, ShowTyped
    <3> QED
      BY <2>1, <2>3, <3>1 DEF Goal, StillWaiting, NewestShows, Awaited, Shows, At, Watched
  <2> QED
    BY <1>11, <2>2, <2>3 DEF Toggle
<1>12. CASE HideWindow
  BY <1>12, NobodyAsks DEF Goal, HideWindow
<1>13. CASE Switch
  BY <1>13, MovesOn DEF Goal, Threads, Workers, Places, Switch, Home
<1>14. CASE Release
  BY <1>14, NobodyAsks DEF Goal, Release
<1>15. CASE Paint
  BY <1>15, NobodyAsks DEF Goal, Paint
<1>16. CASE Resume
  BY <1>16, NobodyAsks DEF Goal, Resume
<1>17. CASE BecomesDue
  BY <1>17, NobodyAsks DEF Goal, BecomesDue
<1>18. CASE BudgetEnds
  BY <1>18, NobodyAsks DEF Goal, BudgetEnds
<1>19. CASE DeadlinePasses
  BY <1>19, NobodyAsks DEF Goal, DeadlinePasses
<1>20. ASSUME NEW x \in Workers, Claim(x) PROVE Goal
  <2>1. watch' = watch /\ th'[x].at # "ready" /\ \A y \in Workers : y # x => th'[y] = th[y]
    <3>1. watch' = watch
      BY <1>20 DEF Claim
    <3>2. \A y \in Workers : y # x => th'[y] = th[y]
      BY <1>20, ThreadNotes DEF Threads
    <3>3. th'[x].at # "ready"
      BY <1>20 DEF Claim, GoTo, Home, Threads, Place
    <3> QED
      BY <3>1, <3>2, <3>3
  <2>2. NewestShows
    BY <2>1 DEF NewestShows, Shows
  <2>3. {y \in Workers : th'[y].at = "ready"} \subseteq {y \in Workers : th[y].at = "ready"}
    BY <2>1
  <2>4. \A y \in Workers : th'[y].at = "ready" => th'[y].request = th[y].request
    BY <2>1
  <2> QED
    BY <2>1, <2>2, <2>3, <2>4 DEF Goal, StillWaiting, Awaited, At
<1>21. ASSUME NEW x \in Workers, Destroy(x) PROVE Goal
  BY <1>21, MovesOn DEF Goal, Threads, Workers, Places, Destroy
<1>22. ASSUME NEW x \in Workers, Recreate(x) PROVE Goal
  BY <1>22, MovesOn DEF Goal, Threads, Workers, Places, Recreate, Failed, Home
<1>23. ASSUME NEW x \in Workers, Label(x) PROVE Goal
  BY <1>23, MovesOn DEF Goal, Threads, Workers, Places, Label, Failed, Home
<1>24. ASSUME NEW x \in Workers, Build(x) PROVE Goal
  BY <1>24, MovesOn DEF Goal, Threads, Workers, Places, Build
<1>25. ASSUME NEW x \in Workers, PublishWindow(x) PROVE Goal
  BY <1>25, MovesOn DEF Goal, Threads, Workers, Places, PublishWindow, Home
<1>26. ASSUME NEW x \in Workers, Begin(x) PROVE Goal
  <2>1. watch' = watch /\ \A y \in Workers : y # x => th'[y] = th[y]
    BY <1>26, ThreadNotes DEF Begin, Threads
  <2>2. show'.id = show.id + 1 /\ th'[x].request = show.id + 1
    BY <1>26 DEF Begin, AskShow, Begun, ShowTyped, Threads
  <2> QED
    BY <2>1, <2>2 DEF Goal, StillWaiting, NewestShows, Awaited, Shows, At
<1>27. ASSUME NEW x \in Workers, Ready(x) PROVE Goal
  <2>1. th'[x].at # "ready" /\ \A y \in Workers : y # x => th'[y] = th[y]
    BY <1>27, ThreadMoves DEF Ready, Threads, Workers, Places, Home
  <2>2. CASE watch' = watch
    BY <2>1, <2>2 DEF Goal, StillWaiting, NewestShows, Awaited, Shows, At
  <2>3. CASE Watched(th[x].request, th[x].resume)
    BY <1>27, <2>1, <2>3 DEF Goal, StillWaiting, NewestShows, Awaited, Shows, At, Ready, Watched
  <2> QED
    BY <1>27, <2>2, <2>3 DEF Ready
<1>28. ASSUME NEW x \in Workers, ShowNow(x) PROVE Goal
  BY <1>28, MovesOn DEF Goal, Threads, Workers, Places, ShowNow, Home
<1>29. ASSUME NEW x \in Workers, NEW exited \in BOOLEAN, Finish(x, exited) PROVE Goal
  BY <1>29, MovesOn DEF Goal, Threads, Workers, Places, Finish, Home
<1>30. ASSUME NEW x \in Workers, Abort(x) PROVE Goal
  BY <1>30, MovesOn DEF Goal, Threads, Workers, Places, Abort, Home
<1>31. ASSUME NEW x \in Workers, BuildFails(x) PROVE Goal
  BY <1>31, MovesOn DEF Goal, Threads, Workers, Places, BuildFails, Failed, Home
<1>32. ASSUME NEW r \in DOMAIN watch, Poll(r) PROVE Goal
  BY <1>32 DEF Goal, StillWaiting, NewestShows, Awaited, Shows, At, Poll
<1>33. ASSUME NEW r \in DOMAIN watch, Commit(r) PROVE Goal
  BY <1>33 DEF Goal, StillWaiting, NewestShows, Awaited, Shows, At, Commit, StillAsked
<1> QED
  BY <1>1, <1>2, <1>3, <1>4, <1>5, <1>6, <1>7, <1>8, <1>9, <1>10, <1>11, <1>12, <1>13, <1>14,
      <1>15, <1>16, <1>17, <1>18, <1>19, <1>20, <1>21, <1>22, <1>23, <1>24, <1>25, <1>26, <1>27,
      <1>28, <1>29, <1>30, <1>31, <1>32, <1>33
    DEF Goal, WindowNext, Works, Main, Watcher, Clock

\* Nobody waits with a number that is yet to come, and the newest one is not void.
VoidInv ==
  /\ \A r \in Awaited : r \in Nat /\ r <= show.id
  /\ \A r \in voided : r \in Nat /\ r < show.id

LEMMA VoidStays ==
  ASSUME WindowTyped, VoidInv, WindowNext
  PROVE  VoidInv'
<1>1. show.id \in Nat /\ show'.id \in Nat /\ show'.id >= show.id
  BY HowShowMoves, ShowStaysTyped DEF WindowTyped, ShowTyped
<1>2. \A r \in Awaited' : r \in Nat /\ r <= show'.id
  BY <1>1, WaitersAreNew DEF StillWaiting, VoidInv
<1>3. CASE voided' = voided
  BY <1>1, <1>2, <1>3 DEF VoidInv
<1>4. CASE show'.id = show.id + 1 /\ voided' = voided \cup Awaited
  BY <1>1, <1>2, <1>4 DEF VoidInv
<1> QED
  BY <1>3, <1>4, HowShowMoves, ShowStaysTyped DEF WindowTyped

LEMMA VoidInvHolds == WindowSpec => []VoidInv
<1>1. WindowInit => VoidInv
  BY DEF WindowInit, VoidInv, Awaited, At, Workers, Thread
<1>2. WindowTyped /\ VoidInv /\ [WindowNext]_windowVars => VoidInv'
  <2>1. ASSUME VoidInv, UNCHANGED windowVars PROVE VoidInv'
    BY <2>1 DEF VoidInv, Awaited, At, windowVars, shows
  <2> QED
    BY <2>1, VoidStays
<1> QED
  BY <1>1, <1>2, WindowTypes, PTL DEF WindowSpec

\* A request that was waiting when a hide, a toggle, a rebuild or another request made it void
\* is never the one a watcher puts the window on screen for.
THEOREM SupersededStaysHiddenHolds == WindowSpec => SupersededStaysHidden
<1> DEFINE Step == \A r \in DOMAIN watch : Shows(r) => r \notin voided
<1>1. WindowTyped /\ VoidInv /\ WindowNext => Step
  BY WaitersAreNew DEF NewestShows, VoidInv, WindowTyped, ShowTyped
<1> HIDE DEF Step
<1>2. WindowTyped /\ VoidInv /\ [WindowNext]_windowVars => [Step]_windowVars
  BY <1>1
<1>3. WindowSpec => [][Step]_windowVars
  BY <1>2, WindowTypes, VoidInvHolds, PTL DEF WindowSpec
<1> QED
  BY <1>3 DEF Step, SupersededStaysHidden
=============================================================================
