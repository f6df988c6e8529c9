------------------------- MODULE SurfaceSupervisor -------------------------
(***************************************************************************)
(* SurfaceSupervisor (src-tauri/src/app/surface_supervisor) and the        *)
(* managed child behind its two pipes (frontends/dzc-surface).  The        *)
(* desktop's tasks are the show and hide requests, and for each child the  *)
(* reader of its stdout, a paste action, a dismissal and a stop.  They     *)
(* share one async lock (serial) and one counter (revision): whoever moves *)
(* the counter has cancelled everybody else.                               *)
(*                                                                         *)
(* A display is named by the revision of the request that showed it.       *)
(* Geometry, themes, tickets of native windows and what is pasted are      *)
(* left out; a check of the Host, of the focus or of a deadline may fail   *)
(* at any time.                                                            *)
(***************************************************************************)
EXTENDS Integers, FiniteSets, Sequences

CONSTANTS
  Requests,     \* tasks that show, hide or stop the surface
  MaxRevision,  \* bound on the revision a request or an invalidation begins at
  MaxSessions   \* bound on children started

ASSUME SurfaceAssumption == MaxRevision \in Nat /\ MaxSessions \in Nat

VARIABLES
  revision,   \* SurfaceSupervisor::revision
  visible,    \* the revision last presented, or 0
  requested,  \* the revision last asked to be shown, or 0
  serial,     \* SurfaceSupervisor::serial is held
  process,    \* the current child's session, or 0
  session,    \* Managed, for each session
  request,    \* show_request, hide_request and failed_request, for each task
  action,     \* Managed's paste in progress (event_pending)
  dismissal,  \* Managed's dismissal in progress (dismiss_pending)
  stopper,    \* a stop of the session that waits for serial or is under way
  child,      \* the child processes
  down, up,   \* the pipes to and from each child
  pasted      \* history: the display native input was last sent for

tasks == <<request, action, dismissal, stopper>>
flags == <<visible, requested>>
pipes == <<down, up>>
supervisorVars == <<revision, flags, serial, process, session, tasks, child, pipes, pasted>>

Sessions == 1..MaxSessions

NewSession == [made |-> FALSE, cancelled |-> FALSE, display |-> 0, shown |-> FALSE,
               asked |-> 0, reading |-> FALSE, replies |-> {}, got |-> {}]
NewChild == [up |-> FALSE, display |-> 0, open |-> FALSE, pasting |-> FALSE,
             stopped |-> FALSE]
NoRequest == [pc |-> "idle", kind |-> "show", rev |-> 0, owner |-> 0, display |-> 0,
              fail |-> "none"]
NoAction == [pc |-> "none", display |-> 0, rev |-> 0, performed |-> FALSE]
NoDismissal == [pc |-> "none", display |-> 0, rev |-> 0, reason |-> "blur"]
NoStopper == [pc |-> "none", matching |-> FALSE]

SupervisorInit ==
  /\ revision = 0 /\ visible = 0 /\ requested = 0
  /\ serial = FALSE /\ process = 0
  /\ session = [s \in Sessions |-> NewSession]
  /\ request = [r \in Requests |-> NoRequest]
  /\ action = [s \in Sessions |-> NoAction]
  /\ dismissal = [s \in Sessions |-> NoDismissal]
  /\ stopper = [s \in Sessions |-> NoStopper]
  /\ child = [s \in Sessions |-> NewChild]
  /\ down = [s \in Sessions |-> <<>>] /\ up = [s \in Sessions |-> <<>>]
  /\ pasted = 0

-----------------------------------------------------------------------------
(* What the tasks share.                                                   *)

IsCurrent(rev) == revision = rev
StillValid(s, rev) == ~session[s].cancelled /\ IsCurrent(rev)

IsOpen == revision # 0 /\ requested = revision

\* View::display of a request that starts now.
DisplayOf(s) == IF s = 0 THEN 0 ELSE session[s].display

Larger(a, b) == IF a > b THEN a ELSE b

\* mark_hidden
Hidden(rev) == /\ visible' = IF visible = rev THEN 0 ELSE visible
               /\ requested' = IF requested = rev THEN 0 ELSE requested

\* Managed::cancel
Cancelled(s) == [session EXCEPT ![s].cancelled = TRUE, ![s].display = 0,
                                ![s].shown = FALSE]

Message(type, id, display) == [type |-> type, id |-> id, display |-> display]
WriteTo(s, m) == IF child[s].up THEN [down EXCEPT ![s] = Append(@, m)] ELSE down

\* exchange_until: the sender waits in replies under the request's id.
Waiting(s, id) == [session EXCEPT ![s].replies = @ \cup {id}]
Answered(s, id) == id \in session[s].got
Forgot(s, id) == [session EXCEPT ![s].replies = @ \ {id}, ![s].got = @ \ {id}]

\* stop_current up to its wait: the child is cancelled and told to shut down.
AskToStop(s) == /\ session' = Cancelled(s)
                /\ down' = WriteTo(s, Message("shutdown", <<"shutdown", s>>, 0))

\* Variant: the session is forgotten although the exit is not confirmed.
ChildStoppedUnconfirmed(s, ok) ==
  /\ ok => child[s].stopped
  /\ process' = IF process = s THEN 0 ELSE process
  /\ UNCHANGED <<child, session, pipes>>

\* The rest of stop_current.  The child has exited, or is killed, or its exit is
\* not confirmed; ok only if it answered before it exited.  With its session gone
\* the reader returns: it would drop whatever is left in the pipe.
ChildStopped(s, ok) ==
  \/ /\ ok => child[s].stopped
     /\ child' = [child EXCEPT ![s] = NewChild]
     /\ process' = IF process = s THEN 0 ELSE process
     /\ session' = [session EXCEPT ![s] = [NewSession EXCEPT !.made = TRUE,
                                                             !.cancelled = TRUE]]
     /\ down' = [down EXCEPT ![s] = <<>>] /\ up' = [up EXCEPT ![s] = <<>>]
  \/ /\ ~ok /\ child[s].up
     /\ UNCHANGED <<child, process, session, pipes>>

-----------------------------------------------------------------------------
(* Requests.                                                               *)

\* A request that finds itself cancelled ends there: failed_request ignores it.
Go(r, pc) == request' = [request EXCEPT ![r].pc = pc]
Ends(r) == request' = [request EXCEPT ![r] = NoRequest]
Fails(r, why) == request' = [request EXCEPT ![r].pc = "failed", ![r].fail = why]

\* begin_request, and the invalidation a stop begins with: every earlier request
\* is cancelled from here on.  The hot key hides a surface that is open.  A show
\* captures its target before it locks, while the target has the focus.
BeginRequest(r) ==
  /\ request[r].pc = "idle" /\ revision < MaxRevision
  /\ \E kind \in {"show", "close", "hide", "stop", "exit"}, captured \in BOOLEAN :
       /\ kind = "close" => IsOpen
       /\ captured \/ kind = "show"
       /\ requested' = IF kind = "show" THEN revision + 1 ELSE requested
       /\ request' = [request EXCEPT ![r] =
            [pc |-> IF ~captured THEN "failed" ELSE IF kind = "exit" THEN kind ELSE "lock",
             kind |-> kind, rev |-> revision + 1, owner |-> process,
             display |-> DisplayOf(process), fail |-> IF captured THEN "none" ELSE "error"]]
  /\ revision' = revision + 1
  /\ UNCHANGED <<visible, serial, process, session, action, dismissal, stopper,
                 child, pipes, pasted>>

Lock(r) ==
  /\ request[r].pc = "lock" /\ ~serial
  /\ IF request[r].kind # "stop" /\ ~IsCurrent(request[r].rev)
       THEN Ends(r) /\ UNCHANGED serial
       ELSE /\ serial' = TRUE
            /\ request' = [request EXCEPT ![r].owner = process,
                                          ![r].display = DisplayOf(process),
                                          ![r].pc = "locked"]
  /\ UNCHANGED <<revision, flags, process, session, action, dismissal, stopper,
                 child, pipes, pasted>>

\* show_request: a child that is cancelled, old or exhausted is stopped first.
Recycle(r) ==
  /\ request[r].pc = "locked" /\ request[r].kind = "show" /\ process # 0
  /\ AskToStop(process) /\ Go(r, "recycling")
  /\ UNCHANGED <<revision, flags, serial, process, action, dismissal, stopper,
                 child, up, pasted>>

Recycled(r) ==
  /\ request[r].pc = "recycling"
  /\ \E ok \in BOOLEAN :
       /\ IF process = 0 THEN ok /\ UNCHANGED <<child, process, session, pipes>>
                         ELSE ChildStopped(process, ok)
       /\ IF ok THEN /\ request' = [request EXCEPT ![r].pc = "start", ![r].owner = 0]
                     /\ UNCHANGED serial
                ELSE Fails(r, "error") /\ serial' = FALSE
  /\ UNCHANGED <<revision, flags, action, dismissal, stopper, pasted>>

\* start up to Initialize: the session is the current one before the child has
\* answered anything.  A failure before the spawn leaves no session.
StartChild(r) ==
  /\ \/ request[r].pc = "start"
     \/ request[r].pc = "locked" /\ request[r].kind = "show" /\ process = 0
  /\ \/ /\ Fails(r, "error") /\ serial' = FALSE
        /\ UNCHANGED <<process, session, child, down>>
     \/ /\ \E s \in Sessions :
             /\ ~session[s].made /\ \A t \in 1..(s - 1) : session[t].made
             /\ process' = s
             /\ child' = [child EXCEPT ![s].up = TRUE]
             /\ session' = [session EXCEPT ![s].made = TRUE,
                              ![s].asked = request[r].rev, ![s].reading = TRUE,
                              ![s].replies = {<<"ready", s>>}]
             /\ down' = [down EXCEPT ![s] = <<Message("initialize", <<"ready", s>>, 0)>>]
             /\ request' = [request EXCEPT ![r].pc = "ready", ![r].owner = s,
                                           ![r].display = 0]
        /\ UNCHANGED serial
  /\ UNCHANGED <<revision, flags, action, dismissal, stopper, up, pasted>>

\* The child is there: one that was, or one that has answered Ready.  The display is
\* entered before the main window is hidden for it.
Present(r) ==
  LET q == request[r]
      s == IF q.pc = "ready" THEN q.owner ELSE process IN
  /\ q.kind = "show" /\ s # 0
  /\ \/ q.pc = "locked" /\ ~session[s].cancelled
     \/ q.pc = "ready" /\ Answered(s, <<"ready", s>>)
  /\ IF StillValid(s, q.rev)
       THEN /\ session' = [Forgot(s, <<"ready", s>>) EXCEPT
                             ![s].asked = q.rev, ![s].display = q.rev, ![s].shown = FALSE]
            /\ request' = [request EXCEPT ![r].pc = "handoff", ![r].owner = s,
                                          ![r].display = q.rev]
            /\ UNCHANGED serial
       ELSE /\ session' = [Forgot(s, <<"ready", s>>) EXCEPT ![s].asked = q.rev]
            /\ Ends(r) /\ serial' = FALSE
  /\ UNCHANGED <<revision, flags, process, action, dismissal, stopper, child, pipes, pasted>>

\* The main window has made room; Show is sent.
Handoff(r) ==
  LET q == request[r] IN
  /\ q.pc = "handoff"
  /\ IF StillValid(q.owner, q.rev)
       THEN /\ session' = Waiting(q.owner, <<"show", q.rev>>)
            /\ down' = WriteTo(q.owner, Message("show", <<"show", q.rev>>, q.rev))
            /\ Go(r, "shown") /\ UNCHANGED serial
       ELSE /\ Ends(r) /\ serial' = FALSE
            /\ UNCHANGED <<session, down>>
  /\ UNCHANGED <<revision, flags, process, action, dismissal, stopper, child, up, pasted>>

\* Shown, for this display and still in the view; and the panel has got the focus
\* and has kept it: it is presented.
Shown(r) ==
  LET q == request[r] IN
  /\ q.pc = "shown" /\ Answered(q.owner, <<"show", q.rev>>)
  /\ serial' = FALSE
  /\ IF StillValid(q.owner, q.rev) /\ session[q.owner].display = q.rev
       THEN /\ session' = [Forgot(q.owner, <<"show", q.rev>>) EXCEPT
                             ![q.owner].shown = TRUE]
            /\ visible' = Larger(visible, q.rev)
            /\ Ends(r)
       ELSE /\ session' = Forgot(q.owner, <<"show", q.rev>>) /\ UNCHANGED visible
            /\ IF StillValid(q.owner, q.rev) THEN Fails(r, "error") ELSE Ends(r)
  /\ UNCHANGED <<revision, requested, process, action, dismissal, stopper, child,
                 pipes, pasted>>

\* hide_request under the lock.
Hide(r) ==
  LET q == request[r]
      s == process IN
  /\ q.pc = "locked" /\ q.kind \in {"close", "hide"}
  /\ IF s = 0 THEN Ends(r) /\ serial' = FALSE /\ UNCHANGED <<session, down>>
     ELSE IF session[s].display = 0
       THEN /\ Go(r, "restore") /\ session' = [session EXCEPT ![s].asked = q.rev]
            /\ UNCHANGED <<serial, down>>
       ELSE /\ Go(r, "hidden")
            /\ session' = [Waiting(s, <<"hide", q.rev>>) EXCEPT ![s].asked = q.rev]
            /\ down' = WriteTo(s, Message("hide", <<"hide", q.rev>>, session[s].display))
            /\ UNCHANGED serial
  /\ UNCHANGED <<revision, flags, process, action, dismissal, stopper, child, up, pasted>>

HiddenByRequest(r) ==
  LET q == request[r] IN
  /\ q.pc = "hidden" /\ Answered(q.owner, <<"hide", q.rev>>)
  /\ IF StillValid(q.owner, q.rev)
       THEN /\ session' = [Forgot(q.owner, <<"hide", q.rev>>) EXCEPT
                             ![q.owner].display = IF @ = q.display THEN 0 ELSE @]
            /\ Go(r, "restore") /\ UNCHANGED serial
       ELSE /\ session' = Forgot(q.owner, <<"hide", q.rev>>)
            /\ Ends(r) /\ serial' = FALSE
  /\ UNCHANGED <<revision, flags, process, action, dismissal, stopper, child, pipes, pasted>>

\* restore_target: the original window has the focus again.
RestoredByRequest(r) ==
  /\ request[r].pc = "restore"
  /\ Ends(r) /\ serial' = FALSE
  /\ UNCHANGED <<revision, flags, process, session, action, dismissal, stopper,
                 child, pipes, pasted>>

\* A wait that runs out, a Host that refuses, a focus that has changed.
ReplyOf(q) == CASE q.pc = "ready" -> <<"ready", q.owner>>
                [] q.pc = "hidden" -> <<"hide", q.rev>>
                [] OTHER -> <<"show", q.rev>>

RequestFails(r) ==
  LET q == request[r] IN
  /\ q.pc \in {"ready", "handoff", "shown", "hidden", "restore"}
  /\ \E why \in {"error", "focus"} : /\ why = "focus" => q.pc \in {"handoff", "shown"}
                                   /\ Fails(r, why)
  /\ session' = Forgot(q.owner, ReplyOf(q))
  /\ serial' = FALSE
  /\ UNCHANGED <<revision, flags, process, action, dismissal, stopper, child, pipes, pasted>>

\* failed_request claims the failure for the request's own child and revision.
Claimable(q) == q.owner = process /\ IsCurrent(q.rev)

ClaimFailure(r) ==
  LET q == request[r]
      owned == q.display # 0 /\ DisplayOf(process) = q.display IN
  /\ q.pc = "failed" /\ q.kind # "hide" /\ ~serial
  /\ revision' = IF Claimable(q) THEN revision + 1 ELSE revision
  /\ IF ~Claimable(q) \/ process = 0 \/ (q.fail = "focus" /\ ~owned)
       THEN Ends(r) /\ UNCHANGED <<serial, session, down>>
     ELSE /\ serial' = TRUE
          /\ IF q.fail = "focus"
               THEN /\ session' = Waiting(process, <<"unfocus", q.rev>>)
                    /\ down' = WriteTo(process, Message("hide", <<"unfocus", q.rev>>, q.display))
                    /\ Go(r, "unfocus")
               ELSE AskToStop(process) /\ Go(r, "stopping")
  /\ UNCHANGED <<flags, process, action, dismissal, stopper, child, up, pasted>>

\* hide_quick_paste only reports its failure.
ReportHideFailure(r) ==
  /\ request[r].pc = "failed" /\ request[r].kind = "hide"
  /\ Ends(r)
  /\ UNCHANGED <<revision, flags, serial, process, session, action, dismissal,
                 stopper, child, pipes, pasted>>

\* The panel of a request that lost the focus is hidden, or else its child stopped.
Unfocused(r) ==
  LET q == request[r] IN
  /\ q.pc = "unfocus"
  /\ \/ /\ Answered(q.owner, <<"unfocus", q.rev>>)
        /\ session' = [Forgot(q.owner, <<"unfocus", q.rev>>) EXCEPT
                         ![q.owner].display = IF @ = q.display THEN 0 ELSE @]
        /\ Ends(r) /\ serial' = FALSE /\ UNCHANGED down
     \/ AskToStop(q.owner) /\ Go(r, "stopping") /\ UNCHANGED serial
  /\ UNCHANGED <<revision, flags, process, action, dismissal, stopper, child, up, pasted>>

StoppedByRequest(r) ==
  /\ request[r].pc = "stopping"
  /\ \E ok \in BOOLEAN : ChildStopped(request[r].owner, ok)
  /\ Ends(r) /\ serial' = FALSE
  /\ UNCHANGED <<revision, flags, action, dismissal, stopper, pasted>>

\* stop, for a renderer that is switched off, waits for serial.
Stop(r) ==
  /\ request[r].pc = "locked" /\ request[r].kind = "stop"
  /\ IF process = 0
       THEN Ends(r) /\ serial' = FALSE /\ UNCHANGED <<session, down>>
       ELSE AskToStop(process) /\ Go(r, "stopping") /\ UNCHANGED serial
  /\ UNCHANGED <<revision, flags, process, action, dismissal, stopper, child, up, pasted>>

\* stop_owned, for a Host that shuts down, does not.
Exit(r) ==
  /\ request[r].pc = "exit"
  /\ IF process = 0
       THEN Ends(r) /\ UNCHANGED <<session, down>>
       ELSE /\ AskToStop(process)
            /\ request' = [request EXCEPT ![r].pc = "exiting", ![r].owner = process]
  /\ UNCHANGED <<revision, flags, serial, process, action, dismissal, stopper, child,
                 up, pasted>>

Exited(r) ==
  /\ request[r].pc = "exiting"
  /\ \E ok \in BOOLEAN : ChildStopped(request[r].owner, ok)
  /\ Ends(r)
  /\ UNCHANGED <<revision, flags, serial, action, dismissal, stopper, pasted>>

RequestStep(r) ==
  \/ BeginRequest(r) \/ Lock(r) \/ Recycle(r) \/ Recycled(r) \/ StartChild(r)
  \/ Present(r) \/ Handoff(r) \/ Shown(r)
  \/ Hide(r) \/ HiddenByRequest(r) \/ RestoredByRequest(r) \/ RequestFails(r)
  \/ ClaimFailure(r) \/ ReportHideFailure(r) \/ Unfocused(r) \/ StoppedByRequest(r)
  \/ Stop(r) \/ Exit(r) \/ Exited(r)

-----------------------------------------------------------------------------
(* The reader of a child's stdout.                                         *)

Pop(s) == up' = [up EXCEPT ![s] = Tail(@)]

\* schedule_stop, after which the reader has returned.
ScheduleStop(s) ==
  /\ session' = [Cancelled(s) EXCEPT ![s].reading = FALSE]
  /\ stopper' = [stopper EXCEPT ![s].matching = TRUE,
                                ![s].pc = IF @ = "none" THEN "lock" ELSE @]

ReadReply(s) ==
  /\ session[s].reading /\ up[s] # <<>>
  /\ Head(up[s]).type \in {"ready", "shown", "hidden", "stopped", "failed"}
  /\ LET m == Head(up[s]) IN
       IF m.id \in session[s].replies
         THEN /\ session' = [session EXCEPT ![s].replies = @ \ {m.id},
                               ![s].got = IF m.type = "failed" THEN @ ELSE @ \cup {m.id}]
              /\ UNCHANGED stopper
       ELSE IF m.type = "failed" THEN ScheduleStop(s)
       ELSE UNCHANGED <<session, stopper>>
  /\ Pop(s)
  /\ UNCHANGED <<revision, flags, serial, process, request, action, dismissal, child,
                 down, pasted>>

\* A paste is started unless one is in progress.
ReadPaste(s) ==
  /\ session[s].reading /\ up[s] # <<>> /\ Head(up[s]).type = "paste"
  /\ IF session[s].cancelled \/ action[s].pc # "none"
       THEN UNCHANGED action
       ELSE action' = [action EXCEPT ![s].pc = "lock", ![s].display = Head(up[s]).display,
                                     ![s].performed = FALSE]
  /\ Pop(s)
  /\ UNCHANGED <<revision, flags, serial, process, session, request, dismissal, stopper,
                 child, down, pasted>>

\* A dismissal of the display in the view moves the revision, unless an earlier
\* one is in progress or the revision has moved already.
Dismissable(s, display) ==
  /\ ~session[s].cancelled /\ session[s].display = display
  /\ dismissal[s].pc = "none" /\ IsCurrent(display)

ReadDismiss(s) ==
  /\ session[s].reading /\ up[s] # <<>> /\ Head(up[s]).type = "dismiss"
  /\ LET m == Head(up[s]) IN
       IF Dismissable(s, m.display)
         THEN /\ revision' = revision + 1
              /\ dismissal' = [dismissal EXCEPT ![s] =
                   [pc |-> "lock", display |-> m.display, rev |-> m.display + 1,
                    reason |-> m.id]]
         ELSE UNCHANGED <<revision, dismissal>>
  /\ Pop(s)
  /\ UNCHANGED <<flags, serial, process, session, request, action, stopper, child, down, pasted>>

\* Variant: a child that closes its pipe is left alone.
ReadEndIgnored(s) ==
  /\ session[s].reading /\ up[s] = <<>> /\ ~child[s].up
  /\ session' = [session EXCEPT ![s].reading = FALSE]
  /\ UNCHANGED <<revision, flags, serial, process, request, action, dismissal, stopper,
                 child, pipes, pasted>>

ReadEnd(s) ==
  /\ session[s].reading /\ up[s] = <<>> /\ ~child[s].up
  /\ ScheduleStop(s)
  /\ UNCHANGED <<revision, flags, serial, process, request, action, dismissal, child,
                 pipes, pasted>>

ReaderStep(s) == ReadReply(s) \/ ReadPaste(s) \/ ReadDismiss(s) \/ ReadEnd(s)

-----------------------------------------------------------------------------
(* A paste: perform_action under the lock, then action.                    *)

ActionUnchanged == UNCHANGED <<revision, process, request, dismissal, stopper, up>>
ActionGo(s, pc) == action' = [action EXCEPT ![s].pc = pc]
ActionEnds(s) == ActionGo(s, "complete") /\ serial' = FALSE

ActionLock(s) ==
  /\ action[s].pc = "lock" /\ ~serial
  /\ IF session[s].cancelled
       THEN ActionGo(s, "complete") /\ UNCHANGED serial
       ELSE /\ action' = [action EXCEPT ![s].pc = "state", ![s].rev = revision]
            /\ serial' = TRUE
  /\ ActionUnchanged /\ UNCHANGED <<flags, session, child, down, pasted>>

\* Variant: the revision of the display is not compared.
AdmissibleStale(s) == session[s].shown /\ session[s].display = action[s].display

\* View::admit: the display presented for the revision that is current now.
Admissible(s) ==
  /\ session[s].shown /\ session[s].display = action[s].display
  /\ session[s].display = action[s].rev

Admit(s) ==
  /\ action[s].pc = "state"
  /\ IF StillValid(s, action[s].rev) /\ Admissible(s)
       THEN /\ session' = [Waiting(s, <<"paste", action[s].display>>) EXCEPT
                             ![s].shown = FALSE]
            /\ Hidden(action[s].rev)
            /\ down' = WriteTo(s, Message("hide", <<"paste", action[s].display>>,
                                        action[s].display))
            /\ ActionGo(s, "hidden") /\ UNCHANGED serial
       ELSE ActionEnds(s) /\ UNCHANGED <<session, flags, down>>
  /\ ActionUnchanged /\ UNCHANGED <<child, pasted>>

\* Variant: the paste does not wait for its display to be hidden.
ActionHiddenUnanswered(s) ==
  /\ action[s].pc = "hidden"
  /\ ActionGo(s, "copy")
  /\ ActionUnchanged /\ UNCHANGED <<flags, serial, session, child, down, pasted>>

\* The panel is hidden; the target is restored and the entry copied.
ActionHidden(s) ==
  LET id == <<"paste", action[s].display>> IN
  /\ action[s].pc = "hidden" /\ Answered(s, id)
  /\ session' = Forgot(s, id)
  /\ IF StillValid(s, action[s].rev)
       THEN ActionGo(s, "copy") /\ UNCHANGED serial
       ELSE ActionEnds(s)
  /\ ActionUnchanged /\ UNCHANGED <<flags, child, down, pasted>>

\* The last check and the native input.
ActionPastes(s) ==
  /\ action[s].pc = "copy" /\ StillValid(s, action[s].rev)
  /\ pasted' = action[s].display
  /\ action' = [action EXCEPT ![s].pc = "complete", ![s].performed = TRUE]
  /\ serial' = FALSE
  /\ ActionUnchanged /\ UNCHANGED <<flags, session, child, down>>

\* A deadline, a changed focus, a refusal of the Host.
ActionFails(s) ==
  /\ action[s].pc \in {"lock", "state", "hidden", "copy"}
  /\ ActionGo(s, "complete")
  /\ serial' = IF action[s].pc = "lock" THEN serial ELSE FALSE
  /\ session' = Forgot(s, <<"paste", action[s].display>>)
  /\ ActionUnchanged /\ UNCHANGED <<flags, child, down, pasted>>

\* complete_selection, then the result is written to the child, if it is there.
ActionCompletes(s) ==
  /\ action[s].pc = "complete" /\ ~serial
  /\ session' = [session EXCEPT ![s].display =
       IF @ = action[s].display /\ IsCurrent(@) /\ ~session[s].shown THEN 0 ELSE @]
  /\ down' = WriteTo(s, Message("result", action[s].performed, action[s].display))
  /\ IF child[s].up THEN action' = [action EXCEPT ![s] = NoAction]
                    ELSE ActionGo(s, "unsent")
  /\ ActionUnchanged /\ UNCHANGED <<flags, serial, child, pasted>>

\* stop_matching, after a result that could not be written.
ActionStops(s) ==
  /\ action[s].pc = "unsent" /\ ~serial
  /\ IF process = s
       THEN /\ Hidden(session[s].asked) /\ AskToStop(s)
            /\ ActionGo(s, "stopping") /\ serial' = TRUE
       ELSE /\ action' = [action EXCEPT ![s] = NoAction]
            /\ UNCHANGED <<flags, session, serial, down>>
  /\ ActionUnchanged /\ UNCHANGED <<child, pasted>>

ActionStopped(s) ==
  /\ action[s].pc = "stopping"
  /\ \E ok \in BOOLEAN : ChildStopped(s, ok)
  /\ action' = [action EXCEPT ![s] = NoAction] /\ serial' = FALSE
  /\ UNCHANGED <<revision, flags, request, dismissal, stopper, pasted>>

ActionStep(s) ==
  \/ ActionLock(s) \/ Admit(s) \/ ActionHidden(s) \/ ActionPastes(s)
  \/ ActionFails(s) \/ ActionCompletes(s) \/ ActionStops(s) \/ ActionStopped(s)

-----------------------------------------------------------------------------
(* A dismissal, and the stops that wait for serial.                        *)

DismissLock(s) ==
  LET d == dismissal[s] IN
  /\ d.pc = "lock" /\ ~serial
  /\ IF IsCurrent(d.rev) /\ process = s /\ session[s].display = d.display
       THEN /\ session' = [session EXCEPT ![s].display = 0, ![s].shown = FALSE]
            /\ IF d.reason = "cancel"
                 THEN /\ dismissal' = [dismissal EXCEPT ![s].pc = "restore"]
                      /\ serial' = TRUE
                 ELSE /\ dismissal' = [dismissal EXCEPT ![s] = NoDismissal]
                      /\ UNCHANGED serial
       ELSE /\ dismissal' = [dismissal EXCEPT ![s] = NoDismissal]
            /\ UNCHANGED <<session, serial>>
  /\ UNCHANGED <<revision, flags, process, request, action, stopper, child, pipes, pasted>>

\* The target is restored, or its deadline passes, also before the lock is there.
DismissEnds(s) ==
  /\ dismissal[s].pc # "none"
  /\ dismissal' = [dismissal EXCEPT ![s] = NoDismissal]
  /\ serial' = IF dismissal[s].pc = "restore" THEN FALSE ELSE serial
  /\ UNCHANGED <<revision, flags, process, session, request, action, stopper, child,
                 pipes, pasted>>

\* stop_matching, or the task of invalidate, which leaves the flags to the revision.
StopperStops(s) ==
  /\ stopper[s].pc = "lock" /\ ~serial
  /\ IF process = s
       THEN /\ IF stopper[s].matching THEN Hidden(session[s].asked) ELSE UNCHANGED flags
            /\ AskToStop(s) /\ serial' = TRUE
            /\ stopper' = [stopper EXCEPT ![s].pc = "stopping"]
       ELSE /\ stopper' = [stopper EXCEPT ![s] = NoStopper]
            /\ UNCHANGED <<flags, session, serial, down>>
  /\ UNCHANGED <<revision, process, request, action, dismissal, child, up, pasted>>

StopperStopped(s) ==
  /\ stopper[s].pc = "stopping"
  /\ \E ok \in BOOLEAN : ChildStopped(s, ok)
  /\ stopper' = [stopper EXCEPT ![s] = NoStopper] /\ serial' = FALSE
  /\ UNCHANGED <<revision, flags, request, action, dismissal, pasted>>

\* invalidate: the main window is shown, the Host or the privacy state has changed.
Invalidate ==
  /\ revision < MaxRevision
  /\ revision' = revision + 1
  /\ IF process = 0 THEN UNCHANGED <<session, stopper>>
     ELSE /\ session' = Cancelled(process)
          /\ stopper' = [stopper EXCEPT ![process].pc = IF @ = "none" THEN "lock" ELSE @]
  /\ UNCHANGED <<flags, serial, process, request, action, dismissal, child, pipes,
                 pasted>>

TaskStep(s) == \/ DismissLock(s) \/ DismissEnds(s) \/ StopperStops(s) \/ StopperStopped(s)

-----------------------------------------------------------------------------
(* The child: Panel.receive, connectDisplay, paste, dismiss, fail.         *)

ChildUnchanged == UNCHANGED <<revision, flags, serial, process, session, tasks, pasted>>
Say(s, type, id, display) == up' = [up EXCEPT ![s] = Append(@, Message(type, id, display))]

\* hideLocal
ChildHides(s) == [child EXCEPT ![s].display = 0, ![s].open = FALSE, ![s].pasting = FALSE]

ChildReceives(s) ==
  /\ child[s].up /\ ~child[s].stopped /\ down[s] # <<>>
  /\ LET m == Head(down[s]) IN
       \/ /\ m.type = "initialize"
          /\ \/ Say(s, "ready", m.id, 0) \/ Say(s, "failed", m.id, 0)
          /\ UNCHANGED child
       \/ /\ m.type = "show" /\ UNCHANGED up
          /\ child' = [ChildHides(s) EXCEPT ![s].display = m.display]
       \/ /\ m.type = "hide" /\ Say(s, "hidden", m.id, m.display)
          /\ child' = IF child[s].display = m.display THEN ChildHides(s) ELSE child
       \/ /\ m.type = "result" /\ UNCHANGED up
          /\ child' = IF child[s].display # m.display \/ ~child[s].pasting THEN child
                      ELSE IF m.id THEN ChildHides(s)
                      ELSE [child EXCEPT ![s].pasting = FALSE]
       \/ /\ m.type = "shutdown" /\ Say(s, "stopped", m.id, 0)
          /\ child' = [ChildHides(s) EXCEPT ![s].stopped = TRUE]
  /\ down' = [down EXCEPT ![s] = Tail(@)]
  /\ ChildUnchanged

\* connectDisplay has reached the Host: the window is shown and Shown is sent.
ChildShows(s) ==
  /\ child[s].up /\ child[s].display # 0 /\ ~child[s].open
  /\ child' = [child EXCEPT ![s].open = TRUE]
  /\ Say(s, "shown", <<"show", child[s].display>>, child[s].display)
  /\ ChildUnchanged /\ UNCHANGED down

\* fail: the answer to the show, or a failure nobody asked for.
ChildFails(s) ==
  /\ child[s].up /\ child[s].display # 0
  /\ child' = ChildHides(s)
  /\ Say(s, "failed", IF child[s].open THEN <<"event", s>> ELSE <<"show", child[s].display>>, 0)
  /\ ChildUnchanged /\ UNCHANGED down

UserPastes(s) ==
  /\ child[s].up /\ child[s].open /\ ~child[s].pasting
  /\ child' = [child EXCEPT ![s].pasting = TRUE]
  /\ Say(s, "paste", <<"action", s>>, child[s].display)
  /\ ChildUnchanged /\ UNCHANGED down

\* Escape or a lost focus: the panel hides at once and says so afterwards.
UserDismisses(s) ==
  /\ child[s].up /\ child[s].display # 0
  /\ child' = ChildHides(s)
  /\ \E reason \in {"cancel", "blur"} : Say(s, "dismiss", reason, child[s].display)
  /\ ChildUnchanged /\ UNCHANGED down

ChildCrashes(s) ==
  /\ child[s].up
  /\ child' = [ChildHides(s) EXCEPT ![s].up = FALSE]
  /\ down' = [down EXCEPT ![s] = <<>>]
  /\ ChildUnchanged /\ UNCHANGED up

ChildStep(s) == \/ ChildReceives(s) \/ ChildShows(s) \/ ChildFails(s)
                \/ UserPastes(s) \/ UserDismisses(s) \/ ChildCrashes(s)

-----------------------------------------------------------------------------
SupervisorNext ==
  \/ \E r \in Requests : RequestStep(r)
  \/ \E s \in Sessions : ReaderStep(s) \/ ActionStep(s) \/ TaskStep(s) \/ ChildStep(s)
  \/ Invalidate

\* The lock is a fair queue and every wait has a deadline; nothing is asked of
\* the child or of the user.
SupervisorFairness ==
  /\ \A r \in Requests : SF_supervisorVars(RequestStep(r) /\ ~BeginRequest(r))
  /\ \A s \in Sessions :
       /\ WF_supervisorVars(ReaderStep(s))
       /\ SF_supervisorVars(ActionStep(s))
       /\ SF_supervisorVars(DismissLock(s) \/ DismissEnds(s))
       /\ SF_supervisorVars(StopperStops(s))
       /\ WF_supervisorVars(StopperStopped(s))

SupervisorSpec == SupervisorInit /\ [][SupervisorNext]_supervisorVars /\ SupervisorFairness

-----------------------------------------------------------------------------
\* There is never a second child: the doc calls it "exactly one managed helper".
OneChild == \A s, t \in Sessions : child[s].up /\ child[t].up => s = t

\* The step that sends the native input.
Pastes(s) == ~action[s].performed /\ action'[s].performed

\* Native input goes to the target: no panel is on the screen when it is sent.
HiddenWhenPasting ==
  [][\A s \in Sessions : Pastes(s) => \A t \in Sessions : ~child[t].open]_supervisorVars

\* What is pasted was chosen in the display asked for last, and is pasted once.
PastesTheNewestOnce ==
  [][\A s \in Sessions : Pastes(s) => /\ action[s].display = revision
                                      /\ action[s].display > pasted]_supervisorVars

\* Both: what goes out was chosen on the newest display, goes out once, and never under
\* a panel that still covers the target.
PastesOnceHidden == HiddenWhenPasting /\ PastesTheNewestOnce

\* A child that is gone is noticed: it is forgotten, or marked so that the next show
\* stops it and starts another one.
DeadChildIsNoticed ==
  \A s \in Sessions : (process = s /\ ~child[s].up) ~> (process # s \/ session[s].cancelled)

=============================================================================
