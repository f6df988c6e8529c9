--------------------------- MODULE WindowLifecycle ---------------------------
(***************************************************************************)
(* The main window's life (src-tauri app/idle_destroyer.rs with the toggle *)
(* and hide of app/window_manager.rs): the ticker that destroys a window   *)
(* hidden for long and rebuilds it when asked, the thread of a GPU switch  *)
(* that does both at once, the main thread that runs what the user does    *)
(* and on which the runtime releases and builds windows, and the watchers  *)
(* that hold a show back until the frontend is ready.                      *)
(*                                                                         *)
(* Times are what the code tells apart: a window hidden just now or for    *)
(* longer than the setting, a teardown within its budget or past it.  Edge *)
(* docking, overlays, focus and window memory are left out.                *)
(***************************************************************************)
EXTENDS Integers, FiniteSets

CONSTANTS
  MaxActs,      \* bound on what the user does
  MaxSwitches,  \* bound on GPU switches
  MaxHides,     \* bound on the times a hidden window becomes due
  MaxFaults     \* bound on the switches, teardowns and builds the runtime refuses

VARIABLES
  lifecycle,    \* WINDOW_LIFECYCLE
  isDestroyed,  \* IS_DESTROYED
  pending,      \* RECREATE_PENDING
  hidden,       \* LAST_HIDDEN_TIMESTAMP: "no", "recent" or "due"
  closing,      \* CLOSING_SINCE_MS: "no", "recent" or "due"
  window,       \* what is registered as "main": "none", "hidden" or "visible"
  dying,        \* the runtime has accepted its destruction
  painted,      \* MAIN_WINDOW_PAINTED
  deadline,     \* SHOW_DEADLINE_MS: "none", "armed" or "past"
  show,         \* SHOW_PENDING, SHOW_REQUEST_ID, RESUME_REQUIRED_REQUEST, RESUME_READY_REQUEST
  gpuWaiting,   \* GPU_SWITCH_WAITING
  th,           \* the ticker, the GPU switch's thread and the main thread
  watch,        \* the watchers, by request
  voided,       \* history: the requests that were waiting when another or a cancel came
  acts, switches, hides, faults

atomics == <<lifecycle, isDestroyed, pending, hidden, closing>>
shows == <<painted, deadline, show, voided>>
windowVars == <<atomics, window, dying, shows, gpuWaiting, th, watch, acts, switches, hides, faults>>

Workers == {"ticker", "gpu"}
Thread == [at |-> "idle", visible |-> FALSE, request |-> 0, resume |-> FALSE]

WindowInit ==
  /\ lifecycle = "open" /\ isDestroyed = FALSE /\ pending = FALSE
  /\ hidden = "no" /\ closing = "no" /\ window = "hidden" /\ dying = FALSE
  /\ painted = TRUE /\ deadline = "none"
  /\ show = [pending |-> FALSE, id |-> 0, required |-> 0, ready |-> 0]
  /\ gpuWaiting = FALSE /\ th = [x \in Workers \cup {"main"} |-> Thread]
  /\ watch = << >> /\ voided = {} /\ acts = 0 /\ switches = 0 /\ hides = 0 /\ faults = 0

Exists == window # "none"
At(x, place) == th[x].at = place
GoTo(x, place) == th' = [th EXCEPT ![x].at = place]
Home == "idle"

-----------------------------------------------------------------------------
(* The pieces several threads use.                                         *)

GivesUp == closing = "due"

\* complete_pending_destroy, which looks at the lifecycle, the switch and the window in
\* adjacent reads: one step here.  x is the thread, next where it goes on.  A window the
\* runtime has kept past the budget it keeps, as the code's comment says.
Settle(x, next) ==
  /\ lifecycle = "closing" /\ GoTo(x, next)
  /\ IF gpuWaiting \/ (Exists /\ ~GivesUp) THEN UNCHANGED atomics
     ELSE /\ lifecycle' = (IF Exists THEN "open" ELSE "closed") /\ isDestroyed' = ~Exists
          /\ pending' = (pending /\ ~Exists) /\ closing' = "no"
          /\ hidden' = IF Exists THEN hidden ELSE "no"
  /\ dying' = (dying /\ ~(~gpuWaiting /\ GivesUp))
  /\ UNCHANGED <<window, shows, gpuWaiting, watch, switches, hides, faults>>

\* The requests that wait for their page: with a watcher, or with the thread about to leave
\* them to one.
Awaited == {r \in DOMAIN watch : watch[r].at # "over"}
             \cup {th[x].request : x \in {y \in Workers : At(y, "ready")}}

\* Mutant: a cancel leaves the number alone.
CancelKeepsId == [show EXCEPT !.pending = FALSE, !.required = 0, !.ready = 0]
CancelledShow == [show EXCEPT !.pending = FALSE, !.id = @ + 1, !.required = 0, !.ready = 0]
\* A request by a thread for a window that is not on the screen needs a fresh page.
Begun(needs) == [show EXCEPT !.pending = TRUE, !.id = @ + 1,
                             !.required = IF needs THEN show.id + 1 ELSE @,
                             !.ready = IF needs THEN 0 ELSE @]
\* Either abandons whatever waits.
CancelShow == show' = CancelledShow /\ voided' = voided \cup Awaited
AskShow(needs) == show' = Begun(needs) /\ voided' = voided \cup Awaited

ReadyToShow(request, resume) ==
  (painted /\ (resume => show.ready = request)) \/ deadline = "past"

-----------------------------------------------------------------------------
(* The ticker.                                                             *)

Tick ==
  /\ At("ticker", Home) /\ UNCHANGED acts
  /\ \/ Settle("ticker", IF pending /\ ~Exists /\ ~gpuWaiting THEN "serve" ELSE Home)
     \/ /\ lifecycle # "closing" /\ GoTo("ticker", "tick")
        /\ pending \/ hidden = "due" \/ (window = "visible") # (hidden = "no")
        /\ UNCHANGED <<atomics, window, dying, shows, gpuWaiting, watch, switches, hides, faults>>

\* service_pending_recreate, before anything else of a tick and after a teardown.
Serve ==
  /\ th["ticker"].at \in {"tick", "serve"}
  /\ LET back == IF At("ticker", "tick") THEN "age" ELSE Home IN
     IF pending /\ lifecycle = "closed"
     THEN IF Exists THEN pending' = FALSE /\ GoTo("ticker", back)
                    ELSE UNCHANGED pending /\ GoTo("ticker", "recreate")
     ELSE UNCHANGED pending /\ GoTo("ticker", back)
  /\ UNCHANGED <<lifecycle, isDestroyed, hidden, closing, window, dying, shows, gpuWaiting, watch,
                 acts, switches, hides, faults>>

\* sync_hidden_state and should_destroy_now.
Synced == IF window # "hidden" THEN "no" ELSE IF hidden = "no" THEN "recent" ELSE hidden
Age ==
  /\ At("ticker", "age") /\ hidden' = Synced
  /\ GoTo("ticker", IF Synced = "due" /\ ~isDestroyed THEN "claim" ELSE Home)
  /\ UNCHANGED <<lifecycle, isDestroyed, pending, closing, window, dying, shows, gpuWaiting, watch,
                 acts, switches, hides, faults>>

\* Open to Closing, by the ticker or by a GPU switch, which queues what it cannot do.
Claim(x) ==
  /\ At(x, "claim")
  /\ IF lifecycle = "open"
     THEN lifecycle' = "closing" /\ closing' = "recent" /\ UNCHANGED pending
          /\ th' = [th EXCEPT ![x].at = "destroy", ![x].visible = window = "visible"]
     ELSE pending' = (pending \/ x = "gpu") /\ UNCHANGED <<lifecycle, closing>> /\ GoTo(x, Home)
  /\ UNCHANGED <<isDestroyed, hidden, window, dying, shows, gpuWaiting, watch, acts,
                 switches, hides, faults>>

RuntimeRefuses == faults < MaxFaults /\ faults' = faults + 1

\* A switch does not find the browser's process, or the runtime refuses to destroy the window.
Abort(x) ==
  /\ At(x, "destroy") /\ Exists /\ RuntimeRefuses /\ GoTo(x, Home) /\ lifecycle' = "open" /\ closing' = "no"
  /\ UNCHANGED <<isDestroyed, pending, hidden, window, dying, shows, gpuWaiting, watch, acts, switches, hides>>

Destroy(x) ==
  /\ At(x, "destroy") /\ GoTo(x, "finish") /\ dying' = Exists /\ gpuWaiting' = (gpuWaiting \/ x = "gpu")
  /\ UNCHANGED <<atomics, window, shows, watch, acts, switches, hides, faults>>

\* finish_main_destroy: the label is free or 0.8 seconds are over, and so for the browser.
Finish(x, exited) ==
  /\ At(x, "finish") /\ hidden' = "no" /\ (x = "ticker" => exited)
  /\ LET done == ~Exists /\ exited IN
     /\ lifecycle' = IF done THEN "closed" ELSE "closing"
     /\ isDestroyed' = ~Exists /\ closing' = IF done THEN "no" ELSE closing
     /\ GoTo(x, IF x = "ticker" THEN IF done THEN "serve" ELSE Home
              ELSE IF done THEN "leave" ELSE "give up")
  /\ UNCHANGED <<pending, window, dying, shows, gpuWaiting, watch, acts, switches, hides, faults>>

Leave ==
  /\ gpuWaiting /\ th["gpu"].at \in {"leave", "give up"}
  /\ gpuWaiting' = FALSE /\ GoTo("gpu", IF At("gpu", "leave") THEN "recreate" ELSE "give up")
  /\ UNCHANGED <<atomics, window, dying, shows, watch, acts, switches, hides, faults>>

GiveUp ==
  /\ At("gpu", "give up") /\ ~gpuWaiting /\ pending' = (pending \/ th["gpu"].visible) /\ GoTo("gpu", Home)
  /\ UNCHANGED <<lifecycle, isDestroyed, hidden, closing, window, dying, shows, gpuWaiting, watch,
                 acts, switches, hides, faults>>

-----------------------------------------------------------------------------
(* recreate_main_window and the show that follows it, by the ticker or a   *)
(* GPU switch.                                                             *)

Failed(x) == GoTo(x, IF x = "ticker" THEN "age" ELSE "give up")

MayOpen == lifecycle = "closed"

Recreate(x) ==
  /\ At(x, "recreate")
  /\ IF MayOpen THEN lifecycle' = "opening" /\ GoTo(x, "label") ELSE UNCHANGED lifecycle /\ Failed(x)
  /\ UNCHANGED <<isDestroyed, pending, hidden, closing, window, dying, shows, gpuWaiting, watch,
                 acts, switches, hides, faults>>

\* Mutant: who cannot build stays in Opening.
StillOpening == "opening"
GivenBack == "closed"

Label(x) ==
  /\ At(x, "label")
  /\ IF Exists THEN lifecycle' = GivenBack /\ UNCHANGED <<show, voided>> /\ Failed(x)
               ELSE UNCHANGED lifecycle /\ CancelShow /\ GoTo(x, "build")
  /\ UNCHANGED <<isDestroyed, pending, hidden, closing, window, dying, painted, deadline, gpuWaiting,
                 watch, acts, switches, hides, faults>>

\* The main thread builds it.
Build(x) ==
  /\ At(x, "build") /\ At("main", Home) /\ ~Exists
  /\ window' = "hidden" /\ dying' = FALSE /\ GoTo(x, "built")
  /\ UNCHANGED <<atomics, shows, gpuWaiting, watch, acts, switches, hides, faults>>
BuildFails(x) ==
  /\ At(x, "build") /\ At("main", Home) /\ (RuntimeRefuses \/ (Exists /\ UNCHANGED faults))
  /\ lifecycle' = GivenBack /\ Failed(x)
  /\ UNCHANGED <<isDestroyed, pending, hidden, closing, window, dying, shows, gpuWaiting, watch,
                 acts, switches, hides>>

PublishWindow(x) ==
  /\ At(x, "built") /\ lifecycle' = "open" /\ isDestroyed' = FALSE /\ hidden' = "no"
  /\ painted' = FALSE /\ deadline' = "armed" /\ CancelShow /\ closing' = "no"
  /\ pending' = FALSE
  /\ GoTo(x, IF x = "ticker" \/ th[x].visible THEN "begin" ELSE Home)
  /\ UNCHANGED <<window, dying, gpuWaiting, watch, acts, switches, hides, faults>>

Begin(x) ==
  /\ At(x, "begin")
  /\ LET needs == window = "hidden" IN
     /\ AskShow(needs) /\ deadline' = IF needs THEN "armed" ELSE deadline
     /\ th' = [th EXCEPT ![x] = [at |-> "ready", visible |-> @.visible, request |-> show.id + 1,
                                 resume |-> needs]]
  /\ UNCHANGED <<atomics, window, dying, painted, gpuWaiting, watch, acts, switches, hides, faults>>

Watched(request, resume) ==
  watch' = [r \in DOMAIN watch \cup {request} |->
              IF r = request THEN [at |-> "waiting", resume |-> resume] ELSE watch[r]]

Ready(x) ==
  /\ At(x, "ready")
  /\ IF ReadyToShow(th[x].request, th[x].resume)
     THEN show' = [show EXCEPT !.pending = FALSE] /\ GoTo(x, "showing") /\ UNCHANGED watch
     ELSE UNCHANGED show /\ Watched(th[x].request, th[x].resume) /\ GoTo(x, Home)
  /\ UNCHANGED <<atomics, window, dying, painted, deadline, voided, gpuWaiting, acts, switches, hides, faults>>

\* show() and notify_main_window_shown.
PutOnScreen == window' = IF Exists THEN "visible" ELSE window

ShowNow(x) ==
  /\ At(x, "showing") /\ PutOnScreen /\ GoTo(x, Home) /\ hidden' = IF Exists THEN "no" ELSE hidden
  /\ UNCHANGED <<lifecycle, isDestroyed, pending, closing, dying, shows, gpuWaiting, watch,
                 acts, switches, hides, faults>>

-----------------------------------------------------------------------------
(* The watchers.                                                           *)

Poll(r) ==
  /\ watch[r].at = "waiting" /\ ReadyToShow(r, watch[r].resume)
  /\ watch' = [watch EXCEPT ![r].at = IF r = show.id THEN "posted" ELSE "over"]
  /\ UNCHANGED <<atomics, window, dying, shows, gpuWaiting, th, acts, switches, hides, faults>>

StillAsked(r) == r = show.id

Commit(r) ==
  /\ watch[r].at = "posted" /\ At("main", Home) /\ watch' = [watch EXCEPT ![r].at = "over"]
  /\ IF StillAsked(r)
     THEN show' = [show EXCEPT !.pending = FALSE] /\ PutOnScreen /\ hidden' = "no"
     ELSE UNCHANGED <<show, window, hidden>>
  /\ UNCHANGED <<lifecycle, isDestroyed, pending, closing, dying, painted, deadline, voided, gpuWaiting,
                 th, acts, switches, hides, faults>>

-----------------------------------------------------------------------------
(* The user, on the main thread.                                           *)

Press ==
  /\ At("main", Home) /\ acts < MaxActs /\ acts' = acts + 1
  /\ \/ Settle("main", IF pending /\ ~Exists /\ ~gpuWaiting THEN "serve" ELSE "check")
     \/ /\ lifecycle # "closing" /\ GoTo("main", "check")
        /\ UNCHANGED <<atomics, window, dying, shows, gpuWaiting, watch, switches, hides, faults>>

Usable == Exists /\ ~isDestroyed /\ lifecycle = "open"

\* ensure_main_window: this thread must not build, so it gives back what it took.
Ensure ==
  /\ At("main", "check")
  /\ IF ~Usable /\ lifecycle = "closed"
     THEN lifecycle' = "opening" /\ GoTo("main", "refuse")
     ELSE UNCHANGED lifecycle /\ GoTo("main", IF Usable THEN "toggle" ELSE "queue")
  /\ UNCHANGED <<isDestroyed, pending, hidden, closing, window, dying, shows, gpuWaiting, watch,
                 acts, switches, hides, faults>>

\* The teardown that a press settles serves a queued request first, as the ticker's does.
ServeInPress ==
  /\ At("main", "serve") /\ pending' = (pending /\ ~(lifecycle = "closed" /\ Exists))
  /\ IF pending /\ lifecycle = "closed" /\ ~Exists
     THEN lifecycle' = "opening" /\ GoTo("main", "undo")
     ELSE UNCHANGED lifecycle /\ GoTo("main", "check")
  /\ UNCHANGED <<isDestroyed, hidden, closing, window, dying, shows, gpuWaiting, watch, acts,
                 switches, hides, faults>>

Refuse ==
  /\ th["main"].at \in {"refuse", "undo"} /\ lifecycle' = GivenBack
  /\ GoTo("main", IF At("main", "refuse") THEN "queue" ELSE "check")
  /\ UNCHANGED <<isDestroyed, pending, hidden, closing, window, dying, shows, gpuWaiting, watch,
                 acts, switches, hides, faults>>

Queue ==
  /\ At("main", "queue") /\ pending' = TRUE /\ GoTo("main", Home)
  /\ UNCHANGED <<lifecycle, isDestroyed, hidden, closing, window, dying, shows, gpuWaiting, watch,
                 acts, switches, hides, faults>>

\* A press closes what is on its way or on the screen, and else opens the window.
Toggle ==
  /\ At("main", "toggle") /\ GoTo("main", Home)
  /\ \/ /\ show.pending /\ window # "visible" /\ CancelShow /\ hidden' = "recent"
        /\ UNCHANGED <<window, painted, deadline, watch>>
     \/ /\ window = "visible" /\ window' = "hidden" /\ hidden' = "recent"
        /\ UNCHANGED <<shows, watch>>
     \/ /\ window # "visible" /\ ~show.pending /\ UNCHANGED painted
        /\ AskShow(TRUE) /\ deadline' = "armed"
        /\ Watched(show.id + 1, TRUE) /\ UNCHANGED <<window, hidden>>
  /\ UNCHANGED <<lifecycle, isDestroyed, pending, closing, dying, gpuWaiting, acts, switches, hides, faults>>

\* hide_window_cmd.
HideWindow ==
  /\ At("main", Home) /\ acts < MaxActs /\ acts' = acts + 1 /\ CancelShow
  /\ window' = (IF Exists THEN "hidden" ELSE window) /\ hidden' = IF Exists THEN "recent" ELSE hidden
  /\ UNCHANGED <<lifecycle, isDestroyed, pending, closing, dying, painted, deadline, gpuWaiting, th,
                 watch, switches, hides, faults>>

Switch ==
  /\ At("gpu", Home) /\ switches < MaxSwitches /\ switches' = switches + 1 /\ GoTo("gpu", "claim")
  /\ UNCHANGED <<atomics, window, dying, shows, gpuWaiting, watch, acts, hides, faults>>

-----------------------------------------------------------------------------
(* The runtime, the frontend and the clock.                                *)

\* The main thread releases the label of a destroyed window, or never gets to it.
Release ==
  /\ dying /\ At("main", Home)
  /\ window' = "none" /\ dying' = FALSE
  /\ UNCHANGED <<atomics, shows, gpuWaiting, th, watch, acts, switches, hides, faults>>

Paint ==
  /\ Exists /\ ~painted /\ painted' = TRUE
  /\ UNCHANGED <<atomics, window, dying, deadline, show, voided, gpuWaiting, th, watch, acts,
                 switches, hides, faults>>
Resume ==
  /\ Exists /\ show.required # 0 /\ show.required = show.id /\ show.ready # show.required
  /\ show' = [show EXCEPT !.ready = show.required] /\ painted' = TRUE
  /\ UNCHANGED <<atomics, window, dying, deadline, voided, gpuWaiting, th, watch, acts, switches,
                 hides, faults>>

\* The setting is at least five seconds: no thread stays between two steps for so long.
BecomesDue ==
  /\ hidden = "recent" /\ \A x \in Workers : th[x].at \in {Home, "tick", "age"}
  /\ hides < MaxHides /\ hidden' = "due" /\ hides' = hides + 1
  /\ UNCHANGED <<lifecycle, isDestroyed, pending, closing, window, dying, shows, gpuWaiting, th, watch,
                 acts, switches, faults>>
\* The budget is longer than the waits of a teardown.
BudgetEnds ==
  /\ closing = "recent" /\ closing' = "due"
  /\ \A x \in Workers : th[x].at \notin {"destroy", "finish"}
  /\ UNCHANGED <<lifecycle, isDestroyed, pending, hidden, window, dying, shows, gpuWaiting, th, watch,
                 acts, switches, hides, faults>>
DeadlinePasses ==
  /\ deadline = "armed" /\ deadline' = "past"
  /\ UNCHANGED <<atomics, window, dying, painted, show, voided, gpuWaiting, th, watch, acts,
                 switches, hides, faults>>

-----------------------------------------------------------------------------
Works(x) ==
  \/ Claim(x) \/ Destroy(x) \/ Recreate(x) \/ Label(x) \/ Build(x)
  \/ PublishWindow(x) \/ Begin(x) \/ Ready(x) \/ ShowNow(x) \/ \E exited \in BOOLEAN : Finish(x, exited)
Main == Ensure \/ ServeInPress \/ Refuse \/ Queue \/ Toggle
Watcher(r) == Poll(r) \/ Commit(r)
Clock == BudgetEnds \/ DeadlinePasses

WindowNext ==
  \/ Tick \/ Serve \/ Age \/ Leave \/ GiveUp \/ Press \/ Main \/ HideWindow \/ Switch
  \/ Release \/ Paint \/ Resume \/ BecomesDue \/ Clock
  \/ \E x \in Workers : Works(x) \/ Abort(x) \/ BuildFails(x)
  \/ \E r \in DOMAIN watch : Watcher(r)

Watchers == 1..(4 * (MaxActs + MaxSwitches + MaxHides + MaxFaults))
\* Threads are scheduled and time passes; the user, the frontend and the runtime do as they like.
Fairness ==
  /\ WF_windowVars(Tick) /\ WF_windowVars(Serve) /\ WF_windowVars(Age)
  /\ WF_windowVars(Leave) /\ WF_windowVars(GiveUp) /\ WF_windowVars(Main)
  /\ WF_windowVars(Clock) /\ \A x \in Workers : WF_windowVars(Works(x))
  /\ \A r \in Watchers : WF_windowVars(r \in DOMAIN watch /\ Watcher(r))
WindowSpec == WindowInit /\ [][WindowNext]_windowVars /\ Fairness

-----------------------------------------------------------------------------
\* A request that was waiting when the window was hidden, its show taken back by a toggle, the
\* window rebuilt or another request made stays void: no watcher puts the window on screen for
\* it, however late it polls or the main thread gets to it, and so the user's last word holds.
Shows(r) == /\ watch[r].at = "posted" /\ watch'[r].at = "over"
            /\ window # "visible" /\ window' = "visible"
SupersededStaysHidden == [][\A r \in DOMAIN watch : Shows(r) => r \notin voided]_windowVars

\* Opening is nobody's resting place: whoever took it builds, or is about to give it back.
NeverParked ==
  lifecycle = "opening" =>
    th["main"].at \in {"refuse", "undo"} \/ \E x \in Workers : th[x].at \in {"label", "build", "built"}

\* When nobody works on the window and its life has settled as closed, there is no window.
ClosedIsGone == (\A x \in DOMAIN th : At(x, Home)) /\ lifecycle = "closed" => ~Exists

\* "A window that is on screen is never torn down."
OnScreenIsKept == [][(At("ticker", "destroy") /\ dying' /\ ~dying) => window # "visible"]_windowVars

\* What was queued while the window was gone brings it back.
QueuedReturns == (pending /\ lifecycle = "closed" /\ ~Exists) ~> Exists
=============================================================================
