---------------------------- MODULE SurfacePanel ----------------------------
(***************************************************************************)
(* Quick Paste's panel (frontends/dzc-surface): the text being typed, the  *)
(* query it asks the Host for page by page, the rows of the last frame and *)
(* the row that is pasted.  One thread runs the panel; answers, timers and *)
(* the Host's news come as later calls on that thread, each with the       *)
(* ticket of the view that asked for it.                                   *)
(*                                                                         *)
(* A cancelled call may still be delivered: its ticket has to refuse it.   *)
(* input is the string the native field is bound to; an Enter pressed with *)
(* another text in the field is ignored.  An epoch that moves, a Host or a *)
(* window that fails hide the panel as a dismissal does.  Drawing, locales *)
(* and diagnostics are left out.                                           *)
(***************************************************************************)
EXTENDS Integers, SequencesExt

CONSTANTS
  Texts,        \* what may be typed; "" is one of them
  Finds(_, _),  \* Finds(e, text): the Host's search for text finds entry e
  First,        \* the history, newest first, at revision 1
  PageSize,     \* model.PageSize
  MaxEntries,   \* model.MaxVisibleEntries
  MaxTurns      \* bound on what the user, the desktop and other writers do

ASSUME PanelAssumption ==
  /\ "" \in Texts /\ First \in Seq(Nat)
  /\ {PageSize, MaxEntries} \subseteq Nat \ {0} /\ MaxTurns \in Nat

VARIABLES
  hist,     \* the Host: its history at each revision so far
  model,    \* model.Model
  input,    \* the native text input: Panel.search and whether it is composing
  frame,    \* Panel.viewRows, the values of the last frame, or NoFrame
  timer,    \* the ticket of Panel.debounce, or NoTicket
  calls,    \* queries under way, with the Host's answer once it is there
  news,     \* the revision the event loop has seen for this display, or 0
  online,   \* connectDisplay's loop runs for the display
  sent,     \* history: the last paste sent
  turns

panelVars == <<hist, model, input, frame, timer, calls, news, online, sent, turns>>

Revision == Len(hist)

\* What a search for text finds in a history, in its order: in the first n entries each.
FoundAmong(entries, text) ==
  LET among[n \in 0 .. Len(entries)] ==
        IF n = 0 THEN <<>>
        ELSE IF Finds(entries[n], text) THEN Append(among[n - 1], entries[n])
             ELSE among[n - 1]
  IN  among[Len(entries)]
Found(rev, text) == FoundAmong(hist[rev], text)

NoTicket == [display |-> 0, query |-> "", seq |-> 0, rev |-> 0, offset |-> 0]
NoFrame == [ticket |-> NoTicket, ready |-> FALSE, rows |-> <<>>]
Closed == [display |-> 0, visible |-> FALSE, rev |-> 0, raw |-> "", applied |-> "",
           seq |-> 0, entries |-> <<>>, selected |-> 1, more |-> FALSE,
           loading |-> FALSE, composing |-> FALSE, pending |-> FALSE, failed |-> FALSE]
NoPaste == [entry |-> 0, rev |-> 0, text |-> "", seen |-> <<>>]

PanelInit ==
  /\ hist = <<First>> /\ model = Closed
  /\ input = [text |-> "", composing |-> FALSE]
  /\ frame = NoFrame /\ timer = NoTicket /\ calls = {} /\ news = 0 /\ online = FALSE
  /\ sent = NoPaste /\ turns = 0

Turn == turns < MaxTurns /\ turns' = turns + 1

-----------------------------------------------------------------------------
(* model.Model and model.View.                                             *)

ClearResults(m) == [m EXCEPT !.entries = <<>>, !.more = FALSE, !.selected = 1, !.applied = ""]

Clear(m) == [Closed EXCEPT !.seq = m.seq + 1]

Ticket(m, offset) == [display |-> m.display, query |-> m.raw, seq |-> m.seq,
                      rev |-> m.rev, offset |-> offset]

Begin(m, offset) ==
  [(IF offset = 0 THEN ClearResults(m) ELSE m) EXCEPT
     !.seq = @ + 1, !.loading = TRUE, !.failed = FALSE]

Changed(m, text, composing) ==
  [ClearResults(m) EXCEPT !.seq = @ + 1, !.raw = text, !.composing = composing,
                          !.failed = FALSE, !.loading = TRUE]

Failed(m) == [ClearResults(m) EXCEPT !.seq = @ + 1, !.loading = FALSE, !.failed = TRUE]

\* Mutant: an answer belongs to the display it was asked for.
TicketOfDisplay(m, t) == m.visible /\ m.display = t.display

TicketCurrent(m, t) == /\ m.visible /\ m.display = t.display /\ m.seq = t.seq
                       /\ m.raw = t.query /\ m.rev = t.rev

\* Apply accepts a page that continues what is there and repeats nothing.
Acceptable(m, t, page) ==
  /\ t.offset = Len(m.entries)
  /\ \A i \in DOMAIN page.rows, j \in DOMAIN m.entries : page.rows[i] # m.entries[j]
  /\ Len(m.entries) + Len(page.rows) <= MaxEntries
Applied(m, t, page) ==
  [m EXCEPT !.entries = @ \o page.rows, !.applied = t.query, !.loading = FALSE,
            !.more = page.more /\ Len(m.entries) + Len(page.rows) < MaxEntries]

CanSelect(m) == /\ m.visible /\ ~m.loading /\ ~m.composing /\ m.raw = m.applied
                /\ ~m.pending /\ m.selected <= Len(m.entries)

CaptureView(m) == [ticket |-> Ticket(m, 0), ready |-> CanSelect(m), rows |-> m.entries]

\* SelectedID: the frame is still the model's, and shows the selected entry there.
Selectable ==
  /\ frame # NoFrame /\ TicketCurrent(model, frame.ticket) /\ frame.ready /\ CanSelect(model)
  /\ model.selected <= Len(frame.rows)
  /\ frame.rows[model.selected] = model.entries[model.selected]

-----------------------------------------------------------------------------
(* The panel.  Query, Schedule and HideLocal take the model they start     *)
(* from: they are what the steps below end with.                           *)

Query(m, offset) ==
  LET asked == Begin(m, offset) IN
  /\ model' = asked /\ frame' = NoFrame /\ timer' = NoTicket
  /\ calls' = calls \cup {[ticket |-> Ticket(asked, offset), answer |-> "none"]}

Debounce(m) ==
  LET asked == Begin(m, 0) IN
  /\ model' = asked /\ frame' = NoFrame /\ timer' = Ticket(asked, 0)
  /\ UNCHANGED calls

HideLocal ==
  /\ model' = Clear(model) /\ frame' = NoFrame /\ timer' = NoTicket
  /\ input' = [text |-> "", composing |-> FALSE]
  /\ online' = FALSE /\ news' = 0 /\ UNCHANGED calls

\* edit: nothing, or the results are dropped and a query is scheduled, unless a
\* word is being composed.
Edited(composing) ==
  LET edited == Changed(model, input.text, composing) IN
  IF composing THEN edited ELSE Begin(edited, 0)
\* Mutant: the timer's ticket is taken before the query is begun.
ScheduledEarly(composing) ==
  IF composing THEN NoTicket ELSE Ticket(Changed(model, input.text, composing), 0)
Scheduled(composing) == IF composing THEN NoTicket ELSE Ticket(Edited(composing), 0)
Unedited(composing) == model.raw = input.text /\ model.composing = composing

-----------------------------------------------------------------------------
(* The display: receive (Show, Hide, PasteResult) and connectDisplay.      *)

Show ==
  /\ Turn
  /\ model' = [Clear(model) EXCEPT !.display = turns + 1, !.visible = TRUE,
                                   !.rev = Revision, !.loading = TRUE]
  /\ frame' = NoFrame /\ timer' = NoTicket /\ news' = 0 /\ online' = FALSE
  /\ input' = [text |-> "", composing |-> FALSE]
  /\ UNCHANGED <<hist, calls, sent>>

\* The connection is there: with the state of the Show, or the display fails.
Connect ==
  /\ model.visible /\ ~online
  /\ IF Revision = model.rev
       THEN /\ online' = TRUE
            /\ Query(model, 0)
            /\ UNCHANGED <<input, news>>
       ELSE HideLocal
  /\ UNCHANGED <<hist, sent, turns>>

\* The event loop asks for the Host's state, every half a second.
Poll ==
  /\ online /\ news = 0 /\ Revision # model.rev
  /\ news' = Revision
  /\ UNCHANGED <<hist, model, input, frame, timer, calls, online, sent, turns>>

Outdated == news # model.rev

\* A new revision drops the results and asks again, at once or when the typing has
\* paused; a word being composed will ask when it is done.
Refresh ==
  LET moved == Begin([model EXCEPT !.rev = news], 0) IN
  /\ news # 0 /\ news' = 0
  /\ IF ~Outdated THEN UNCHANGED <<model, frame, timer, calls>>
     ELSE IF model.composing
       THEN /\ model' = moved /\ frame' = NoFrame /\ timer' = NoTicket /\ UNCHANGED calls
       ELSE Query(moved, 0) \/ Debounce(moved)
  /\ UNCHANGED <<hist, input, online, sent, turns>>

\* The user dismisses, a Hide arrives, an action times out, the Host is gone or says
\* that epoch or events were missed.
Dismiss == /\ model.visible /\ Turn /\ HideLocal /\ UNCHANGED <<hist, sent>>

\* The parent has pasted, or not.
PasteResult ==
  /\ model.visible /\ model.pending
  /\ \/ HideLocal
     \/ /\ model' = [model EXCEPT !.pending = FALSE, !.failed = TRUE]
        /\ frame' = NoFrame
        /\ UNCHANGED <<input, timer, calls, news, online>>
  /\ UNCHANGED <<hist, sent, turns>>

-----------------------------------------------------------------------------
(* Queries.                                                                *)

TimerFires ==
  /\ timer # NoTicket
  /\ IF TicketCurrent(model, timer) /\ ~model.composing
       THEN Query(model, 0)
       ELSE timer' = NoTicket /\ UNCHANGED <<model, frame, calls>>
  /\ UNCHANGED <<hist, input, news, online, sent, turns>>

\* surface_page: a page of the revision asked for, or a refusal.
Page(t) ==
  LET found == Found(t.rev, t.query)
      last == IF t.offset + PageSize < Len(found) THEN t.offset + PageSize ELSE Len(found) IN
  [rows |-> SubSeq(found, t.offset + 1, last), more |-> last < Len(found)]

HostAnswers(c) ==
  /\ c.answer = "none"
  /\ \/ c.ticket.rev = Revision /\ calls' = (calls \ {c}) \cup {[c EXCEPT !.answer = "page"]}
     \/ calls' = (calls \ {c}) \cup {[c EXCEPT !.answer = "error"]}
  /\ UNCHANGED <<hist, model, input, frame, timer, news, online, sent, turns>>

\* Every cancellation is followed by another number for the next query, so that the
\* ticket refuses what was cancelled.
Deliver(c) ==
  LET t == c.ticket
      page == Page(t) IN
  /\ c.answer # "none"
  /\ calls' = calls \ {c}
  /\ IF ~TicketCurrent(model, t)
       THEN UNCHANGED <<model, input, frame, timer, news, online>>
     ELSE IF c.answer = "error"
       THEN model' = Failed(model) /\ frame' = NoFrame /\ UNCHANGED <<input, timer, news, online>>
     ELSE IF Acceptable(model, t, page)
       THEN /\ model' = Applied(model, t, page) /\ frame' = NoFrame
            /\ UNCHANGED <<input, timer, news, online>>
     ELSE /\ model' = Clear(model) /\ frame' = NoFrame /\ timer' = NoTicket
          /\ input' = [text |-> "", composing |-> FALSE] /\ online' = FALSE /\ news' = 0
  /\ UNCHANGED <<hist, sent, turns>>

-----------------------------------------------------------------------------
(* The user and the frame.                                                 *)

\* The native input changes under the panel, which sees it in its next frame.
Type ==
  /\ online /\ Turn
  /\ \E text \in Texts, composing \in BOOLEAN :
       input' = [text |-> text, composing |-> composing]
  /\ UNCHANGED <<hist, model, frame, timer, calls, news, online, sent>>

\* view: the input is taken over, then the rows of the model are captured.
Render ==
  /\ model.visible
  /\ IF Unedited(input.composing)
       THEN frame' = CaptureView(model) /\ UNCHANGED <<model, timer, calls>>
       ELSE /\ model' = Edited(input.composing) /\ timer' = Scheduled(input.composing)
            /\ frame' = CaptureView(model')
            /\ UNCHANGED calls
  /\ UNCHANGED <<hist, input, news, online, sent, turns>>

\* The arrow keys move within the rows; a click of the list writes the index itself.
MoveSelection ==
  /\ Selectable
  /\ \E i \in DOMAIN model.entries :
       i \in {model.selected - 1, model.selected + 1} /\ model' = [model EXCEPT !.selected = i]
  /\ UNCHANGED <<hist, input, frame, timer, calls, news, online, sent, turns>>

Click ==
  /\ model.visible
  /\ \E i \in 1 .. MaxEntries : model' = [model EXCEPT !.selected = i]
  /\ UNCHANGED <<hist, input, frame, timer, calls, news, online, sent, turns>>

\* Mutant: the text of the last frame is trusted.
InputTrusted == TRUE
InputCurrent == input.text = model.raw

\* Enter: with the input the model knows, and on a row of the last frame.
Paste ==
  /\ model.visible /\ frame # NoFrame
  /\ IF ~InputCurrent
       THEN /\ model' = Edited(model.composing) /\ timer' = Scheduled(model.composing)
            /\ frame' = NoFrame
            /\ UNCHANGED <<calls, sent>>
       ELSE /\ Selectable
            /\ model' = [model EXCEPT !.pending = TRUE] /\ frame' = NoFrame
            /\ sent' = [entry |-> model.entries[model.selected], rev |-> model.rev,
                        text |-> input.text, seen |-> frame.rows]
            /\ UNCHANGED <<timer, calls>>
  /\ UNCHANGED <<hist, input, news, online, turns>>

More == /\ model.visible /\ model.more /\ ~model.loading /\ ~model.composing /\ Turn
        /\ Query(model, Len(model.entries))
        /\ UNCHANGED <<hist, input, news, online, sent>>

Retry == /\ model.visible /\ model.failed /\ ~model.composing /\ Turn
         /\ Query(model, 0)
         /\ UNCHANGED <<hist, input, news, online, sent>>

\* Another writer: a new entry, or one that is gone.
HistoryMoves ==
  /\ Turn
  /\ \/ hist' = Append(hist, <<100 + turns>> \o hist[Revision])
     \/ \E i \in DOMAIN hist[Revision] : hist' = Append(hist, RemoveAt(hist[Revision], i))
  /\ UNCHANGED <<model, input, frame, timer, calls, news, online, sent>>

PanelNext ==
  \/ Show \/ Connect \/ Poll \/ Refresh \/ Dismiss \/ PasteResult \/ TimerFires
  \/ \E c \in calls : HostAnswers(c) \/ Deliver(c)
  \/ Type \/ Render \/ MoveSelection \/ Click \/ Paste \/ More \/ Retry \/ HistoryMoves

\* The panel's thread and the Host go on; the user does nothing in particular.
PanelFairness ==
  /\ WF_panelVars(Connect) /\ WF_panelVars(Poll) /\ WF_panelVars(Refresh)
  /\ WF_panelVars(TimerFires) /\ WF_panelVars(Render)
  /\ WF_panelVars(\E c \in calls : HostAnswers(c)) /\ WF_panelVars(\E c \in calls : Deliver(c))

PanelSpec == PanelInit /\ [][PanelNext]_panelVars /\ PanelFairness

-----------------------------------------------------------------------------
\* However pages, edits and revisions overlap, the rows are the beginning of what one
\* query finds in one history: no page of another query or revision joins them.
RowsAreOfOneRead ==
  model.entries # <<>> => IsPrefix(model.entries, Found(model.rev, model.applied))

\* What is pasted was on the screen, is found by the text that is in the input, and is
\* sent with the revision it was read at.
PastesWhatIsSeen ==
  [][sent' # sent =>
       /\ \E i \in DOMAIN frame.rows : frame.rows[i] = sent'.entry
       /\ IsPrefix(frame.rows, Found(sent'.rev, input.text))]_panelVars

\* Loading ends: with rows, an error, another word being composed or a closed panel.
LoadingEnds ==
  (model.visible /\ model.loading) ~> (~model.visible \/ ~model.loading \/ input.composing)

=============================================================================
