--------------------------- MODULE HistoryVersion ---------------------------
(***************************************************************************)
(* The history_revision of one Host instance, and the answers that rest on *)
(* it.  HistoryVersion::observe (history_version.rs) folds the revision of *)
(* the database and that of the in-memory queue into one number; clients   *)
(* hand the number back with the next request, and surface_page and        *)
(* desktop_surface_copy (surface.rs) answer only if it still holds.        *)
(*                                                                         *)
(* The two revisions are read one after the other and folded under a third *)
(* lock, so another thread may fold a newer pair in between.  The router   *)
(* answers one request at a time (Host::requests); the watchers, which are *)
(* subscriptions and the capture thread, take snapshots beside it.         *)
(***************************************************************************)
EXTENDS Integers, FiniteSets

CONSTANTS
  Watchers,    \* threads that take snapshots without the request lock
  Holder,      \* the thread that holds it
  SafeLimit,   \* the largest revision a client may be given (2^53 - 1)
  MaxDatabase, \* bound: revisions of the database
  MaxQueue,    \* bound: revisions of the in-memory queue
  EpochBound,  \* bound: privacy epochs
  MaxReads,    \* bound: snapshots watchers take
  MaxRequests  \* bound: requests

ASSUME VersionAssumption ==
  /\ Holder \notin Watchers
  /\ SafeLimit \in Nat /\ MaxDatabase \in Nat /\ MaxQueue \in Nat
  /\ EpochBound \in Nat /\ MaxReads \in Nat /\ MaxRequests \in Nat

Readers == Watchers \cup {Holder}

VARIABLES
  world,    \* what is true now: database and queue revisions, privacy epoch
  lastPair, \* HistoryVersion::observed, a set of at most one pair
  revision, \* HistoryVersion::revision
  place,    \* where each thread is in its snapshot
  seen,     \* what each thread's snapshot has read
  stage,    \* where the router is in its request
  want,     \* the token the request named
  parts,    \* the worlds its answer was read from
  answer,   \* the last answer given
  issued,   \* history: the tokens clients were given, with what they stand for
  reads, requests

versionVars == <<world, lastPair, revision, place, seen, stage, want, parts, answer,
                 issued, reads, requests>>

World == [database : Nat, queue : Nat, epoch : Nat]
Pair(w) == <<w.database, w.queue>>
Nowhere == [database |-> 0, queue |-> 0, epoch |-> 0]

\* A token is the client's half of RuntimeState; stands is the world the
\* snapshot read.
Token == [revision : Nat, epoch : Nat]
Issue == [token : Token, stands : World]
NoToken == [revision |-> 0, epoch |-> 0]
NoAnswer == [kind |-> "none", token |-> NoToken, parts |-> {}]

PageStages == {"page first", "page permit", "page ram", "page rows",
               "page check", "page last"}
CopyStages == {"copy first", "copy permit", "copy payload", "copy second",
               "copy check", "copy write", "copy recheck", "copy last"}
Stages == {"idle", "health"} \cup PageStages \cup CopyStages
\* The stages in which the router is taking a snapshot
Snapping == {"health", "page first", "page last",
             "copy first", "copy second", "copy last"}

\* surface_page holds the queue's lock from before its first snapshot on.
RowsHeld == stage \in PageStages

VersionInit ==
  /\ world \in {[Nowhere EXCEPT !.database = d] : d \in 0 .. 1}
  /\ lastPair = {} /\ revision = 0
  /\ place = [t \in Readers |-> "rest"]
  /\ seen = [t \in Readers |-> Nowhere]
  /\ stage = "idle" /\ want = NoToken /\ parts = {}
  /\ answer = NoAnswer
  /\ issued = {}
  /\ reads = 0 /\ requests = 0

router == <<stage, want, parts, answer, requests>>
-----------------------------------------------------------------------------
\* The world.

Change(w) ==
  /\ world' = w
  /\ UNCHANGED <<lastPair, revision, place, seen, router, issued, reads>>

\* A transaction of any process: the triggers move the revision.
DatabaseWrite ==
  /\ world.database < MaxDatabase
  /\ Change([world EXCEPT !.database = @ + 1])

\* A session command or a policy change moves the epoch alone.
EpochMove ==
  /\ world.epoch < EpochBound
  /\ Change([world EXCEPT !.epoch = @ + 1])

\* The first mutable use of a guard moves the queue's revision, under its lock.
QueueEdit ==
  /\ ~RowsHeld /\ world.queue < MaxQueue
  /\ Change([world EXCEPT !.queue = @ + 1])

-----------------------------------------------------------------------------
\* One snapshot.

MoveOn(t, to) == place' = [place EXCEPT ![t] = to]
See(t, w) == seen' = [seen EXCEPT ![t] = w]

Idle == stage' = "idle" /\ want' = NoToken /\ parts' = {}

\* Host::snapshot, first look at the queue
ReadQueue(t) ==
  /\ ~RowsHeld
  /\ See(t, [seen[t] EXCEPT !.queue = world.queue])
  /\ MoveOn(t, "database")

\* A watcher begins; the router begins as its request says.
Watch(t) ==
  /\ t \in Watchers /\ place[t] = "rest" /\ reads < MaxReads
  /\ ReadQueue(t)
  /\ reads' = reads + 1
  /\ UNCHANGED <<world, lastPair, revision, router, issued>>

RouterSnapshot ==
  /\ place[Holder] = "rest" /\ stage \in Snapping \ PageStages
  /\ ReadQueue(Holder)
  /\ UNCHANGED <<world, lastPair, revision, router, issued, reads>>

\* runtime_snapshot: revision and epoch of one row.  With the queue's lock in
\* hand (snapshot_with_session) the queue is read once and for all.
ReadDatabase(t) ==
  /\ \/ place[t] = "database"
     \/ place[t] = "rest" /\ t = Holder /\ stage \in Snapping \cap PageStages
  /\ IF t = Holder /\ RowsHeld
     THEN See(t, world) /\ MoveOn(t, "observe")
     ELSE See(t, [world EXCEPT !.queue = seen[t].queue]) /\ MoveOn(t, "queue")
  /\ UNCHANGED <<world, lastPair, revision, router, issued, reads>>

\* Second look: a queue that moved makes the snapshot Busy.
ReadQueueAgain(t) ==
  /\ place[t] = "queue" /\ ~RowsHeld
  /\ IF world.queue = seen[t].queue
     THEN MoveOn(t, "observe") /\ UNCHANGED router
     ELSE /\ MoveOn(t, "rest")
          /\ IF t = Holder THEN Idle /\ UNCHANGED <<answer, requests>>
                           ELSE UNCHANGED router
  /\ UNCHANGED <<world, lastPair, revision, seen, issued, reads>>

\* Mutant: the queue's revision is not compared.
NextRevisionOfRows(p) ==
  IF lastPair = {} THEN p[1]
  ELSE IF \A o \in lastPair : o[1] = p[1] THEN revision
  ELSE IF revision + 1 > p[1] THEN revision + 1 ELSE p[1]

NextRevision(p) ==
  IF lastPair = {} THEN p[1]
  ELSE IF p \in lastPair THEN revision
  ELSE IF revision + 1 > p[1] THEN revision + 1 ELSE p[1]

\* HistoryVersion::observe: the revision is stored before the limit is tried,
\* the pair only after.
Fold(t) ==
  LET p == Pair(seen[t]) IN
  /\ revision' = NextRevision(p)
  /\ lastPair' = IF revision' > SafeLimit THEN lastPair ELSE {p}
  /\ MoveOn(t, "rest")

\* What the fold gives the client, if it gives anything
Given(t) ==
  IF revision' > SafeLimit THEN {}
  ELSE {[token  |-> [revision |-> revision', epoch |-> seen[t].epoch],
         stands |-> seen[t]]}

WatcherFold(t) ==
  /\ t \in Watchers /\ place[t] = "observe"
  /\ Fold(t)
  /\ issued' = issued \cup Given(t)
  /\ UNCHANGED <<world, seen, router, reads>>

-----------------------------------------------------------------------------
\* The router's requests.

AskFor(first, token) ==
  /\ stage = "idle" /\ requests < MaxRequests
  /\ stage' = first /\ want' = token /\ parts' = {}
  /\ requests' = requests + 1
  /\ UNCHANGED <<world, lastPair, revision, place, seen, answer, issued, reads>>

AskHealth == AskFor("health", NoToken)

\* A client asks with a token it was given.  A page asks for the queue's lock,
\* which nobody keeps between two steps of this model.
AskPage == \E i \in issued : AskFor("page first", i.token)
AskCopy == \E i \in issued : AskFor("copy first", i.token)

AfterSnapshot(s) ==
  CASE s = "page first" -> "page permit"
    [] s = "copy first" -> "copy permit"
    [] s = "copy second" -> "copy check"

Answer(kind) == answer' = [kind |-> kind, token |-> want, parts |-> parts]

\* Mutant: the state read at the end is reported and not compared.
StateIgnored(got) == stage \notin {"page last", "copy last"} => \E i \in got : i.token = want

\* check_state, selected_state
StateUnchanged(got) == \E i \in got : i.token = want

\* The router's snapshot comes back and is compared with the request's token.
RouterFold ==
  LET got == Given(Holder) IN
  /\ place[Holder] = "observe"
  /\ Fold(Holder)
  /\ CASE stage = "health" -> Idle /\ UNCHANGED answer /\ issued' = issued \cup got
       [] stage # "health" /\ ~StateUnchanged(got) ->
            Idle /\ UNCHANGED <<answer, issued>>
       [] stage = "page last" /\ StateUnchanged(got) ->
            Idle /\ Answer("page") /\ issued' = issued \cup got
       [] stage = "copy last" /\ StateUnchanged(got) ->
            Idle /\ Answer("copied") /\ UNCHANGED issued
       [] OTHER -> /\ stage' = AfterSnapshot(stage)
                   /\ UNCHANGED <<want, parts, answer, issued>>
  /\ UNCHANGED <<world, seen, requests, reads>>

Proceed(from, to) ==
  /\ stage = from
  /\ stage' = to
  /\ UNCHANGED <<world, lastPair, revision, place, seen, want, answer, issued,
                 reads, requests>>

\* authorize_read with the expected epoch, and check_read: one look at the row
Checked(from, to) ==
  \/ world.epoch = want.epoch /\ Proceed(from, to) /\ UNCHANGED parts
  \/ /\ world.epoch # want.epoch /\ stage = from
     /\ Idle
     /\ UNCHANGED <<world, lastPair, revision, place, seen, answer, issued, reads,
                    requests>>

\* One read of rows
Gather(from, to) == Proceed(from, to) /\ parts' = parts \cup {world}

PagePermit == Checked("page permit", "page ram")
PageRam    == Gather("page ram", "page rows")
PageRows   == Gather("page rows", "page check")
PageCheck  == Checked("page check", "page last")

CopyPermit  == Checked("copy permit", "copy payload")
CopyPayload == Gather("copy payload", "copy second")
CopyCheck   == Checked("copy check", "copy write")
CopyWrite   == Proceed("copy write", "copy recheck") /\ UNCHANGED parts
CopyRecheck == Checked("copy recheck", "copy last")

\* A store that cannot be read, a row that is gone, a writer that fails
Refuse ==
  /\ stage \in (PageStages \cup CopyStages) \ Snapping
  /\ Idle
  /\ UNCHANGED <<world, lastPair, revision, place, seen, answer, issued, reads, requests>>

RouterStep ==
  \/ AskHealth \/ AskPage \/ AskCopy
  \/ RouterSnapshot \/ RouterFold
  \/ PagePermit \/ PageRam \/ PageRows \/ PageCheck
  \/ CopyPermit \/ CopyPayload \/ CopyCheck \/ CopyWrite \/ CopyRecheck
  \/ Refuse

VersionNext ==
  \/ DatabaseWrite \/ EpochMove \/ QueueEdit
  \/ RouterStep
  \/ \E t \in Watchers : Watch(t) \/ WatcherFold(t)
  \/ \E t \in Readers : ReadDatabase(t) \/ ReadQueueAgain(t)

VersionSpec == VersionInit /\ [][VersionNext]_versionVars
-----------------------------------------------------------------------------
\* Types.  No client is given a revision beyond the safe integers
\* (HistoryVersion::observe).
VersionTypeOK ==
  /\ world \in World
  /\ lastPair \subseteq Nat \X Nat /\ revision \in Nat
  /\ place \in [Readers -> {"rest", "database", "queue", "observe"}]
  /\ seen \in [Readers -> World]
  /\ stage \in Stages /\ want \in Token /\ parts \subseteq World
  /\ answer \in [kind : {"none", "page", "copied"}, token : Token,
                 parts : SUBSET World]
  /\ issued \subseteq Issue
  /\ \A i \in issued : i.token.revision <= SafeLimit
  /\ reads \in Nat /\ requests \in Nat

\* One revision stands for one state of the history: two snapshots with the
\* same revision read the same database and the same queue, whatever was
\* folded between them (HistoryVersion::observe).
TokenNamesOneHistory ==
  \A i, j \in issued :
    i.token.revision = j.token.revision => Pair(i.stands) = Pair(j.stands)

\* Everything in a page, and the payload of a copy, was read from the very
\* history and privacy epoch the client's token stands for, though the reads
\* are transactions of their own (surface_page, desktop_surface_copy).
AnswerIsOfItsToken ==
  \A i \in issued : i.token = answer.token =>
    \A p \in answer.parts : p = i.stands
=============================================================================
