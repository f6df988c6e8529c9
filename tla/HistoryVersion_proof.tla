------------------------ MODULE HistoryVersion_proof ------------------------
(***************************************************************************)
(* For any number of watchers and any limit, a revision names one history  *)
(* and an answer is of the history its token names.                        *)
(*                                                                         *)
(* Neither property is inductive.  Naming says why a revision is not given *)
(* twice: those given out are at most HistoryVersion's, and one equal to   *)
(* it was given for the pair it still remembers.  Past and Asked order the *)
(* worlds of a request: what its token stands for is no later than any of  *)
(* its parts, and a part no later than what its last snapshot reads.  When *)
(* that snapshot is folded into the same token the two ends meet.          *)
(***************************************************************************)
EXTENDS HistoryVersion, TLAPS

\* No counter of v is ahead of w's.
Leq(v, w) ==
  v.database <= w.database /\ v.queue <= w.queue /\ v.epoch <= w.epoch

\* Revisions given out, against what HistoryVersion remembers
Naming ==
  /\ \A o, p \in lastPair : o = p
  /\ lastPair = {} => issued = {}
  /\ \A i \in issued :
       /\ i.token.revision <= revision
       /\ i.token.revision = revision => Pair(i.stands) \in lastPair
       /\ i.token.epoch = i.stands.epoch
  /\ TokenNamesOneHistory

\* Whatever was read is not ahead of the world.
Past ==
  /\ \A i \in issued : Leq(i.stands, world)
  /\ \A p \in parts : Leq(p, world)
  /\ \A t \in Readers :
       /\ place[t] # "rest" => seen[t].queue <= world.queue
       /\ place[t] \in {"queue", "observe"} => Leq(seen[t], world)

\* The request in progress
Asked ==
  /\ stage \in {"idle", "health"} => parts = {}
  /\ place[Holder] # "rest" =>
       /\ stage \in Snapping
       /\ \A p \in parts : p.queue <= seen[Holder].queue
  /\ place[Holder] \in {"queue", "observe"} => \A p \in parts : Leq(p, seen[Holder])
  /\ stage \notin {"idle", "health"} =>
       \E i \in issued : i.token = want /\ \A p \in parts : Leq(i.stands, p)

\* The last answer
Answered ==
  answer.parts # {} =>
    \E i \in issued : i.token = answer.token /\ \A p \in answer.parts : p = i.stands

IInv == VersionTypeOK /\ Naming /\ Past /\ Asked /\ Answered

-----------------------------------------------------------------------------
\* The order of worlds.

LEMMA LeqSame == ASSUME NEW v \in World PROVE Leq(v, v)
  BY DEF World, Leq

LEMMA LeqThen ==
  ASSUME NEW u \in World, NEW v \in World, NEW w \in World, Leq(u, v), Leq(v, w)
  PROVE  Leq(u, w)
  BY DEF World, Leq

LEMMA LeqBoth ==
  ASSUME NEW v \in World, NEW w \in World, Leq(v, w), Leq(w, v)
  PROVE  v = w
<1>1. /\ v = [database |-> v.database, queue |-> v.queue, epoch |-> v.epoch]
      /\ w = [database |-> w.database, queue |-> w.queue, epoch |-> w.epoch]
  BY DEF World
<1>2. v.database = w.database /\ v.queue = w.queue /\ v.epoch = w.epoch
  BY DEF World, Leq
<1> QED BY <1>1, <1>2

LEMMA IssueParts ==
  ASSUME NEW i \in Issue
  PROVE  /\ i.token \in Token /\ i.stands \in World
         /\ i.token.revision \in Nat /\ i.token.epoch \in Nat
         /\ i.stands.database \in Nat /\ i.stands.queue \in Nat /\ i.stands.epoch \in Nat
<1>1. i.token \in Token /\ i.stands \in World
  BY Zenon DEF Issue
<1> QED BY <1>1 DEF Token, World

LEMMA SeenIsWorld ==
  ASSUME VersionTypeOK, NEW t \in Readers
  PROVE  /\ seen[t] \in World /\ world \in World
         /\ Pair(seen[t]) \in Nat \X Nat
<1>1. seen[t] \in World /\ world \in World
  BY DEF VersionTypeOK
<1> QED BY <1>1 DEF World, Pair

\* The router takes snapshots like any thread.
LEMMA HolderIsReader == Holder \in Readers
  BY DEF Readers

-----------------------------------------------------------------------------
\* What a fold does, whoever folds.

\* What it gives is an Issue whose token stands for what was read.
LEMMA FoldTypes ==
  ASSUME VersionTypeOK, NEW t \in Readers, Fold(t)
  PROVE  /\ revision' \in Nat
         /\ lastPair' \subseteq Nat \X Nat
         /\ place' \in [Readers -> {"rest", "database", "queue", "observe"}]
         /\ Given(t) \subseteq Issue
         /\ \A g \in Given(t) :
              /\ g.token.revision = revision' /\ revision' <= SafeLimit
              /\ g.token.epoch = seen[t].epoch
              /\ g.stands = seen[t]
<1> DEFINE p == Pair(seen[t])
<1>1. seen[t] \in World /\ p \in Nat \X Nat /\ p[1] \in Nat
  BY SeenIsWorld
<1>2. revision \in Nat /\ lastPair \subseteq Nat \X Nat
      /\ place \in [Readers -> {"rest", "database", "queue", "observe"}]
  BY DEF VersionTypeOK
<1>3. /\ revision' = NextRevision(p)
      /\ lastPair' = IF revision' > SafeLimit THEN lastPair ELSE {p}
      /\ place' = [place EXCEPT ![t] = "rest"]
  BY Zenon DEF Fold, MoveOn
<1> HIDE DEF p
<1>4. revision' \in Nat
  BY <1>1, <1>2, <1>3 DEF NextRevision
<1>5. lastPair' \subseteq Nat \X Nat
  BY <1>1, <1>2, <1>3
<1>6. place' \in [Readers -> {"rest", "database", "queue", "observe"}]
  BY <1>2, <1>3
<1>7. ASSUME NEW g \in Given(t)
      PROVE  /\ g \in Issue
             /\ g.token.revision = revision' /\ revision' <= SafeLimit
             /\ g.token.epoch = seen[t].epoch
             /\ g.stands = seen[t]
  <2> DEFINE tk == [revision |-> revision', epoch |-> seen[t].epoch]
  <2>1. ~(revision' > SafeLimit) /\ g = [token |-> tk, stands |-> seen[t]]
    BY <1>7, Zenon DEF Given
  <2>2. tk \in Token /\ tk.revision = revision' /\ tk.epoch = seen[t].epoch
    BY <1>1, <1>4 DEF Token, World
  <2>3. revision' <= SafeLimit
    BY <2>1, <1>4, VersionAssumption
  <2> HIDE DEF tk
  <2>4. g.token = tk /\ g.stands = seen[t]
    BY <2>1, Zenon
  <2>5. g \in Issue
    BY <2>1, <2>2, <1>1, Zenon DEF Issue
  <2> QED BY <2>2, <2>3, <2>4, <2>5, Zenon
<1> QED BY <1>4, <1>5, <1>6, <1>7, Zenon

\* A fold never gives a revision that already stands for another pair.
LEMMA FoldNames ==
  ASSUME VersionTypeOK, Naming, NEW t \in Readers, Fold(t), NEW g \in Given(t)
  PROVE  /\ \A i \in issued :
              i.token.revision = g.token.revision => Pair(i.stands) = Pair(g.stands)
         /\ lastPair' = {Pair(g.stands)}
<1> DEFINE p == Pair(seen[t])
<1>1. g.token.revision = revision' /\ revision' <= SafeLimit /\ revision' \in Nat
      /\ g.stands = seen[t]
  BY FoldTypes
<1>2. /\ revision' = NextRevision(p)
      /\ lastPair' = IF revision' > SafeLimit THEN lastPair ELSE {p}
  BY Zenon DEF Fold
<1>3. lastPair' = {p}
  BY <1>1, <1>2, VersionAssumption
<1>4. ASSUME NEW i \in issued, i.token.revision = revision'
      PROVE  Pair(i.stands) = p
  <2>1. lastPair # {} /\ i.token.revision <= revision /\ i.token.revision \in Nat
        /\ (i.token.revision = revision => Pair(i.stands) \in lastPair)
        /\ \A o, q \in lastPair : o = q
    <3>1. i \in Issue
      BY DEF VersionTypeOK
    <3> QED BY <1>4, <3>1, IssueParts, Zenon DEF Naming
  <2>2. CASE p \in lastPair
    <3>1. revision' = revision
      BY <1>2, <2>1, <2>2 DEF NextRevision
    <3> QED BY <1>4, <2>1, <2>2, <3>1
  <2>3. CASE p \notin lastPair
    <3>1. revision \in Nat /\ p[1] \in Nat
      BY SeenIsWorld DEF VersionTypeOK
    <3> HIDE DEF p
    <3>2. revision' >= revision + 1
      BY <1>2, <2>1, <2>3, <3>1 DEF NextRevision
    <3> QED BY <1>4, <2>1, <3>1, <3>2
  <2> QED BY <2>2, <2>3
<1> QED BY <1>1, <1>3, <1>4, Zenon

\* Naming survives a fold that gives what it folded, or nothing of it.
LEMMA FoldKeepsNaming ==
  ASSUME VersionTypeOK, Naming, NEW t \in Readers, Fold(t),
         issued' = issued \/ issued' = issued \cup Given(t)
  PROVE  Naming'
<1> DEFINE p == Pair(seen[t])
<1>1. /\ revision' \in Nat /\ revision \in Nat /\ p[1] \in Nat
      /\ \A g \in Given(t) : /\ g \in Issue
                             /\ g.token.revision = revision' /\ revision' <= SafeLimit
                             /\ g.token.epoch = seen[t].epoch
                             /\ g.stands = seen[t]
  BY FoldTypes, SeenIsWorld DEF VersionTypeOK
<1>2. /\ revision' = NextRevision(p)
      /\ lastPair' = IF revision' > SafeLimit THEN lastPair ELSE {p}
  BY Zenon DEF Fold
<1>3. \A i \in issued : /\ i \in Issue /\ i.token.revision \in Nat
                        /\ i.token.revision <= SafeLimit
                        /\ i.token.revision <= revision
                        /\ i.token.revision = revision => Pair(i.stands) \in lastPair
                        /\ i.token.epoch = i.stands.epoch
  BY IssueParts, Zenon DEF VersionTypeOK, Naming
<1>4. /\ \A o, q \in lastPair : o = q
      /\ lastPair = {} => issued = {}
      /\ TokenNamesOneHistory
  BY Zenon DEF Naming
<1> HIDE DEF p
<1>5. \A o, q \in lastPair' : o = q
  BY <1>2, <1>4
<1>6. lastPair' = {} => issued' = {}
  <2> SUFFICES ASSUME lastPair' = {} PROVE issued' = {}
    OBVIOUS
  <2>1. revision' > SafeLimit /\ lastPair = {}
    BY <1>2
  <2>2. Given(t) = {}
    BY <2>1, <1>1, VersionAssumption
  <2> QED BY <2>1, <2>2, <1>4
<1>7. \A i \in issued : /\ i.token.revision <= revision'
                        /\ i.token.revision = revision' => Pair(i.stands) \in lastPair'
  <2> SUFFICES ASSUME NEW i \in issued
               PROVE  /\ i.token.revision <= revision'
                      /\ i.token.revision = revision' => Pair(i.stands) \in lastPair'
    OBVIOUS
  <2>1. lastPair # {} /\ i.token.revision \in Nat /\ i.token.revision <= SafeLimit
        /\ i.token.revision <= revision
        /\ (i.token.revision = revision => Pair(i.stands) \in lastPair)
    BY <1>3, <1>4
  <2>2. CASE p \in lastPair
    <3>1. revision' = revision
      BY <1>2, <2>1, <2>2 DEF NextRevision
    <3>2. lastPair' = lastPair \/ lastPair' = {p}
      BY <1>2
    <3>3. lastPair = {p}
      BY <1>4, <2>2
    <3> QED BY <2>1, <3>1, <3>2, <3>3
  <2>3. CASE p \notin lastPair
    <3>1. revision' >= revision + 1
      BY <1>1, <1>2, <2>1, <2>3 DEF NextRevision
    <3> QED BY <1>1, <2>1, <3>1
  <2> QED BY <2>2, <2>3
<1>8. ASSUME NEW g \in Given(t)
      PROVE  /\ g.token.revision <= revision'
             /\ g.token.revision = revision' => Pair(g.stands) \in lastPair'
             /\ g.token.epoch = g.stands.epoch
             /\ \A i \in issued :
                  i.token.revision = g.token.revision => Pair(i.stands) = Pair(g.stands)
             /\ \A h \in Given(t) : h.stands = g.stands
  BY <1>1, <1>8, FoldNames
<1>9. \A i \in issued' : /\ i.token.revision <= revision'
                         /\ i.token.revision = revision' => Pair(i.stands) \in lastPair'
                         /\ i.token.epoch = i.stands.epoch
  BY <1>3, <1>7, <1>8
<1>10. TokenNamesOneHistory'
  <2> SUFFICES ASSUME NEW i \in issued', NEW j \in issued',
                      i.token.revision = j.token.revision
               PROVE  Pair(i.stands) = Pair(j.stands)
    BY DEF TokenNamesOneHistory, Pair
  <2>1. CASE i \in issued /\ j \in issued
    BY <2>1, <1>4, Zenon DEF TokenNamesOneHistory
  <2>2. CASE i \in Given(t) /\ j \in issued
    BY <2>2, <1>8, Zenon
  <2>3. CASE i \in issued /\ j \in Given(t)
    BY <2>3, <1>8, Zenon
  <2>4. CASE i \in Given(t) /\ j \in Given(t)
    BY <2>4, <1>8, Zenon
  <2> QED BY <2>1, <2>2, <2>3, <2>4
<1> QED BY <1>5, <1>6, <1>9, <1>10 DEF Naming, Pair

-----------------------------------------------------------------------------
\* The actions, by what they touch.

\* A step that takes no part in versions leaves Naming alone.
LEMMA NamingUntouched ==
  ASSUME Naming, UNCHANGED <<lastPair, revision, issued>>
  PROVE  Naming'
  BY DEF Naming, TokenNamesOneHistory, Pair

\* Every answer stands as long as no other is given.
LEMMA AnsweredUntouched ==
  ASSUME Answered, issued \subseteq issued', UNCHANGED answer
  PROVE  Answered'
<1> SUFFICES ASSUME answer.parts # {}
             PROVE  \E i \in issued' : i.token = answer.token /\ \A p \in answer.parts : p = i.stands
  BY DEF Answered
<1>1. PICK i \in issued : i.token = answer.token /\ \A p \in answer.parts : p = i.stands
  BY DEF Answered
<1> QED BY <1>1

\* The world only grows.
LEMMA ChangeKeeps ==
  ASSUME IInv, NEW w \in World, Leq(world, w), Change(w)
  PROVE  IInv'
<1>1. /\ world' = w
      /\ UNCHANGED <<lastPair, revision, place, seen, stage, want, parts, answer,
                     requests, issued, reads>>
  BY Zenon DEF Change, router
<1>2. VersionTypeOK'
  BY <1>1 DEF IInv, VersionTypeOK
<1>3. Naming' /\ Answered' /\ Asked'
  <2>1. Naming' /\ Answered'
    BY <1>1, NamingUntouched, AnsweredUntouched DEF IInv
  <2>2. Asked'
    BY <1>1 DEF IInv, Asked, Leq
  <2> QED BY <2>1, <2>2
<1>4. Past'
  <2>1. world \in World /\ parts \subseteq World /\ seen \in [Readers -> World]
        /\ \A i \in issued : i.stands \in World
    BY IssueParts DEF IInv, VersionTypeOK
  <2>2. \A i \in issued : Leq(i.stands, w)
    BY <2>1, LeqThen DEF IInv, Past
  <2>3. \A p \in parts : Leq(p, w)
    BY <2>1, LeqThen DEF IInv, Past
  <2>4. \A t \in Readers : /\ place[t] # "rest" => seen[t].queue <= w.queue
                           /\ place[t] \in {"queue", "observe"} => Leq(seen[t], w)
    <3> SUFFICES ASSUME NEW t \in Readers
                 PROVE  /\ place[t] # "rest" => seen[t].queue <= w.queue
                        /\ place[t] \in {"queue", "observe"} => Leq(seen[t], w)
      OBVIOUS
    <3>1. seen[t] \in World
      BY <2>1
    <3>2. place[t] # "rest" => seen[t].queue <= w.queue
      BY <2>1, <3>1 DEF IInv, Past, Leq, World
    <3>3. place[t] \in {"queue", "observe"} => Leq(seen[t], w)
      BY <2>1, <3>1, LeqThen DEF IInv, Past
    <3> QED BY <3>2, <3>3
  <2> QED BY <1>1, <2>2, <2>3, <2>4 DEF Past, Leq
<1> QED BY <1>2, <1>3, <1>4 DEF IInv

\* A thread reads the queue and goes on to the database.
LEMMA ReadQueueKeeps ==
  ASSUME IInv, NEW t \in Readers, ReadQueue(t), place[t] = "rest",
         t = Holder => stage \in Snapping,
         UNCHANGED <<world, lastPair, revision, stage, want, parts, answer, issued>>,
         reads' \in Nat, requests' \in Nat
  PROVE  IInv'
<1> DEFINE s == [seen[t] EXCEPT !.queue = world.queue]
<1>1. /\ place' = [place EXCEPT ![t] = "database"]
      /\ seen' = [seen EXCEPT ![t] = s]
  BY Zenon DEF ReadQueue, MoveOn, See
<1>2. s \in World /\ s.queue = world.queue
  BY SeenIsWorld DEF IInv, World
<1> HIDE DEF s
<1>3. /\ place \in [Readers -> {"rest", "database", "queue", "observe"}]
      /\ seen \in [Readers -> World]
  BY Zenon DEF IInv, VersionTypeOK
<1>4. place'[t] = "database" /\ seen'[t] = s
      /\ \A u \in Readers : u # t => place'[u] = place[u] /\ seen'[u] = seen[u]
  BY <1>1, <1>3
<1>5. VersionTypeOK'
  <2>1. /\ place' \in [Readers -> {"rest", "database", "queue", "observe"}]
        /\ seen' \in [Readers -> World]
    BY <1>1, <1>2, <1>3
  <2> QED BY <2>1 DEF IInv, VersionTypeOK
<1>6. Naming' /\ Answered'
  BY NamingUntouched, AnsweredUntouched DEF IInv
<1>7. Past'
  <2>1. \A u \in Readers : /\ place'[u] # "rest" => seen'[u].queue <= world.queue
                           /\ place'[u] \in {"queue", "observe"} => Leq(seen'[u], world)
    <3> SUFFICES ASSUME NEW u \in Readers
                 PROVE  /\ place'[u] # "rest" => seen'[u].queue <= world.queue
                        /\ place'[u] \in {"queue", "observe"} => Leq(seen'[u], world)
      OBVIOUS
    <3>1. CASE u = t
      BY <3>1, <1>2, <1>4, SeenIsWorld DEF IInv, World
    <3>2. CASE u # t
      BY <3>2, <1>4 DEF IInv, Past
    <3> QED BY <3>1, <3>2
  <2> QED BY <2>1 DEF IInv, Past, Leq
<1>8. Asked'
  <2>1. CASE t = Holder
    <3>1. \A p \in parts : p.queue <= s.queue
      BY <1>2 DEF IInv, Past, Leq
    <3> QED BY <2>1, <1>4, <3>1 DEF IInv, Asked, Leq
  <2>2. CASE t # Holder
    <3>1. place'[Holder] = place[Holder] /\ seen'[Holder] = seen[Holder]
      BY <2>2, <1>4, HolderIsReader
    <3> QED BY <3>1 DEF IInv, Asked, Leq
  <2> QED BY <2>1, <2>2
<1> QED BY <1>5, <1>6, <1>7, <1>8 DEF IInv

\* A thread reads the row.
LEMMA ReadDatabaseKeeps ==
  ASSUME IInv, NEW t \in Readers, ReadDatabase(t)
  PROVE  IInv'
<1> USE DEF IInv
<1>1. /\ UNCHANGED <<world, lastPair, revision, stage, want, parts, answer,
                     requests, issued, reads>>
      /\ \/ place[t] = "database"
         \/ place[t] = "rest" /\ t = Holder /\ stage \in Snapping \cap PageStages
  BY Zenon DEF ReadDatabase, router
<1>2. world \in World /\ seen[t] \in World
  BY SeenIsWorld
<1>3. PICK s \in World, to \in {"queue", "observe"} :
        /\ seen' = [seen EXCEPT ![t] = s]
        /\ place' = [place EXCEPT ![t] = to]
        /\ s = world \/ (place[t] = "database" /\ s = [world EXCEPT !.queue = seen[t].queue])
  <2>1. CASE t = Holder /\ RowsHeld
    BY <2>1, <1>2, Zenon DEF ReadDatabase, See, MoveOn
  <2>2. CASE ~(t = Holder /\ RowsHeld)
    <3>1. place[t] = "database"
      BY <2>2, <1>1 DEF RowsHeld
    <3>2. [world EXCEPT !.queue = seen[t].queue] \in World
      BY <1>2 DEF World
    <3> QED BY <2>2, <3>1, <3>2, Zenon DEF ReadDatabase, See, MoveOn
  <2> QED BY <2>1, <2>2
<1>4. Leq(s, world) /\ s.database = world.database /\ s.epoch = world.epoch
      /\ (s.queue = world.queue \/ (place[t] = "database" /\ s.queue = seen[t].queue))
  <2>1. CASE s = world
    BY <2>1, <1>2, LeqSame
  <2>2. CASE place[t] = "database" /\ s = [world EXCEPT !.queue = seen[t].queue]
    <3>1. seen[t].queue <= world.queue
      BY <2>2 DEF Past
    <3> QED BY <2>2, <3>1, <1>2 DEF World, Leq
  <2> QED BY <1>3, <2>1, <2>2
<1>5. /\ place \in [Readers -> {"rest", "database", "queue", "observe"}]
      /\ seen \in [Readers -> World]
  BY Zenon DEF VersionTypeOK
<1>6. place'[t] = to /\ seen'[t] = s
      /\ \A u \in Readers : u # t => place'[u] = place[u] /\ seen'[u] = seen[u]
  BY <1>3, <1>5
<1>7. VersionTypeOK'
  <2>1. /\ place' \in [Readers -> {"rest", "database", "queue", "observe"}]
        /\ seen' \in [Readers -> World]
    BY <1>3, <1>5
  <2> QED BY <1>1, <2>1 DEF VersionTypeOK
<1>8. Naming' /\ Answered'
  BY <1>1, NamingUntouched, AnsweredUntouched
<1>9. Past'
  <2>1. \A u \in Readers : /\ place'[u] # "rest" => seen'[u].queue <= world.queue
                           /\ place'[u] \in {"queue", "observe"} => Leq(seen'[u], world)
    <3> SUFFICES ASSUME NEW u \in Readers
                 PROVE  /\ place'[u] # "rest" => seen'[u].queue <= world.queue
                        /\ place'[u] \in {"queue", "observe"} => Leq(seen'[u], world)
      OBVIOUS
    <3>1. CASE u = t
      BY <3>1, <1>4, <1>6 DEF Leq
    <3>2. CASE u # t
      BY <3>2, <1>6 DEF Past
    <3> QED BY <3>1, <3>2
  <2> QED BY <1>1, <2>1 DEF Past, Leq
<1>10. Asked'
  <2>1. CASE t = Holder
    <3>1. stage \in Snapping
      BY <2>1, <1>1 DEF Asked
    <3>2. \A p \in parts : Leq(p, s)
      BY <2>1, <1>4 DEF Past, Asked, Leq
    <3> QED BY <2>1, <1>1, <1>6, <3>1, <3>2 DEF Asked, Leq
  <2>2. CASE t # Holder
    <3>1. place'[Holder] = place[Holder] /\ seen'[Holder] = seen[Holder]
      BY <2>2, <1>6, HolderIsReader
    <3> QED BY <1>1, <3>1 DEF Asked, Leq
  <2> QED BY <2>1, <2>2
<1> QED BY <1>7, <1>8, <1>9, <1>10

\* The queue moved or it did not.
LEMMA ReadQueueAgainKeeps ==
  ASSUME IInv, NEW t \in Readers, ReadQueueAgain(t)
  PROVE  IInv'
<1> USE DEF IInv
<1>1. /\ UNCHANGED <<world, lastPair, revision, seen, answer, requests, issued, reads>>
      /\ place[t] = "queue"
  BY Zenon DEF ReadQueueAgain, router
<1>2. PICK to \in {"rest", "observe"} :
        /\ place' = [place EXCEPT ![t] = to]
        /\ \/ UNCHANGED <<stage, want, parts>>
           \/ (t = Holder /\ to = "rest" /\ Idle)
  BY Zenon DEF ReadQueueAgain, MoveOn, router
<1>3. place \in [Readers -> {"rest", "database", "queue", "observe"}]
  BY Zenon DEF VersionTypeOK
<1>4. place'[t] = to /\ \A u \in Readers : u # t => place'[u] = place[u]
  BY <1>2, <1>3
<1>5. VersionTypeOK'
  <2>1. place' \in [Readers -> {"rest", "database", "queue", "observe"}]
    BY <1>2, <1>3
  <2>2. stage' \in Stages /\ want' \in Token /\ parts' \subseteq World
    BY <1>2 DEF VersionTypeOK, Idle, Stages, Token, NoToken
  <2> QED BY <1>1, <2>1, <2>2 DEF VersionTypeOK
<1>6. Naming' /\ Answered'
  BY <1>1, NamingUntouched, AnsweredUntouched
<1>7. Past'
  <2>1. parts' \subseteq parts
    BY <1>2 DEF Idle
  <2>2. \A u \in Readers : /\ place'[u] # "rest" => seen[u].queue <= world.queue
                           /\ place'[u] \in {"queue", "observe"} => Leq(seen[u], world)
    BY <1>1, <1>4 DEF Past
  <2> QED BY <1>1, <2>1, <2>2 DEF Past, Leq
<1>8. Asked'
  <2>1. CASE t = Holder /\ to = "rest" /\ Idle
    BY <2>1, <1>4 DEF Asked, Idle
  <2>2. CASE UNCHANGED <<stage, want, parts>>
    <3>1. place'[Holder] # "rest" => place[Holder] # "rest"
      BY <1>1, <1>4, HolderIsReader
    <3>2. place'[Holder] \in {"queue", "observe"} => place[Holder] \in {"queue", "observe"}
      BY <1>1, <1>4, HolderIsReader
    <3> QED BY <2>2, <1>1, <3>1, <3>2 DEF Asked, Leq
  <2> QED BY <1>2, <2>1, <2>2
<1> QED BY <1>5, <1>6, <1>7, <1>8

\* A fold, seen by everything but Naming and the request it answers.
LEMMA FoldKeepsRest ==
  ASSUME IInv, NEW t \in Readers, place[t] = "observe", Fold(t),
         UNCHANGED <<world, seen>>,
         issued' = issued \/ issued' = issued \cup Given(t)
  PROVE  /\ place'[t] = "rest"
         /\ \A u \in Readers : u # t => place'[u] = place[u]
         /\ issued' \subseteq Issue
         /\ \A i \in issued' : i.token.revision <= SafeLimit
         /\ \A i \in issued' : Leq(i.stands, world)
         /\ \A u \in Readers : /\ place'[u] # "rest" => seen'[u].queue <= world'.queue
                               /\ place'[u] \in {"queue", "observe"} => Leq(seen'[u], world')
<1> USE DEF IInv
<1>1. place' = [place EXCEPT ![t] = "rest"]
  BY Zenon DEF Fold, MoveOn
<1>2. place \in [Readers -> {"rest", "database", "queue", "observe"}]
  BY Zenon DEF VersionTypeOK
<1>3. place'[t] = "rest" /\ \A u \in Readers : u # t => place'[u] = place[u]
  BY <1>1, <1>2
<1>4. \A g \in Given(t) : /\ g \in Issue /\ g.token.revision <= SafeLimit
                          /\ g.stands = seen[t]
  BY FoldTypes
<1>5. Leq(seen[t], world)
  BY DEF Past
<1>6. /\ issued' \subseteq Issue
      /\ \A i \in issued' : i.token.revision <= SafeLimit
      /\ \A i \in issued' : Leq(i.stands, world)
  <2>1. \A i \in issued : /\ i \in Issue /\ i.token.revision <= SafeLimit
                          /\ Leq(i.stands, world)
    BY Zenon DEF VersionTypeOK, Past
  <2>2. \A g \in Given(t) : Leq(g.stands, world)
    BY <1>4, <1>5
  <2>3. issued' \subseteq issued \cup Given(t)
    OBVIOUS
  <2> QED BY <2>1, <2>2, <2>3, <1>4, Zenon
<1>7. \A u \in Readers : /\ place'[u] # "rest" => seen'[u].queue <= world'.queue
                         /\ place'[u] \in {"queue", "observe"} => Leq(seen'[u], world')
  BY <1>3 DEF Past
<1> QED BY <1>3, <1>6, <1>7

\* A watcher's fold
LEMMA WatcherFoldKeeps ==
  ASSUME IInv, NEW t \in Readers, WatcherFold(t)
  PROVE  IInv'
<1> USE DEF IInv
<1>1. /\ t \in Watchers /\ place[t] = "observe" /\ Fold(t)
      /\ issued' = issued \cup Given(t)
      /\ UNCHANGED <<world, seen, stage, want, parts, answer, requests, reads>>
  BY Zenon DEF WatcherFold, router
<1>2. /\ revision' \in Nat /\ lastPair' \subseteq Nat \X Nat
      /\ place' \in [Readers -> {"rest", "database", "queue", "observe"}]
  BY <1>1, FoldTypes
<1>3. /\ \A u \in Readers : u # t => place'[u] = place[u]
      /\ issued' \subseteq Issue
      /\ \A i \in issued' : i.token.revision <= SafeLimit
      /\ \A i \in issued' : Leq(i.stands, world)
      /\ \A u \in Readers : /\ place'[u] # "rest" => seen'[u].queue <= world'.queue
                            /\ place'[u] \in {"queue", "observe"} => Leq(seen'[u], world')
  BY <1>1, FoldKeepsRest
<1>4. VersionTypeOK'
  BY <1>1, <1>2, <1>3 DEF VersionTypeOK
<1>5. Naming'
  BY <1>1, FoldKeepsNaming
<1>6. Past'
  BY <1>1, <1>3 DEF Past, Leq
<1>7. Asked'
  <2>1. place'[Holder] = place[Holder] /\ seen' = seen
    BY <1>1, <1>3, HolderIsReader, VersionAssumption
  <2>2. stage \notin {"idle", "health"} =>
          \E i \in issued' : i.token = want /\ \A p \in parts : Leq(i.stands, p)
    BY <1>1 DEF Asked
  <2> QED BY <1>1, <2>1, <2>2 DEF Asked, Leq
<1>8. Answered'
  BY <1>1, AnsweredUntouched
<1> QED BY <1>4, <1>5, <1>6, <1>7, <1>8

-----------------------------------------------------------------------------
\* The router.

\* When the last snapshot comes back as the token the request named, every
\* part was read from what that token stands for.
LEMMA EndsMeet ==
  ASSUME IInv, place[Holder] = "observe", Fold(Holder),
         stage \notin {"idle", "health"}, StateUnchanged(Given(Holder))
  PROVE  \E i \in issued : i.token = want /\ \A p \in parts : p = i.stands
<1> USE DEF IInv
<1>1. PICK g \in Given(Holder) : g.token = want
  BY DEF StateUnchanged
<1>2. PICK i \in issued : i.token = want /\ \A p \in parts : Leq(i.stands, p)
  BY DEF Asked
<1>3. /\ g.stands = seen[Holder] /\ g.token.epoch = seen[Holder].epoch
      /\ g \in Issue /\ i \in Issue
  BY FoldTypes, HolderIsReader DEF VersionTypeOK
<1>4. Pair(i.stands) = Pair(g.stands)
  BY <1>1, <1>2, FoldNames, HolderIsReader
<1>5. i.stands.epoch = want.epoch
  BY <1>2 DEF Naming
<1>6. i.stands \in World /\ seen[Holder] \in World /\ parts \subseteq World
  BY <1>3, IssueParts, SeenIsWorld, HolderIsReader DEF VersionTypeOK
<1>7. Leq(seen[Holder], i.stands)
  BY <1>1, <1>3, <1>4, <1>5, <1>6 DEF Leq, Pair, World
<1>8. ASSUME NEW p \in parts PROVE p = i.stands
  <2>1. p \in World /\ Leq(p, seen[Holder]) /\ Leq(i.stands, p)
    BY <1>2, <1>6 DEF Asked
  <2>2. Leq(p, i.stands)
    BY <2>1, <1>6, <1>7, LeqThen
  <2> QED BY <2>1, <2>2, <1>6, LeqBoth
<1> QED BY <1>2, <1>8

\* The ways a folded snapshot ends in the router: the request is over without
\* an answer, it is answered, or it goes on.
LEMMA RouterFoldShape ==
  ASSUME RouterFold, stage \in Snapping
  PROVE  /\ place[Holder] = "observe" /\ Fold(Holder)
         /\ UNCHANGED <<world, seen, requests, reads>>
         /\ issued' = issued \/ issued' = issued \cup Given(Holder)
         /\ \/ Idle /\ UNCHANGED answer
            \/ /\ stage \in {"page last", "copy last"} /\ StateUnchanged(Given(Holder))
               /\ Idle
               /\ Answer("page") \/ Answer("copied")
            \/ /\ stage \in {"page first", "copy first", "copy second"}
               /\ stage' \in {"page permit", "copy permit", "copy check"}
               /\ UNCHANGED <<want, parts, answer>>
<1> DEFINE S == StateUnchanged(Given(Holder))
<1>1. /\ place[Holder] = "observe" /\ Fold(Holder)
      /\ UNCHANGED <<world, seen, requests, reads>>
  BY Zenon DEF RouterFold
<1>2. CASE stage = "health"
  <2>1. Idle /\ UNCHANGED answer /\ issued' = issued \cup Given(Holder)
    BY <1>2 DEF RouterFold
  <2> QED BY <1>1, <2>1
<1>3. CASE stage # "health" /\ ~S
  <2>1. Idle /\ UNCHANGED <<answer, issued>>
    BY <1>3 DEF RouterFold
  <2> QED BY <1>1, <2>1
<1>4. CASE stage = "page last" /\ S
  <2>1. Idle /\ Answer("page") /\ issued' = issued \cup Given(Holder)
    BY <1>4 DEF RouterFold
  <2> QED BY <1>1, <1>4, <2>1
<1>5. CASE stage = "copy last" /\ S
  <2>1. Idle /\ Answer("copied") /\ UNCHANGED issued
    BY <1>5 DEF RouterFold
  <2> QED BY <1>1, <1>5, <2>1
<1>6. CASE stage \in {"page first", "copy first", "copy second"} /\ S
  <2>1. stage' = AfterSnapshot(stage) /\ UNCHANGED <<want, parts, answer, issued>>
    BY <1>6 DEF RouterFold
  <2>2. stage' \in {"page permit", "copy permit", "copy check"}
    BY <1>6, <2>1 DEF AfterSnapshot
  <2> QED BY <1>1, <1>6, <2>1, <2>2
<1> QED BY <1>2, <1>3, <1>4, <1>5, <1>6 DEF Snapping

LEMMA RouterFoldKeeps ==
  ASSUME IInv, RouterFold
  PROVE  IInv'
<1> USE DEF IInv
<1>0. place[Holder] = "observe"
  BY Zenon DEF RouterFold
<1>1. stage \in Snapping
  BY <1>0 DEF Asked
<1>2. /\ place[Holder] = "observe" /\ Fold(Holder)
      /\ UNCHANGED <<world, seen, requests, reads>>
      /\ issued' = issued \/ issued' = issued \cup Given(Holder)
  BY <1>1, RouterFoldShape
<1>3. \/ Idle /\ UNCHANGED answer
      \/ /\ stage \in {"page last", "copy last"} /\ StateUnchanged(Given(Holder))
         /\ Idle
         /\ Answer("page") \/ Answer("copied")
      \/ /\ stage \in {"page first", "copy first", "copy second"}
         /\ stage' \in {"page permit", "copy permit", "copy check"}
         /\ UNCHANGED <<want, parts, answer>>
  BY <1>1, RouterFoldShape
<1>4. /\ revision' \in Nat /\ lastPair' \subseteq Nat \X Nat
      /\ place' \in [Readers -> {"rest", "database", "queue", "observe"}]
  BY <1>2, FoldTypes, HolderIsReader
<1>5. /\ place'[Holder] = "rest"
      /\ issued' \subseteq Issue
      /\ \A i \in issued' : i.token.revision <= SafeLimit
      /\ \A i \in issued' : Leq(i.stands, world)
      /\ \A u \in Readers : /\ place'[u] # "rest" => seen'[u].queue <= world'.queue
                            /\ place'[u] \in {"queue", "observe"} => Leq(seen'[u], world')
  BY <1>2, FoldKeepsRest, HolderIsReader
<1>6. issued \subseteq issued'
  BY <1>2
<1>7. Naming'
  BY <1>2, FoldKeepsNaming, HolderIsReader
<1>8. parts' \subseteq parts
  BY <1>3 DEF Idle
<1>9. Past'
  BY <1>2, <1>5, <1>8 DEF Past, Leq
<1>10. VersionTypeOK'
  <2>1. stage' \in Stages /\ parts' \subseteq World
    BY <1>3, <1>8 DEF VersionTypeOK, Idle, Stages, PageStages, CopyStages
  <2>2. want' \in Token
    <3>1. NoToken \in Token /\ want \in Token
      BY DEF VersionTypeOK, Token, NoToken
    <3>2. want' = NoToken \/ want' = want
      BY <1>3, Zenon DEF Idle
    <3> QED BY <3>1, <3>2
  <2>3. answer' \in [kind : {"none", "page", "copied"}, token : Token, parts : SUBSET World]
    <3>1. /\ answer \in [kind : {"none", "page", "copied"}, token : Token, parts : SUBSET World]
          /\ want \in Token /\ parts \in SUBSET World
      BY Zenon DEF VersionTypeOK
    <3>2. answer' = answer \/ \E k \in {"page", "copied"} :
                                answer' = [kind |-> k, token |-> want, parts |-> parts]
      BY <1>3, Zenon DEF Answer
    <3> QED BY <3>1, <3>2
  <2> QED BY <1>2, <1>4, <1>5, <2>1, <2>2, <2>3 DEF VersionTypeOK
<1>11. Asked'
  <2>1. CASE Idle
    BY <2>1, <1>5 DEF Asked, Idle
  <2>2. CASE /\ stage \in {"page first", "copy first", "copy second"}
             /\ stage' \in {"page permit", "copy permit", "copy check"}
             /\ UNCHANGED <<want, parts, answer>>
    <3>1. PICK i \in issued : i.token = want /\ \A p \in parts : Leq(i.stands, p)
      BY <2>2 DEF Asked
    <3>2. i \in issued' /\ i.token = want' /\ \A p \in parts' : Leq(i.stands, p)
      BY <2>2, <3>1, <1>6
    <3> QED BY <2>2, <3>2, <1>5 DEF Asked, Leq
  <2> QED BY <1>3, <2>1, <2>2
<1>12. Answered'
  <2>1. CASE UNCHANGED answer
    BY <2>1, <1>6, AnsweredUntouched
  <2>2. CASE /\ stage \in {"page last", "copy last"} /\ StateUnchanged(Given(Holder))
             /\ Answer("page") \/ Answer("copied")
    <3>1. PICK i \in issued : i.token = want /\ \A p \in parts : p = i.stands
      BY <2>2, <1>2, EndsMeet
    <3>2. answer'.token = want /\ answer'.parts = parts
      <4>1. \E k \in {"page", "copied"} :
              answer' = [kind |-> k, token |-> want, parts |-> parts]
        BY <2>2, Zenon DEF Answer
      <4> QED BY <4>1
    <3> QED BY <3>1, <3>2, <1>6 DEF Answered
  <2> QED BY <1>3, <2>1, <2>2
<1> QED BY <1>7, <1>9, <1>10, <1>11, <1>12

\* The router's other steps change the request and nothing else.
LEMMA RequestStepKeeps ==
  ASSUME IInv,
         UNCHANGED <<world, lastPair, revision, place, seen, answer, issued, reads>>,
         requests' \in Nat, stage' \in Stages, want' \in Token, parts' \subseteq World,
         place[Holder] = "rest" \/ UNCHANGED <<stage, parts>>,
         stage' \in {"idle", "health"} => parts' = {},
         \A p \in parts' : p \in parts \/ p = world,
         stage' \notin {"idle", "health"} =>
           \/ parts' = {} /\ \E i \in issued : i.token = want'
           \/ stage \notin {"idle", "health"} /\ want' = want
  PROVE  IInv'
<1> USE DEF IInv
<1>1. VersionTypeOK'
  BY DEF VersionTypeOK
<1>2. Naming' /\ Answered'
  BY NamingUntouched, AnsweredUntouched
<1>3. Past'
  <2>1. world \in World
    BY DEF VersionTypeOK
  <2>2. \A p \in parts' : Leq(p, world)
    BY <2>1, LeqSame DEF Past
  <2> QED BY <2>2 DEF Past, Leq
<1>4. Asked'
  <2>1. stage' \notin {"idle", "health"} =>
          \E i \in issued : i.token = want' /\ \A p \in parts' : Leq(i.stands, p)
    <3>1. CASE parts' = {} /\ \E i \in issued : i.token = want'
      BY <3>1
    <3>2. CASE stage \notin {"idle", "health"} /\ want' = want
      <4>1. PICK i \in issued : i.token = want /\ \A p \in parts : Leq(i.stands, p)
        BY <3>2 DEF Asked
      <4>2. Leq(i.stands, world)
        BY DEF Past
      <4> QED BY <3>2, <4>1, <4>2
    <3> QED BY <3>1, <3>2
  <2>2. CASE place[Holder] = "rest"
    BY <2>1, <2>2 DEF Asked, Leq
  <2>3. CASE UNCHANGED <<stage, parts>>
    BY <2>1, <2>3 DEF Asked, Leq
  <2> QED BY <2>2, <2>3
<1> QED BY <1>1, <1>2, <1>3, <1>4

LEMMA OneMore == ASSUME NEW n \in Nat PROVE n + 1 \in Nat
  OBVIOUS

LEMMA AskKeeps ==
  ASSUME IInv, NEW first \in {"health", "page first", "copy first"}, NEW token \in Token,
         AskFor(first, token),
         first # "health" => \E i \in issued : i.token = token
  PROVE  IInv'
<1>1. /\ stage = "idle" /\ stage' = first /\ want' = token /\ parts' = {}
      /\ requests' = requests + 1
      /\ UNCHANGED <<world, lastPair, revision, place, seen, answer, issued, reads>>
  BY Zenon DEF AskFor
<1>2. requests' \in Nat /\ stage' \in Stages
  <2>1. requests \in Nat
    BY DEF IInv, VersionTypeOK
  <2>2. requests' \in Nat
    BY <1>1, <2>1, OneMore, Zenon
  <2>3. first \in Stages
    BY DEF Stages, PageStages, CopyStages
  <2> QED BY <1>1, <2>2, <2>3
<1>3. place[Holder] = "rest"
  BY <1>1 DEF IInv, Asked, Snapping
<1> QED BY <1>1, <1>2, <1>3, RequestStepKeeps

\* Proceed, Gather and Refuse, from a stage in which no snapshot is taken
LEMMA WorkKeeps ==
  ASSUME IInv,
         NEW from \in (PageStages \cup CopyStages) \ Snapping,
         NEW to \in PageStages \cup CopyStages,
         \/ Checked(from, to)
         \/ Gather(from, to)
         \/ Proceed(from, to) /\ UNCHANGED parts
         \/ stage = from /\ Refuse
  PROVE  IInv'
<1>1. /\ stage = from
      /\ UNCHANGED <<world, lastPair, revision, place, seen, answer, issued, reads, requests>>
      /\ \/ Idle
         \/ stage' = to /\ want' = want /\ parts' \in {parts, parts \cup {world}}
  BY DEF Checked, Gather, Proceed, Refuse
<1>2. place[Holder] = "rest"
  BY <1>1 DEF IInv, Asked
<1>3. /\ requests' \in Nat /\ stage' \in Stages /\ want' \in Token
      /\ parts' \subseteq World
  BY <1>1 DEF IInv, VersionTypeOK, Idle, Stages, Token, NoToken
<1>4. from \notin {"idle", "health"} /\ to \notin {"idle", "health"}
  BY DEF PageStages, CopyStages
<1>5. CASE Idle
  BY <1>1, <1>2, <1>3, <1>5, RequestStepKeeps DEF Idle
<1>6. CASE stage' = to /\ want' = want /\ parts' \in {parts, parts \cup {world}}
  BY <1>1, <1>2, <1>3, <1>4, <1>6, RequestStepKeeps
<1> QED BY <1>1, <1>5, <1>6

-----------------------------------------------------------------------------
LEMMA InitInvariant == VersionInit => IInv
<1> SUFFICES ASSUME VersionInit PROVE IInv
  OBVIOUS
<1>1. world \in World
  <2>1. PICK d \in 0 .. 1 : world = [Nowhere EXCEPT !.database = d]
    BY DEF VersionInit
  <2> QED BY <2>1 DEF Nowhere, World
<1>2. VersionTypeOK
  BY <1>1 DEF VersionInit, VersionTypeOK, World, Nowhere, Stages, Token, NoToken, NoAnswer
<1>3. Naming
  BY DEF VersionInit, Naming, TokenNamesOneHistory
<1>4. Past /\ Asked /\ Answered
  BY HolderIsReader DEF VersionInit, Past, Asked, Answered, NoAnswer
<1> QED BY <1>2, <1>3, <1>4 DEF IInv

LEMMA NextInvariant == IInv /\ [VersionNext]_versionVars => IInv'
<1> SUFFICES ASSUME IInv, [VersionNext]_versionVars PROVE IInv'
  OBVIOUS
<1>1. world \in World /\ VersionTypeOK
  BY DEF IInv, VersionTypeOK
<1>2. CASE DatabaseWrite
  <2> DEFINE w == [world EXCEPT !.database = @ + 1]
  <2>1. w \in World /\ Leq(world, w)
    BY <1>1 DEF World, Leq
  <2>2. Change(w)
    BY <1>2, Zenon DEF DatabaseWrite
  <2> QED BY <2>1, <2>2, ChangeKeeps
<1>3. CASE EpochMove
  <2> DEFINE w == [world EXCEPT !.epoch = @ + 1]
  <2>1. w \in World /\ Leq(world, w)
    BY <1>1 DEF World, Leq
  <2>2. Change(w)
    BY <1>3, Zenon DEF EpochMove
  <2> QED BY <2>1, <2>2, ChangeKeeps
<1>4. CASE QueueEdit
  <2> DEFINE w == [world EXCEPT !.queue = @ + 1]
  <2>1. w \in World /\ Leq(world, w)
    BY <1>1 DEF World, Leq
  <2>2. Change(w)
    BY <1>4, Zenon DEF QueueEdit
  <2> QED BY <2>1, <2>2, ChangeKeeps
<1>5. CASE AskHealth
  <2>1. NoToken \in Token
    BY DEF Token, NoToken
  <2> QED BY <1>5, <2>1, AskKeeps DEF AskHealth
<1>6. CASE AskPage
  <2>1. PICK i \in issued : AskFor("page first", i.token)
    BY <1>6 DEF AskPage
  <2>2. i.token \in Token
    BY IssueParts, <1>1 DEF VersionTypeOK
  <2> QED BY <2>1, <2>2, AskKeeps
<1>7. CASE AskCopy
  <2>1. PICK i \in issued : AskFor("copy first", i.token)
    BY <1>7 DEF AskCopy
  <2>2. i.token \in Token
    BY IssueParts, <1>1 DEF VersionTypeOK
  <2> QED BY <2>1, <2>2, AskKeeps
<1>8. CASE RouterSnapshot
  <2>1. /\ place[Holder] = "rest" /\ stage \in Snapping /\ ReadQueue(Holder)
        /\ UNCHANGED <<world, lastPair, revision, stage, want, parts, answer,
                       requests, issued, reads>>
    BY <1>8, Zenon DEF RouterSnapshot, router
  <2>2. reads' \in Nat /\ requests' \in Nat
    BY <2>1, <1>1 DEF VersionTypeOK
  <2> QED BY <2>1, <2>2, HolderIsReader, ReadQueueKeeps
<1>9. CASE RouterFold
  BY <1>9, RouterFoldKeeps
<1>10. CASE PagePermit \/ PageRam \/ PageRows \/ PageCheck
  <2>1. /\ "page permit" \in (PageStages \cup CopyStages) \ Snapping
        /\ "page ram" \in (PageStages \cup CopyStages) \ Snapping
        /\ "page rows" \in (PageStages \cup CopyStages) \ Snapping
        /\ "page check" \in (PageStages \cup CopyStages) \ Snapping
        /\ "page last" \in PageStages \cup CopyStages
    BY DEF PageStages, CopyStages, Snapping
  <2> QED BY <1>10, <2>1, WorkKeeps DEF PagePermit, PageRam, PageRows, PageCheck
<1>11. CASE CopyPermit \/ CopyPayload \/ CopyCheck \/ CopyWrite \/ CopyRecheck
  <2>1. /\ "copy permit" \in (PageStages \cup CopyStages) \ Snapping
        /\ "copy payload" \in (PageStages \cup CopyStages) \ Snapping
        /\ "copy check" \in (PageStages \cup CopyStages) \ Snapping
        /\ "copy write" \in (PageStages \cup CopyStages) \ Snapping
        /\ "copy recheck" \in (PageStages \cup CopyStages) \ Snapping
        /\ {"copy second", "copy last"} \subseteq PageStages \cup CopyStages
    BY DEF PageStages, CopyStages, Snapping
  <2> QED BY <1>11, <2>1, WorkKeeps
          DEF CopyPermit, CopyPayload, CopyCheck, CopyWrite, CopyRecheck
<1>12. CASE Refuse
  <2>1. stage \in (PageStages \cup CopyStages) \ Snapping
    BY <1>12 DEF Refuse
  <2> QED BY <1>12, <2>1, WorkKeeps
<1>13. ASSUME NEW t \in Watchers, Watch(t) PROVE IInv'
  <2>1. /\ place[t] = "rest" /\ ReadQueue(t) /\ reads' = reads + 1
        /\ UNCHANGED <<world, lastPair, revision, stage, want, parts, answer,
                       requests, issued>>
    BY <1>13, Zenon DEF Watch, router
  <2>2. reads' \in Nat /\ requests' \in Nat /\ t \in Readers /\ t # Holder
    BY <2>1, <1>1, VersionAssumption DEF VersionTypeOK, Readers
  <2> QED BY <2>1, <2>2, ReadQueueKeeps
<1>14. ASSUME NEW t \in Watchers, WatcherFold(t) PROVE IInv'
  BY <1>14, WatcherFoldKeeps DEF Readers
<1>15. ASSUME NEW t \in Readers, ReadDatabase(t) \/ ReadQueueAgain(t) PROVE IInv'
  BY <1>15, ReadDatabaseKeeps, ReadQueueAgainKeeps
<1>16. CASE UNCHANGED versionVars
  BY <1>16 DEF versionVars, IInv, VersionTypeOK, Naming, TokenNamesOneHistory, Pair, Past, Asked,
               Answered, Leq
<1> QED BY <1>2, <1>3, <1>4, <1>5, <1>6, <1>7, <1>8, <1>9, <1>10, <1>11, <1>12,
           <1>13, <1>14, <1>15, <1>16 DEF VersionNext, RouterStep

\* The invariant holds throughout.
THEOREM Invariant == VersionSpec => []IInv
  BY InitInvariant, NextInvariant, PTL DEF VersionSpec

\* Types, and the limit on what is given out (HistoryVersion::observe).
THEOREM Typed == VersionSpec => []VersionTypeOK
<1>1. IInv => VersionTypeOK
  BY DEF IInv
<1> QED BY <1>1, Invariant, PTL

\* One revision, one history (HistoryVersion::observe).
THEOREM TokensNameHistories == VersionSpec => []TokenNamesOneHistory
<1>1. IInv => TokenNamesOneHistory
  BY DEF IInv, Naming
<1> QED BY <1>1, Invariant, PTL

\* A page and a copy are of the history and the epoch of the token they were
\* asked with (surface_page, desktop_surface_copy).
THEOREM AnswersAreOfTheirTokens == VersionSpec => []AnswerIsOfItsToken
<1>1. IInv => AnswerIsOfItsToken
  <2> SUFFICES ASSUME IInv, NEW i \in issued, i.token = answer.token,
                      NEW p \in answer.parts
               PROVE  p = i.stands
    BY DEF AnswerIsOfItsToken
  <2>1. PICK j \in issued : j.token = answer.token /\ \A q \in answer.parts : q = j.stands
    BY DEF IInv, Answered
  <2>2. /\ i.stands \in World /\ j.stands \in World
        /\ i.stands.epoch = j.stands.epoch /\ Pair(i.stands) = Pair(j.stands)
    BY <2>1, IssueParts DEF IInv, VersionTypeOK, Naming, TokenNamesOneHistory
  <2>3. i.stands = j.stands
    BY <2>2, LeqBoth DEF Pair, Leq, World
  <2> QED BY <2>1, <2>3
<1> QED BY <1>1, Invariant, PTL
=============================================================================
