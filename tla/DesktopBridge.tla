---------------------------- MODULE DesktopBridge ----------------------------
(***************************************************************************)
(* Which Host the desktop works with (src-tauri/src/app/ipc_host.rs): one  *)
(* it embeds and serves itself, or the service's, which it follows by its  *)
(* events.  The server of the embedded Host and the loop that follows a    *)
(* service each end by making way for the other; the updater stops         *)
(* whichever it is, installs, and restores it when the installation fails. *)
(* Commands, other programs that start and stop Hosts, and processes that  *)
(* die are the world around it (dzc-host/src/controller.rs).               *)
(*                                                                         *)
(* A step is code between two waits.  What a Host does inside is           *)
(* CaptureOwner's; here it serves, is stopped, or is stuck: asked to stop, *)
(* and its stop not confirmed.                                             *)
(***************************************************************************)
EXTENDS Naturals, Sequences

CONSTANTS
  MaxUpdates,   \* bound on the updates the user asks for
  MaxOps        \* bound on what the world around does

VARIABLES
  hosts,      \* every Host there has been: its kind and where it is
  endpoint,   \* the Host whose listener holds the endpoint, 0 for none
  mode,       \* Inner.mode
  leaving,    \* Inner.closing
  restore,    \* Inner.restore
  server,     \* Inner.server: the Host whose server it is, 0 for None
  finished,   \* the Hosts whose server has sent done
  tasks,      \* what follows the Host of the mode: the first one, and one per update
  update,     \* the updater: its place and the Host it stops
  told,       \* clipboard-host-unavailable was emitted since the mode was set
  updates, ops

ASSUME BridgeAssumption == MaxUpdates \in Nat /\ MaxOps \in Nat

inner == <<leaving, restore, server>>
world == <<update, updates, ops>>
bridgeVars == <<hosts, endpoint, mode, inner, finished, tasks, told, world>>

Starting == [is |-> "starting", host |-> 0]
Unavailable == [is |-> "unavailable", host |-> 0]
NoTask == [at |-> "end", host |-> 0]

BridgeInit ==
  /\ hosts \in {<< >>, <<[kind |-> "service", at |-> "serving"]>>}
  /\ endpoint = Len(hosts) /\ mode = Starting /\ told = FALSE
  /\ leaving = FALSE /\ restore = "none" /\ server = 0 /\ finished = {}
  /\ tasks = [t \in 0..MaxUpdates |-> IF t = 0 THEN [at |-> "connect", host |-> 0] ELSE NoTask]
  /\ update = [at |-> "idle", host |-> 0] /\ updates = 0 /\ ops = 0

-----------------------------------------------------------------------------
TaskAt(t, place) == tasks[t].at = place
TaskTo(t, place) == tasks' = [tasks EXCEPT ![t].at = place]
Become(h, place) == hosts' = [hosts EXCEPT ![h].at = place]
SetMode(m) == mode' = m /\ told' = FALSE
Unbind(h) == endpoint' = IF endpoint = h THEN 0 ELSE endpoint

\* A Host that was asked to stop but whose stop failed still answers.
Responds(h) == endpoint = h /\ h # 0 /\ hosts[h].at \in {"serving", "stuck"}
ServiceAnswers == Responds(endpoint) /\ hosts[endpoint].kind = "service"

\* What install_aborted started, until it follows a Host.
Restoring(t) == t > 0 /\ tasks[t].host = 0

\* Mutant: nobody is told of the error.
FailsQuietly(t) == TaskTo(t, "end") /\ UNCHANGED <<mode, told>>
\* The error of begin_embedded, to each of its callers: the one that restores only tells.
Fails(t) ==
  /\ TaskTo(t, "end")
  /\ IF Restoring(t) THEN told' = TRUE /\ UNCHANGED mode
                     ELSE mode' = Unavailable /\ told' = TRUE

BeginRemote(t) ==
  /\ ServiceAnswers /\ SetMode([is |-> "remote", host |-> endpoint])
  /\ tasks' = [tasks EXCEPT ![t] = [at |-> "poll", host |-> endpoint]]

-----------------------------------------------------------------------------
(* Taking a Host up.                                                       *)

\* initialize: a call may also fail although the service answers.
Initialize(t) ==
  /\ TaskAt(t, "connect") /\ UNCHANGED <<hosts, endpoint, inner, finished, world>>
  /\ BeginRemote(t) \/ (TaskTo(t, "begin") /\ UNCHANGED <<mode, told>>)

\* begin_embedded up to the bind.
Binds(t) ==
  /\ endpoint = 0 /\ hosts' = Append(hosts, [kind |-> "embedded", at |-> "fresh"])
  /\ endpoint' = Len(hosts) + 1 /\ TaskTo(t, "start") /\ UNCHANGED <<mode, told>>
BeginEmbedded(t) ==
  /\ TaskAt(t, "begin") /\ UNCHANGED <<inner, finished, world>>
  /\ \/ (leaving \/ endpoint # 0) /\ Fails(t) /\ UNCHANGED <<hosts, endpoint>>
     \/ ~leaving /\ Binds(t)

\* The rest of begin_embedded: it captures, or has been replaced by one that does not; or
\* its credentials cannot be written and it is shut down; or a stop is not confirmed.
StartEmbedded(t) ==
  /\ TaskAt(t, "start") /\ UNCHANGED <<leaving, restore, finished, world>>
  /\ \/ /\ Become(endpoint, "serving") /\ SetMode([is |-> "embedded", host |-> endpoint])
        /\ server' = endpoint /\ UNCHANGED endpoint
        /\ tasks' = [tasks EXCEPT ![t] = [at |-> "serve", host |-> endpoint]]
     \/ /\ \E place \in {"stopped", "stuck"} : Become(endpoint, place)
        /\ endpoint' = 0 /\ Fails(t) /\ UNCHANGED server

-----------------------------------------------------------------------------
(* The task that serves the embedded Host.                                 *)

\* serve_listener drops its listener and drains the connections.
ServerStops(t) ==
  /\ TaskAt(t, "serve") /\ hosts[tasks[t].host].at = "stopped"
  /\ Unbind(tasks[t].host) /\ TaskTo(t, "drain")
  /\ UNCHANGED <<hosts, mode, inner, finished, told, world>>

DrainEnds(t) ==
  /\ TaskAt(t, "drain") /\ TaskTo(t, "shutdown")
  /\ UNCHANGED <<hosts, endpoint, mode, inner, finished, told, world>>

\* host.shutdown(), and done is sent whether it succeeded or not.
ServerShutdown(t) ==
  LET h == tasks[t].host IN
  /\ TaskAt(t, "shutdown") /\ finished' = finished \cup {h}
  /\ \/ Become(h, "stopped") /\ TaskTo(t, "settled") /\ UNCHANGED <<mode, told>>
     \/ /\ hosts[h].at # "stopped" /\ Become(h, "stuck")
        /\ TaskTo(t, "end") /\ SetMode(Unavailable)
  /\ UNCHANGED <<endpoint, inner, world>>

\* The look at closing after done.
AfterDone(t) ==
  /\ TaskAt(t, "settled") /\ UNCHANGED <<hosts, endpoint, inner, finished, world>>
  /\ IF leaving THEN TaskTo(t, "end") /\ UNCHANGED <<mode, told>>
                ELSE TaskTo(t, "find") /\ SetMode(Starting)

\* A service within the deadline, or an embedded Host again.
Find(t) ==
  /\ TaskAt(t, "find") /\ UNCHANGED <<hosts, endpoint, inner, finished, world>>
  /\ BeginRemote(t) \/ (TaskTo(t, "begin") /\ UNCHANGED <<mode, told>>)

-----------------------------------------------------------------------------
(* The task that follows a service.                                        *)

\* The loop ends when the desktop closes or when a subscription fails.
FollowService(t) ==
  /\ TaskAt(t, "poll") /\ (leaving \/ hosts[tasks[t].host].at # "serving")
  /\ TaskTo(t, IF leaving THEN "end" ELSE "lost")
  /\ UNCHANGED <<hosts, endpoint, mode, inner, finished, told, world>>

\* The wait for the process: it may be over without an answer, and a process that is gone
\* may no longer be there to open.
Lost(t) ==
  /\ TaskAt(t, "lost") /\ UNCHANGED <<hosts, endpoint, inner, finished, world>>
  /\ \/ leaving /\ TaskTo(t, "end") /\ UNCHANGED <<mode, told>>
     \/ /\ ~leaving
        /\ \/ /\ hosts[tasks[t].host].at = "gone" /\ TaskTo(t, "begin")
              /\ UNCHANGED <<mode, told>>
           \/ Fails(t)

Task(t) ==
  \/ Initialize(t) \/ BeginEmbedded(t) \/ StartEmbedded(t)
  \/ ServerStops(t) \/ DrainEnds(t) \/ ServerShutdown(t) \/ AfterDone(t) \/ Find(t)
  \/ FollowService(t) \/ Lost(t)

-----------------------------------------------------------------------------
(* The updater.                                                            *)

Doing(place) == update.at = place
Then(place) == update' = [update EXCEPT !.at = place]
Target == update.host

\* Mutant: closing is not set.
CloseLate(kind) == restore' = kind /\ UNCHANGED leaving
\* From here until an abort nothing new is embedded.
CloseFor(kind) == restore' = kind /\ leaving' = TRUE

\* prepare_update up to its first wait.  Without a Host, or when the supervisor's child
\* does not stop, it fails.
Prepare ==
  /\ Doing("idle") /\ updates < MaxUpdates /\ updates' = updates + 1
  /\ \A t \in DOMAIN tasks : ~(Restoring(t) /\ tasks[t].at # "end")
  /\ \/ /\ mode.is = "embedded" /\ hosts[mode.host].at = "serving"
        /\ CloseFor("embedded")
        /\ update' = [at |-> "stop_host", host |-> mode.host]
     \/ /\ mode.is = "remote" /\ UNCHANGED <<restore, leaving>>
        /\ update' = [at |-> "ask", host |-> mode.host]
     \/ UNCHANGED <<restore, leaving>> /\ update' = [at |-> "abort", host |-> 0]
  /\ UNCHANGED <<hosts, endpoint, mode, server, finished, tasks, told, ops>>

\* The service's answer: it must be the one the desktop follows.
AskService ==
  /\ Doing("ask")
  /\ \/ /\ ServiceAnswers /\ Target = endpoint /\ mode.host = Target
        /\ CloseFor("service") /\ Then("stop_service")
     \/ UNCHANGED <<restore, leaving>> /\ Then("abort")
  /\ UNCHANGED <<hosts, endpoint, mode, server, finished, tasks, told, updates, ops>>

\* shutdown: the Host, then its server.
StopHost ==
  /\ Doing("stop_host")
  /\ \/ Become(Target, "stopped") /\ Then("wait_server")
     \/ hosts[Target].at # "stopped" /\ Become(Target, "stuck") /\ Then("abort")
  /\ UNCHANGED <<endpoint, mode, inner, finished, tasks, told, updates, ops>>

\* Within five seconds, or not.
WaitServer ==
  /\ Doing("wait_server")
  /\ \/ server \in finished \cup {0} /\ server' = 0 /\ Then("install")
     \/ server \notin finished \cup {0} /\ UNCHANGED server /\ Then("abort")
  /\ UNCHANGED <<hosts, endpoint, mode, leaving, restore, finished, tasks, told, updates, ops>>

\* controller::stop, to whichever Host answers.
StopService ==
  /\ Doing("stop_service")
  /\ \/ /\ Responds(endpoint) /\ Become(endpoint, "stopped")
        /\ update' = [at |-> "wait_exit", host |-> endpoint]
     \/ /\ \/ Responds(endpoint) /\ Become(endpoint, "stuck")
           \/ UNCHANGED hosts
        /\ Then("abort")
  /\ UNCHANGED <<endpoint, mode, inner, finished, tasks, told, updates, ops>>

\* Its listener is gone and, if it was a service, its process; within ten seconds, or not.
WaitExit ==
  /\ Doing("wait_exit")
  /\ \/ /\ endpoint # Target /\ hosts[Target].at \in {"stopped", "gone"}
        /\ hosts[Target].kind = "service" => hosts[Target].at = "gone"
        /\ Then("install")
     \/ Then("abort")
  /\ UNCHANGED <<hosts, endpoint, mode, inner, finished, tasks, told, updates, ops>>

\* The installer fails; or it succeeds and the desktop is started anew.
Install ==
  /\ Doing("install") /\ (Then("abort") \/ Then("restarted"))
  /\ UNCHANGED <<hosts, endpoint, mode, inner, finished, tasks, told, updates, ops>>

\* install_aborted: restore_after_update up to its first wait.
InstallAborted ==
  /\ Doing("abort") /\ restore' = "none" /\ leaving' = FALSE
  /\ Then(IF restore = "service" THEN "start" ELSE "idle")
  /\ tasks' = IF restore = "embedded" THEN [tasks EXCEPT ![updates].at = "begin"] ELSE tasks
  /\ UNCHANGED <<hosts, endpoint, mode, server, finished, told, updates, ops>>

\* The restoring failed: install_aborted only tells.
Abandon == Then("idle") /\ told' = TRUE

\* controller::start: the service that runs, or a new one once an embedded Host made way.
StartService ==
  /\ Doing("start") /\ UNCHANGED <<endpoint, mode, inner, finished, tasks, updates, ops>>
  /\ \/ ServiceAnswers /\ Then("reconnect") /\ UNCHANGED <<hosts, told>>
     \/ /\ Responds(endpoint) /\ ~ServiceAnswers /\ Become(endpoint, "stopped")
        /\ update' = [at |-> "handoff", host |-> endpoint] /\ UNCHANGED told
     \/ endpoint = 0 /\ Then("spawn") /\ UNCHANGED <<hosts, told>>
     \/ Abandon /\ UNCHANGED hosts

Spawn ==
  /\ Doing("spawn") \/ Doing("handoff")
  /\ \/ /\ endpoint = 0 /\ hosts' = Append(hosts, [kind |-> "service", at |-> "serving"])
        /\ endpoint' = Len(hosts) + 1 /\ Then("reconnect") /\ UNCHANGED told
     \/ Abandon /\ UNCHANGED <<hosts, endpoint>>
  /\ UNCHANGED <<mode, inner, finished, tasks, updates, ops>>

Reconnect ==
  /\ Doing("reconnect")
  /\ (Then("idle") /\ BeginRemote(updates)) \/ (Abandon /\ UNCHANGED <<mode, tasks>>)
  /\ UNCHANGED <<hosts, endpoint, inner, finished, updates, ops>>

Updater ==
  \/ AskService \/ StopHost \/ WaitServer \/ StopService \/ WaitExit
  \/ InstallAborted \/ StartService \/ Spawn \/ Reconnect

-----------------------------------------------------------------------------
(* The world around.                                                       *)

Op == ops < MaxOps /\ ops' = ops + 1
bridge == <<mode, inner, finished, told, update, updates>>

\* Another program asks the Host that answers to stop or to hand over.
ClientStops ==
  /\ Op /\ Responds(endpoint) /\ \E place \in {"stopped", "stuck"} : Become(endpoint, place)
  /\ UNCHANGED <<endpoint, tasks, bridge>>

\* A service is started: it binds, then captures or leaves.
ServiceStarts ==
  /\ Op /\ endpoint = 0 /\ hosts' = Append(hosts, [kind |-> "service", at |-> "booting"])
  /\ endpoint' = Len(hosts) + 1 /\ UNCHANGED <<tasks, bridge>>
ServiceBoots(h) ==
  /\ hosts[h].at = "booting" /\ UNCHANGED <<tasks, bridge, ops>>
  /\ \/ Become(h, "serving") /\ UNCHANGED endpoint
     \/ Become(h, "gone") /\ Unbind(h)

\* A service that was stopped drains, and its process ends.
ServiceLeaves(h) ==
  /\ hosts[h].kind = "service" /\ hosts[h].at = "stopped" /\ UNCHANGED <<tasks, bridge, ops>>
  /\ \/ endpoint = h /\ endpoint' = 0 /\ UNCHANGED hosts
     \/ endpoint # h /\ Become(h, "gone") /\ UNCHANGED endpoint

ServiceDies(h) ==
  /\ Op /\ hosts[h].kind = "service" /\ hosts[h].at # "gone"
  /\ Become(h, "gone") /\ Unbind(h) /\ UNCHANGED <<tasks, bridge>>

\* The embedded Host's listener fails.
AcceptFails(t) ==
  /\ Op /\ TaskAt(t, "serve") /\ TaskTo(t, "drain") /\ Unbind(tasks[t].host)
  /\ UNCHANGED <<hosts, bridge>>

\* The call of a service that serves fails.
FollowFails(t) ==
  /\ Op /\ TaskAt(t, "poll") /\ TaskTo(t, "lost") /\ UNCHANGED <<hosts, endpoint, bridge>>

World ==
  \/ ClientStops \/ ServiceStarts
  \/ \E h \in DOMAIN hosts : ServiceBoots(h) \/ ServiceLeaves(h) \/ ServiceDies(h)
  \/ \E t \in DOMAIN tasks : AcceptFails(t) \/ FollowFails(t)

BridgeNext ==
  /\ ~Doing("restarted")
  /\ Prepare \/ Install \/ Updater \/ World \/ \E t \in DOMAIN tasks : Task(t)

\* Tasks and the updater run, and every wait of theirs has a time limit.  A service that
\* was stopped ends.  The installer, and the world around, need not do anything.
BridgeFairness ==
  /\ \A t \in 0..MaxUpdates : WF_bridgeVars(~Doing("restarted") /\ Task(t))
  /\ WF_bridgeVars(~Doing("restarted") /\ Updater)
  /\ WF_bridgeVars(~Doing("restarted") /\ \E h \in DOMAIN hosts : ServiceBoots(h) \/ ServiceLeaves(h))

BridgeSpec == BridgeInit /\ [][BridgeNext]_bridgeVars

-----------------------------------------------------------------------------
\* While the first installer runs every Host the desktop embedded is confirmed to have stopped,
\* and the service it stopped is no process any more: nobody runs what is replaced.  After an
\* update that was aborted a Host may be left over that the desktop no longer knows
\* (RestoredIsKept), and a later installer may run beside it.
InstallsAlone ==
  Doing("install") /\ updates = 1 =>
    /\ \A h \in DOMAIN hosts : hosts[h].kind = "embedded" => hosts[h].at = "stopped"
    /\ hosts[Target].at = (IF hosts[Target].kind = "embedded" THEN "stopped" ELSE "gone")

\* A desktop whose Host has stopped comes to another one, or says that there is none.  It
\* need not while the installer runs.
Orphaned ==
  \/ mode.is = "starting"
  \/ mode.is \in {"embedded", "remote"} /\ hosts[mode.host].at \in {"stopped", "gone"}
OrphanRecovers == Orphaned ~> (~Orphaned \/ told \/ Doing("install") \/ Doing("restarted"))

\* The desktop leaves a Host it embeds only when that Host serves no more: what an abort has
\* restored stays.
RestoredIsKept ==
  [][mode.is = "embedded" /\ hosts[mode.host].at = "serving" => mode' = mode]_bridgeVars
=============================================================================
