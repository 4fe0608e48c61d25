--------------------------- MODULE ClientRegistry ---------------------------
(***************************************************************************)
(* The clients list of the manager (bin/manager.py, classes Clients and    *)
(* Plugin) and the plugin processes it watches (common/plugin.py).         *)
(*                                                                         *)
(* Four kinds of manager threads share the list: the MQ thread handles     *)
(* plugin.status events and start requests, the package thread registers,  *)
(* starts and unregisters plugins, the dead check thread declares silent   *)
(* clients dead, and a callback thread per xPL heartbeat registers clients *)
(* that are not Domogik's.  A stop request starts one more thread, which   *)
(* kills what still runs 15 seconds later.  Nothing is locked.             *)
(*                                                                         *)
(* Time is counted in heartbeat periods (STATUS_HBEAT).                    *)
(***************************************************************************)
EXTENDS Naturals, Sequences, FiniteSets

CONSTANTS
  Plugins,        \* plugins a package may exist for
  XplClients,     \* xPL clients that are not Domogik's
  InitialPlugins, \* plugins that the first package round has registered
  AutoStart,      \* plugins configured with auto_startup
  Removable,      \* plugins whose package may be removed and installed again
  DeadAfter,      \* DeadAfter[c]: periods of silence after which c is dead
  MaxStarts,      \* bound: processes of one plugin
  MaxQueue,       \* bound: events on their way when a heartbeat is sent
  MaxEcho,        \* bound: dead events of the manager on their way
  None            \* no client

Clients == Plugins \cup XplClients

ASSUME ClientAssumption ==
  /\ Plugins \cap XplClients = {}
  /\ InitialPlugins \subseteq Plugins
  /\ AutoStart \subseteq Plugins
  /\ Removable \subseteq Plugins
  /\ DeadAfter \in [Clients -> Nat]
  /\ MaxStarts \in Nat /\ MaxQueue \in Nat /\ MaxEcho \in Nat
  /\ None \notin Clients /\ IsFiniteSet(Clients)

VARIABLES
  installed,  \* plugin packages on the disk
  plugins,    \* keys of _plugins
  subscribed, \* plugins with a Plugin object subscribed to plugin.status
  status,     \* status[c]: status of c in _clients
  detail,     \* detail[c]: status of c in _clients_with_details
  silent,     \* silent[c]: periods since last_seen of c
  job,        \* job[t]: the set_status call thread t is in the middle of
  mq,         \* what the MQ thread does
  pkg,        \* what the package thread does
  checker,    \* what the dead check thread does
  xpl_callback, \* xPL clients whose callback has called add and not set_status
  watch,      \* <<p, n>>: a thread that will kill p waits since the n-th process
  process,    \* process[p]: where the process of p is
  own,        \* own[p]: _status of the process of p, dead when it was killed
  beat,       \* beat[p]: status the heartbeat thread has read and not sent
  born,       \* born[p]: number of processes of p started
  events,     \* events[p]: plugin.status events of p on their way
  echo,       \* echo[p]: dead events about p that the manager has sent itself
  reply       \* the last reply to a start request, and whether it launched a process

listVars    == <<status, detail, silent>>
packageVars == <<installed, plugins, subscribed>>
managerVars == <<mq, pkg, checker, xpl_callback, watch, reply>>
processVars == <<process, own, beat, born>>
vars == <<packageVars, listVars, job, managerVars, processVars, events, echo>>

-----------------------------------------------------------------------------
\* Statuses a client may have.  invalid is set on the same paths as
\* not-configured and unknown is never set.
Status == {"starting", "alive", "stop-request", "stopped", "dead", "not-configured"}

\* Threads that call set_status.
Threads == {"mq", "checker"} \cup XplClients

\* Keys of _clients.
Listed == {c \in Clients : status[c] # "absent"}

\* Mutant: a plugin that has not been alive yet is not looked at.
MonitoredAlive(c) == IF c \in Plugins THEN {"alive", "stop-request"} ELSE {"alive"}

\* Statuses whose clients the dead check looks at.
Monitored(c) == IF c \in Plugins THEN {"starting", "alive", "stop-request"} ELSE {"alive"}

ProcessState == {"none", "launched", "booting", "running", "refused", "leaving", "closing"}

Idle == [at |-> "idle", plugin |-> None]
MqFree == mq = Idle /\ job["mq"] = None

Init ==
  /\ installed = InitialPlugins
  /\ plugins = InitialPlugins
  /\ subscribed = InitialPlugins
  /\ status = [c \in Clients |-> IF c \in InitialPlugins THEN "stopped" ELSE "absent"]
  /\ detail = status
  /\ silent = [c \in Clients |-> 0]
  /\ job = [t \in Threads |-> None]
  /\ mq = Idle
  /\ pkg = [at |-> "wait", seen |-> {}, plugin |-> None]
  /\ checker = [at |-> "wait", todo |-> {}, size |-> 0, target |-> None]
  /\ xpl_callback = {}
  /\ watch = {}
  /\ process = [p \in Plugins |-> "none"]
  /\ own = [p \in Plugins |-> "stopped"]
  /\ beat = [p \in Plugins |-> None]
  /\ born = [p \in Plugins |-> 0]
  /\ events = [p \in Plugins |-> <<>>]
  /\ echo = [p \in Plugins |-> 0]
  /\ reply = None

-----------------------------------------------------------------------------
(* Clients: the operations every thread calls.                             *)

\* add: the entry is replaced in both dictionaries.
Add(c) ==
  /\ status' = [status EXCEPT ![c] = "stopped"]
  /\ detail' = [detail EXCEPT ![c] = "stopped"]
  /\ silent' = [silent EXCEPT ![c] = 0]

\* remove.
Remove(c) ==
  /\ status' = [status EXCEPT ![c] = "absent"]
  /\ detail' = [detail EXCEPT ![c] = "absent"]
  /\ UNCHANGED silent

\* Mutant: a client that is dead stays dead.
DeadForGood(t, c, s) ==
  /\ silent' = IF c \in Listed /\ s # "dead" THEN [silent EXCEPT ![c] = 0] ELSE silent
  /\ IF status[c] \in {"absent", "dead", s}
     THEN UNCHANGED <<status, job>>
     ELSE /\ status' = [status EXCEPT ![c] = s]
          /\ job' = [job EXCEPT ![t] = [client |-> c, status |-> s]]
  /\ UNCHANGED detail

\* set_status, until _clients is written.  The call ends here for a client
\* that is not listed or that has this status.
SetStatus(t, c, s) ==
  /\ silent' = IF c \in Listed /\ s # "dead" THEN [silent EXCEPT ![c] = 0] ELSE silent
  /\ IF status[c] \in {"absent", s}
     THEN UNCHANGED <<status, job>>
     ELSE /\ status' = [status EXCEPT ![c] = s]
          /\ job' = [job EXCEPT ![t] = [client |-> c, status |-> s]]
  /\ UNCHANGED detail

\* Mutant: the entry is written whether it is there or not.
EndWithoutLook(t) ==
  /\ job[t] # None
  /\ LET c == job[t].client
     IN detail' = [detail EXCEPT ![c] = job[t].status]
  /\ job' = [job EXCEPT ![t] = None]
  /\ UNCHANGED <<packageVars, status, silent, managerVars, processVars, events, echo>>

\* set_status, the rest: _clients_with_details is written, and for a dead
\* client the manager sends plugin.status itself.
EndSetStatus(t) ==
  /\ job[t] # None
  /\ LET c == job[t].client
         s == job[t].status
     IN /\ detail[c] # "absent"
        /\ detail' = [detail EXCEPT ![c] = s]
        /\ echo' = IF s = "dead" /\ c \in Plugins /\ echo[c] < MaxEcho
                   THEN [echo EXCEPT ![c] = @ + 1] ELSE echo
  /\ job' = [job EXCEPT ![t] = None]
  /\ UNCHANGED <<packageVars, status, silent, managerVars, processVars, events>>

\* The client was removed since: KeyError.  It ends the dead check thread; the
\* loop of the MQ thread logs it.
SetStatusFails(t) ==
  /\ job[t] # None
  /\ detail[job[t].client] = "absent"
  /\ job' = [job EXCEPT ![t] = None]
  /\ mq' = IF t = "mq" THEN Idle ELSE mq
  /\ checker' = IF t = "checker" THEN [checker EXCEPT !.at = "ended", !.todo = {}] ELSE checker
  /\ UNCHANGED <<packageVars, listVars, pkg, xpl_callback, watch, reply,
                 processVars, events, echo>>

-----------------------------------------------------------------------------
(* The MQ thread: events of the plugins and of the manager itself.         *)

\* Plugin.on_message for the next plugin.status event of p.
HandleEvent(p) ==
  /\ MqFree
  /\ events[p] # <<>>
  /\ events' = [events EXCEPT ![p] = Tail(@)]
  /\ LET s == Head(events[p]) IN
     IF p \in subscribed
     THEN /\ SetStatus("mq", p, s)
          /\ mq' = IF s = "stop-request" THEN [at |-> "watch", plugin |-> p] ELSE mq
     ELSE UNCHANGED <<listVars, job, mq>>
  /\ UNCHANGED <<packageVars, pkg, checker, xpl_callback, watch, reply, processVars, echo>>

\* Plugin.on_message for a dead event that the manager has sent.
HandleEcho(p) ==
  /\ MqFree
  /\ echo[p] > 0
  /\ echo' = [echo EXCEPT ![p] = @ - 1]
  /\ IF p \in subscribed THEN SetStatus("mq", p, "dead") ELSE UNCHANGED <<listVars, job>>
  /\ UNCHANGED <<packageVars, managerVars, processVars, events>>

\* Mutant: nobody looks whether the plugin stops.
NoWatch ==
  /\ mq.at = "watch" /\ job["mq"] = None
  /\ mq' = Idle
  /\ UNCHANGED <<packageVars, listVars, job, pkg, checker, xpl_callback, watch,
                 reply, processVars, events, echo>>

\* The status is set: a stop request starts the thread of _check_if_stopped.
StartWatch ==
  /\ mq.at = "watch" /\ job["mq"] = None
  /\ watch' = watch \cup {<<mq.plugin, born[mq.plugin]>>}
  /\ mq' = Idle
  /\ UNCHANGED <<packageVars, listVars, job, pkg, checker, xpl_callback, reply,
                 processVars, events, echo>>

Kill(p) ==
  IF process[p] = "none"
  THEN UNCHANGED <<process, own, beat>>
  ELSE /\ process' = [process EXCEPT ![p] = "none"]
       /\ own' = [own EXCEPT ![p] = "dead"]
       /\ beat' = [beat EXCEPT ![p] = None]

\* _check_if_stopped after WAIT_AFTER_STOP_REQUEST: SIGKILL for what runs.
CheckIfStopped(p, n) ==
  /\ <<p, n>> \in watch
  /\ watch' = watch \ {<<p, n>>}
  /\ Kill(p)
  /\ UNCHANGED <<packageVars, listVars, job, mq, pkg, checker, xpl_callback, reply,
                 born, events, echo>>

-----------------------------------------------------------------------------
(* The MQ thread: plugin.start.do.                                         *)

Answer(s, l) == reply' = [status |-> s, launched |-> l]

\* _mdp_reply_plugin_start for a plugin that is not in _plugins.
StartUnknown(p) ==
  /\ MqFree
  /\ p \notin plugins
  /\ reply = None
  /\ Answer(FALSE, FALSE)
  /\ UNCHANGED <<packageVars, listVars, job, mq, pkg, checker, xpl_callback, watch,
                 processVars, events, echo>>

\* Plugin.start: is_already_launched.
StartCheck(p) ==
  /\ MqFree
  /\ p \in plugins
  /\ born[p] < MaxStarts
  /\ IF process[p] = "none"
     THEN mq' = [at |-> "launch", plugin |-> p] /\ UNCHANGED reply
     ELSE Answer(FALSE, FALSE) /\ UNCHANGED mq
  /\ UNCHANGED <<packageVars, listVars, job, pkg, checker, xpl_callback, watch,
                 processVars, events, echo>>

\* exec_component: python runs the program of the package.  A process that
\* finds another one of the plugin leaves at once (BasePlugin.__init__).
CanLaunch(p) == p \in installed /\ process[p] = "none" /\ born[p] < MaxStarts

Launch(p) ==
  IF CanLaunch(p)
  THEN /\ process' = [process EXCEPT ![p] = "launched"]
       /\ born' = [born EXCEPT ![p] = @ + 1]
  ELSE UNCHANGED <<process, born>>

StartLaunch(p) ==
  /\ mq = [at |-> "launch", plugin |-> p]
  /\ Launch(p)
  /\ mq' = [at |-> IF CanLaunch(p) THEN "launched" ELSE "not_launched", plugin |-> p]
  /\ UNCHANGED <<packageVars, listVars, job, pkg, checker, xpl_callback, watch,
                 reply, own, beat, events, echo>>

\* set_pid and the reply.  A client that is not listed any more is a KeyError,
\* which is answered like a plugin that does not exist.
StartReply(p) ==
  /\ mq.at \in {"launched", "not_launched"}
  /\ mq.plugin = p
  /\ Answer(p \in Listed, mq.at = "launched")
  /\ mq' = Idle
  /\ UNCHANGED <<packageVars, listVars, job, pkg, checker, xpl_callback, watch,
                 processVars, events, echo>>

-----------------------------------------------------------------------------
(* The package thread: _check_available_packages.                          *)

pkgRest == <<installed, job, mq, checker, xpl_callback, watch, reply, events, echo>>

\* A round begins.  One that would find nothing to do is left out.
ListPackages ==
  /\ pkg.at = "wait"
  /\ plugins # installed
  /\ pkg' = [pkg EXCEPT !.at = "scan", !.seen = installed]
  /\ UNCHANGED <<pkgRest, plugins, subscribed, listVars, processVars>>

\* Mutant: the plugin is in _plugins before its automatic start.
RegisterFirst(p) ==
  /\ pkg.at = "scan"
  /\ p \in pkg.seen \ plugins
  /\ Add(p)
  /\ subscribed' = subscribed \cup {p}
  /\ plugins' = plugins \cup {p}
  /\ pkg' = IF p \in AutoStart THEN [pkg EXCEPT !.at = "check", !.plugin = p] ELSE pkg
  /\ UNCHANGED <<pkgRest, processVars>>

\* A new package: Plugin.__init__ registers the client and subscribes.
NewPlugin(p) ==
  /\ pkg.at = "scan"
  /\ p \in pkg.seen \ plugins
  /\ Add(p)
  /\ subscribed' = subscribed \cup {p}
  /\ IF p \in AutoStart
     THEN pkg' = [pkg EXCEPT !.at = "check", !.plugin = p] /\ UNCHANGED plugins
     ELSE plugins' = plugins \cup {p} /\ UNCHANGED pkg
  /\ UNCHANGED <<pkgRest, processVars>>

\* Plugin.__init__ starts the plugin: is_already_launched, ...
AutoCheck ==
  /\ pkg.at = "check"
  /\ IF process[pkg.plugin] = "none"
     THEN pkg' = [pkg EXCEPT !.at = "launch"] /\ UNCHANGED plugins
     ELSE /\ pkg' = [pkg EXCEPT !.at = "scan", !.plugin = None]
          /\ plugins' = plugins \cup {pkg.plugin}
  /\ UNCHANGED <<pkgRest, subscribed, listVars, processVars>>

\* ... exec_component and set_pid.  Then the object is put in _plugins.
AutoLaunch ==
  /\ pkg.at = "launch"
  /\ Launch(pkg.plugin)
  /\ pkg' = [pkg EXCEPT !.at = "scan", !.plugin = None]
  /\ plugins' = plugins \cup {pkg.plugin}
  /\ UNCHANGED <<pkgRest, subscribed, listVars, own, beat>>

\* A package that is gone.  Its Plugin object stays subscribed.
Unregister(p) ==
  /\ pkg.at = "scan"
  /\ pkg.seen \subseteq plugins
  /\ p \in plugins \ pkg.seen
  /\ Remove(p)
  /\ plugins' = plugins \ {p}
  /\ UNCHANGED <<pkgRest, pkg, subscribed, processVars>>

EndPackages ==
  /\ pkg.at = "scan"
  /\ pkg.seen = plugins
  /\ pkg' = [pkg EXCEPT !.at = "wait"]
  /\ UNCHANGED <<pkgRest, plugins, subscribed, listVars, processVars>>

\* Packages are put on the disk and removed from it.
ChangePackages(p) ==
  /\ p \in installed => p \in Removable
  /\ installed' = IF p \in installed THEN installed \ {p} ELSE installed \cup {p}
  /\ UNCHANGED <<plugins, subscribed, listVars, job, managerVars, processVars, events, echo>>

-----------------------------------------------------------------------------
(* The dead check thread: _check_dead_clients.                             *)

checkerRest == <<packageVars, mq, pkg, xpl_callback, watch, reply, processVars, events, echo>>

StartRound ==
  /\ checker.at = "wait"
  /\ checker' = [checker EXCEPT !.at = "round", !.todo = Listed, !.size = Cardinality(Listed)]
  /\ UNCHANGED <<checkerRest, listVars, job>>

\* The loop goes on to the next client, whose status and last_seen are read.
Visit(c) ==
  /\ checker.at = "round" /\ job["checker"] = None
  /\ Cardinality(Listed) = checker.size
  /\ c \in checker.todo
  /\ IF status[c] \in Monitored(c) /\ silent[c] > DeadAfter[c]
     THEN checker' = [checker EXCEPT !.at = "declare", !.todo = @ \ {c}, !.target = c]
     ELSE checker' = [checker EXCEPT !.todo = @ \ {c}]
  /\ UNCHANGED <<checkerRest, listVars, job>>

Declare ==
  /\ checker.at = "declare"
  /\ SetStatus("checker", checker.target, "dead")
  /\ checker' = [checker EXCEPT !.at = "round", !.target = None]
  /\ UNCHANGED checkerRest

\* The dictionary has another size than at the beginning of the loop:
\* RuntimeError, which ends the thread.
RoundFails ==
  /\ checker.at = "round" /\ job["checker"] = None
  /\ Cardinality(Listed) # checker.size
  /\ checker' = [checker EXCEPT !.at = "ended", !.todo = {}]
  /\ UNCHANGED <<checkerRest, listVars, job>>

EndRound ==
  /\ checker.at = "round" /\ job["checker"] = None
  /\ Cardinality(Listed) = checker.size
  /\ checker.todo = {}
  /\ checker' = [checker EXCEPT !.at = "wait"]
  /\ UNCHANGED <<checkerRest, listVars, job>>

-----------------------------------------------------------------------------
(* The callback threads of xPL heartbeats: _register_xpl_client.           *)

xplRest == <<packageVars, mq, pkg, checker, watch, reply, processVars, events, echo>>

\* Mutant: a client that is known is not added again.
XplAddOnce(c) ==
  /\ c \in XplClients \ xpl_callback
  /\ job[c] = None
  /\ IF c \in Listed THEN UNCHANGED listVars ELSE Add(c)
  /\ xpl_callback' = xpl_callback \cup {c}
  /\ UNCHANGED <<xplRest, job>>

\* The client is added, again if it is known: its status is stopped meanwhile.
XplAdd(c) ==
  /\ c \in XplClients \ xpl_callback
  /\ job[c] = None
  /\ Add(c)
  /\ xpl_callback' = xpl_callback \cup {c}
  /\ UNCHANGED <<xplRest, job>>

XplAlive(c) ==
  /\ c \in xpl_callback
  /\ SetStatus(c, c, "alive")
  /\ xpl_callback' = xpl_callback \ {c}
  /\ UNCHANGED xplRest

-----------------------------------------------------------------------------
(* The plugin processes.                                                   *)

processRest == <<packageVars, listVars, job, managerVars, born, echo>>

\* _set_status in the main thread: _status is set and sent.
Publish(p, s) ==
  /\ own' = [own EXCEPT ![p] = s]
  /\ events' = [events EXCEPT ![p] = Append(@, s)]

Go(p, from, to) ==
  /\ process[p] \in from
  /\ process' = [process EXCEPT ![p] = to]

\* Plugin.__init__: the status is sent and the heartbeat thread starts.
ProcessInit(p) ==
  /\ Go(p, {"launched"}, "booting")
  /\ Publish(p, "starting")
  /\ UNCHANGED <<processRest, beat>>

\* ready.
Ready(p) ==
  /\ Go(p, {"booting"}, "running")
  /\ Publish(p, "alive")
  /\ UNCHANGED <<processRest, beat>>

\* check_configured fails: force_leave(status = STATUS_NOT_CONFIGURED).
NotConfigured(p) ==
  /\ Go(p, {"booting"}, "refused")
  /\ Publish(p, "not-configured")
  /\ UNCHANGED <<processRest, beat>>

\* plugin.stop.do: the request is answered and the status is sent.
ClientStop(p) ==
  /\ Go(p, {"running"}, "leaving")
  /\ Publish(p, "stop-request")
  /\ UNCHANGED <<processRest, beat>>

\* force_leave: the status is sent and the threads are told to stop.
ForceLeave(p) ==
  /\ Go(p, {"refused", "leaving"}, "closing")
  /\ Publish(p, "stopped")
  /\ UNCHANGED <<processRest, beat>>

\* All the threads are joined and the process leaves.  It may also hang here.
Exit(p) ==
  /\ Go(p, {"closing"}, "none")
  /\ beat[p] = None
  /\ UNCHANGED <<processRest, own, beat, events>>

\* The process is killed by somebody else.
Crash(p) ==
  /\ process[p] # "none"
  /\ Kill(p)
  /\ UNCHANGED <<processRest, events>>

\* _send_status_loop: _status is read, ...
BeatRead(p) ==
  /\ process[p] \in {"booting", "running", "leaving"}
  /\ beat[p] = None
  /\ beat' = [beat EXCEPT ![p] = own[p]]
  /\ UNCHANGED <<processRest, process, own, events>>

\* ... and sent, which the main thread may have overtaken.
BeatSend(p) ==
  /\ beat[p] # None
  /\ Len(events[p]) < MaxQueue
  /\ events' = [events EXCEPT ![p] = Append(@, beat[p])]
  /\ beat' = [beat EXCEPT ![p] = None]
  /\ UNCHANGED <<processRest, process, own>>

\* A heartbeat period goes by.  last_seen matters for monitored clients only.
Tick ==
  /\ silent' = [c \in Clients |->
       IF status[c] \notin Monitored(c) \/ silent[c] > DeadAfter[c] THEN silent[c] ELSE silent[c] + 1]
  /\ silent' # silent
  /\ UNCHANGED <<packageVars, status, detail, job, managerVars, processVars, events, echo>>

-----------------------------------------------------------------------------
MqThread ==
  \/ EndSetStatus("mq") \/ SetStatusFails("mq") \/ StartWatch
  \/ \E p \in Plugins : HandleEvent(p) \/ HandleEcho(p) \/ StartLaunch(p) \/ StartReply(p)

PackageThread ==
  \/ ListPackages \/ AutoCheck \/ AutoLaunch \/ EndPackages
  \/ \E p \in Plugins : NewPlugin(p) \/ Unregister(p)

CheckThread ==
  \/ StartRound \/ Declare \/ RoundFails \/ EndRound
  \/ EndSetStatus("checker") \/ SetStatusFails("checker")
  \/ \E c \in Clients : Visit(c)

XplThread(c) == XplAlive(c) \/ EndSetStatus(c)

Process(p) == ProcessInit(p) \/ Ready(p) \/ ForceLeave(p) \/ BeatRead(p) \/ BeatSend(p)

Next ==
  \/ MqThread \/ PackageThread \/ CheckThread \/ Tick
  \/ \E p \in Plugins : \E n \in 1..MaxStarts : CheckIfStopped(p, n)
  \/ \E p \in Plugins :
       \/ StartUnknown(p) \/ StartCheck(p) \/ ChangePackages(p)
       \/ Process(p) \/ NotConfigured(p) \/ ClientStop(p) \/ Exit(p) \/ Crash(p)
  \/ \E c \in XplClients : XplAdd(c) \/ XplThread(c)

Spec == Init /\ [][Next]_vars

\* The threads run, and a socket that keeps having events is served again and
\* again.  Nobody has to start, stop, kill or install anything, and a process
\* that closes may hang.
Fairness ==
  /\ WF_vars(MqThread) /\ WF_vars(PackageThread) /\ WF_vars(CheckThread) /\ WF_vars(Tick)
  /\ \A c \in XplClients : WF_vars(XplThread(c))
  /\ \A p \in Plugins :
       /\ SF_vars(HandleEvent(p)) /\ SF_vars(HandleEcho(p))
       /\ WF_vars(ProcessInit(p)) /\ WF_vars(Ready(p) \/ NotConfigured(p))
       /\ WF_vars(ForceLeave(p)) /\ WF_vars(BeatRead(p)) /\ WF_vars(BeatSend(p))
       /\ \A n \in 1..MaxStarts : WF_vars(CheckIfStopped(p, n))

FairSpec == Spec /\ Fairness

-----------------------------------------------------------------------------
(* Properties.                                                             *)

JobType == [client : Clients, status : Status]

\* Every variable keeps its type (the structures of manager.py).
TypeOK ==
  /\ installed \subseteq Plugins /\ plugins \subseteq Plugins /\ subscribed \subseteq Plugins
  /\ status \in [Clients -> Status \cup {"absent"}]
  /\ detail \in [Clients -> Status \cup {"absent"}]
  /\ silent \in [Clients -> Nat]
  /\ job \in [Threads -> JobType \cup {None}]
  /\ mq \in [at : {"idle", "watch", "launch", "launched", "not_launched"}, plugin : Plugins \cup {None}]
  /\ pkg \in [at : {"wait", "scan", "check", "launch"}, seen : SUBSET Plugins,
              plugin : Plugins \cup {None}]
  /\ checker \in [at : {"wait", "round", "declare", "ended"}, todo : SUBSET Clients,
                  size : Nat, target : Clients \cup {None}]
  /\ xpl_callback \subseteq XplClients
  /\ watch \subseteq Plugins \X (1..MaxStarts)
  /\ process \in [Plugins -> ProcessState]
  /\ own \in [Plugins -> Status]
  /\ beat \in [Plugins -> Status \cup {None}]
  /\ born \in [Plugins -> 0..MaxStarts]
  /\ events \in [Plugins -> Seq(Status)]
  /\ echo \in [Plugins -> 0..MaxEcho]
  /\ reply \in [status : BOOLEAN, launched : BOOLEAN] \cup {None}

\* The two dictionaries have the same clients: a set_status that a removal has
\* overtaken does not bring half of the client back (remove, set_status).
KeysAgree == \A c \in Clients : status[c] = "absent" <=> detail[c] = "absent"

\* The MQ thread and the package thread never run the program of one plugin at
\* the same time: a plugin gets into _plugins after its automatic start
\* (Plugin.__init__, _check_available_packages).
LaunchesAreExclusive ==
  ~ (mq.at = "launch" /\ pkg.at = "launch" /\ mq.plugin = pkg.plugin)

\* A plugin that disappears does not keep a status that says it runs
\* (_check_dead_clients).
CrashIsNoticed ==
  \A p \in Plugins :
    (process[p] = "none" /\ status[p] \in {"starting", "alive", "stop-request"})
      ~> (process[p] # "none" \/ status[p] \notin {"starting", "alive", "stop-request"})

\* A plugin that goes on running is shown alive again and again, whatever the
\* dead check has said of it (set_status, Plugin.on_message).
RunningIsShown ==
  \A p \in Plugins : <>[](process[p] = "running") => []<>(status[p] = "alive")

\* A plugin that was asked to stop does leave, even when it hangs while it
\* closes (_check_if_stopped).
StopEndsTheProcess ==
  \A p \in Plugins : process[p] = "leaving" ~> process[p] = "none"

\* An xPL client that goes on sending heartbeats, and in time, is shown alive in
\* both lists again and again, whatever the dead check said of it before: the
\* add of _register_xpl_client repairs what concurrent set_status left behind.
XplIsShown ==
  \A c \in XplClients :
    []<>(c \in xpl_callback) /\ <>[](silent[c] <= DeadAfter[c])
      => []<>(status[c] = "alive" /\ detail[c] = "alive")

=============================================================================
