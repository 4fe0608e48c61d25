------------------------- MODULE ClientRegistryProofs -------------------------
(***************************************************************************)
(* Proofs about the clients list, for any plugins and xPL clients.         *)
(***************************************************************************)
EXTENDS ClientRegistry, FiniteSetTheorems, TLAPS

\* The types of the shared lists and of the threads' set_status calls.
ListType ==
  /\ installed \subseteq Plugins /\ plugins \subseteq Plugins /\ subscribed \subseteq Plugins
  /\ status \in [Clients -> Status \cup {"absent"}]
  /\ detail \in [Clients -> Status \cup {"absent"}]
  /\ silent \in [Clients -> Nat]
  /\ job \in [Threads -> JobType \cup {None}]

\* The types of the manager's threads.
ThreadType ==
  /\ mq \in [at : {"idle", "watch", "launch", "launched", "not_launched"}, plugin : Plugins \cup {None}]
  /\ pkg \in [at : {"wait", "scan", "check", "launch"}, seen : SUBSET Plugins,
              plugin : Plugins \cup {None}]
  /\ checker \in [at : {"wait", "round", "declare", "ended"}, todo : SUBSET Clients,
                  size : Nat, target : Clients \cup {None}]
  /\ xpl_callback \subseteq XplClients
  /\ watch \subseteq Plugins \X (1..MaxStarts)
  /\ reply \in [status : BOOLEAN, launched : BOOLEAN] \cup {None}

\* The types of the processes and of what they have sent.
ProcessType ==
  /\ process \in [Plugins -> ProcessState]
  /\ own \in [Plugins -> Status]
  /\ beat \in [Plugins -> Status \cup {None}]
  /\ born \in [Plugins -> 0..MaxStarts]
  /\ events \in [Plugins -> Seq(Status)]
  /\ echo \in [Plugins -> 0..MaxEcho]

\* What is on its way from a plugin comes from a process that was started.
BornInv ==
  /\ \A p \in Plugins :
       process[p] # "none" \/ beat[p] # None \/ events[p] # <<>> => born[p] \in 1..MaxStarts
  /\ mq.at = "watch" => born[mq.plugin] \in 1..MaxStarts

\* A thread that is in the middle of an operation knows for whom.
TargetInv ==
  /\ mq.at # "idle" => mq.plugin \in Plugins
  /\ pkg.at \in {"check", "launch"} => pkg.plugin \in Plugins
  /\ checker.at = "declare" => checker.target \in Clients

\* While no package is removed plugins are registered once and for all, and the one
\* that the package thread starts is not registered yet.
StableInv ==
  Removable = {} =>
    /\ plugins \subseteq installed /\ pkg.seen \subseteq installed
    /\ pkg.at # "wait" => plugins \subseteq pkg.seen
    /\ pkg.at \in {"check", "launch"} => pkg.plugin \in pkg.seen \ plugins
    /\ mq.at \in {"launch", "launched", "not_launched"} => mq.plugin \in plugins
    /\ plugins \subseteq Listed
    /\ pkg.at \in {"check", "launch"} => pkg.plugin \in Listed

\* The inductive invariant.
IInv == ListType /\ ThreadType /\ ProcessType /\ BornInv /\ TargetInv /\ KeysAgree /\ StableInv

\* The parts are the type invariant of the specification.
LEMMA TypeParts == ListType /\ ThreadType /\ ProcessType <=> TypeOK
  BY DEF ListType, ThreadType, ProcessType, TypeOK

-----------------------------------------------------------------------------
\* set_status leaves the keys of _clients alone.
LEMMA SetStatusKeeps ==
  ASSUME NEW t \in Threads, NEW c \in Clients, NEW s \in Status, ListType, SetStatus(t, c, s)
  PROVE  /\ status' \in [Clients -> Status \cup {"absent"}]
         /\ silent' \in [Clients -> Nat]
         /\ job' \in [Threads -> JobType \cup {None}]
         /\ detail' = detail
         /\ \A d \in Clients : status'[d] = "absent" <=> status[d] = "absent"
<1> USE DEF ListType, SetStatus
<1>1. silent' \in [Clients -> Nat] /\ detail' = detail
  OBVIOUS
<1>2. CASE status[c] \in {"absent", s}
  BY <1>1, <1>2
<1>3. CASE status[c] \notin {"absent", s}
  <2>1. status' = [status EXCEPT ![c] = s] /\ status[c] # "absent" /\ s # "absent"
    BY <1>3 DEF Status
  <2>2. job' = [job EXCEPT ![t] = [client |-> c, status |-> s]]
    BY <1>3
  <2>3. [client |-> c, status |-> s] \in JobType
    BY DEF JobType
  <2> QED
    BY <1>1, <2>1, <2>2, <2>3
<1> QED
  BY <1>2, <1>3

\* exec_component starts at most one more process, of this plugin.
LEMMA LaunchKeeps ==
  ASSUME NEW p \in Plugins, ProcessType, BornInv, Launch(p)
  PROVE  /\ process' \in [Plugins -> ProcessState]
         /\ born' \in [Plugins -> 0..MaxStarts]
         /\ \A q \in Plugins : born[q] \in 1..MaxStarts => born'[q] \in 1..MaxStarts
         /\ \A q \in Plugins : process'[q] # "none" => born'[q] \in 1..MaxStarts
<1> USE ClientAssumption DEF ProcessType
<1>1. CASE ~ CanLaunch(p)
  BY <1>1 DEF Launch, BornInv
<1>2. CASE CanLaunch(p)
  <2>1. process' = [process EXCEPT ![p] = "launched"] /\ born' = [born EXCEPT ![p] = @ + 1]
    BY <1>2 DEF Launch
  <2>2. born[p] + 1 \in 1..MaxStarts
    BY <1>2 DEF CanLaunch
  <2>3. process' \in [Plugins -> ProcessState]
    BY <2>1 DEF ProcessState
  <2>4. born' \in [Plugins -> 0..MaxStarts]
    BY <2>1, <2>2
  <2>5. \A q \in Plugins : q # p => process'[q] = process[q] /\ born'[q] = born[q]
    BY <2>1
  <2>6. born'[p] \in 1..MaxStarts
    BY <2>1, <2>2
  <2> QED
    BY <2>3, <2>4, <2>5, <2>6 DEF BornInv
<1> QED
  BY <1>1, <1>2

\* An event on its way carries a status.
LEMMA EventsAreStatuses ==
  ASSUME ProcessType, NEW p \in Plugins, events[p] # <<>>
  PROVE  Head(events[p]) \in Status /\ Tail(events[p]) \in Seq(Status)
<1>1. events[p] \in Seq(Status)
  BY DEF ProcessType
<1> HIDE DEF Status
<1> QED
  BY <1>1

-----------------------------------------------------------------------------
\* The initial state satisfies the invariant.
LEMMA InitInv == Init => IInv
<1> SUFFICES ASSUME Init PROVE IInv
  OBVIOUS
<1> USE ClientAssumption DEF Init
<1>1. ListType
  BY DEF ListType, Clients, Threads, Status
<1>2. ThreadType
  BY DEF ThreadType, Idle
<1>3. ProcessType
  BY DEF ProcessType, ProcessState, Status
<1>4. BornInv /\ TargetInv
  BY DEF BornInv, TargetInv, Idle
<1>5. KeysAgree
  BY DEF KeysAgree
<1>6. StableInv
  BY DEF StableInv, Listed, Idle, Clients
<1> QED
  BY <1>1, <1>2, <1>3, <1>4, <1>5, <1>6 DEF IInv

\* Every step keeps the types of the lists.
LEMMA ListTypeStep == IInv /\ [Next]_vars => ListType'
<1> SUFFICES ASSUME IInv, [Next]_vars
             PROVE  ListType'
  OBVIOUS
<1> USE ClientAssumption DEF IInv, ListType, ThreadType, TargetInv, Clients, Threads, JobType, Status, Idle,
       packageVars, listVars, managerVars, processVars
<1>1. ASSUME NEW t \in Threads, EndSetStatus(t) PROVE ListType'
  BY <1>1 DEF EndSetStatus
<1>2. ASSUME NEW t \in Threads, SetStatusFails(t) PROVE ListType'
  BY <1>2 DEF SetStatusFails
<1>3. ASSUME StartWatch PROVE ListType'
  BY <1>3 DEF StartWatch
<1>4. ASSUME NEW p \in Plugins, HandleEvent(p) PROVE ListType'
  <2>1. events[p] # <<>> /\ Head(events[p]) \in Status
    BY <1>4, EventsAreStatuses DEF HandleEvent
  <2>2. CASE p \in subscribed
    <3>1. SetStatus("mq", p, Head(events[p]))
      BY <1>4, <2>2 DEF HandleEvent
    <3>2. "mq" \in Threads /\ p \in Clients
      BY DEF Threads, Clients
    <3>3. ListType
      BY DEF IInv
    <3>4. /\ status' \in [Clients -> Status \cup {"absent"}]
          /\ silent' \in [Clients -> Nat]
          /\ job' \in [Threads -> JobType \cup {None}]
          /\ detail' = detail
          /\ \A d \in Clients : status'[d] = "absent" <=> status[d] = "absent"
      BY ONLY <2>1, <3>1, <3>2, <3>3, SetStatusKeeps
    <3> QED
      BY <1>4, <3>4 DEF HandleEvent
  <2>3. CASE p \notin subscribed
    BY <1>4, <2>3 DEF HandleEvent
  <2> QED
    BY <2>2, <2>3
<1>5. ASSUME NEW p \in Plugins, HandleEcho(p) PROVE ListType'
  <2>1. CASE p \in subscribed
    <3>1. SetStatus("mq", p, "dead")
      BY <1>5, <2>1 DEF HandleEcho
    <3> QED
      BY <1>5, <3>1, SetStatusKeeps DEF HandleEcho
  <2>2. CASE p \notin subscribed
    BY <1>5, <2>2 DEF HandleEcho
  <2> QED
    BY <2>1, <2>2
<1>6. ASSUME NEW p \in Plugins, NEW n \in 1..MaxStarts, CheckIfStopped(p, n) PROVE ListType'
  BY <1>6 DEF CheckIfStopped, Kill
<1>7. ASSUME NEW p \in Plugins, StartUnknown(p) PROVE ListType'
  BY <1>7 DEF StartUnknown, Answer
<1>8. ASSUME NEW p \in Plugins, StartCheck(p) PROVE ListType'
  BY <1>8 DEF StartCheck, Answer
<1>9. ASSUME NEW p \in Plugins, StartLaunch(p) PROVE ListType'
  BY <1>9 DEF StartLaunch, Launch, CanLaunch
<1>10. ASSUME NEW p \in Plugins, StartReply(p) PROVE ListType'
  BY <1>10 DEF StartReply, Answer
<1>11. ASSUME ListPackages PROVE ListType'
  BY <1>11 DEF ListPackages, pkgRest
<1>12. ASSUME NEW p \in Plugins, NewPlugin(p) PROVE ListType'
  BY <1>12 DEF NewPlugin, Add, pkgRest
<1>13. ASSUME AutoCheck PROVE ListType'
  BY <1>13 DEF AutoCheck, pkgRest
<1>14. ASSUME AutoLaunch PROVE ListType'
  BY <1>14 DEF AutoLaunch, Launch, CanLaunch, pkgRest
<1>15. ASSUME NEW p \in Plugins, Unregister(p) PROVE ListType'
  BY <1>15 DEF Unregister, Remove, pkgRest
<1>16. ASSUME EndPackages PROVE ListType'
  BY <1>16 DEF EndPackages, pkgRest
<1>17. ASSUME NEW p \in Plugins, ChangePackages(p) PROVE ListType'
  BY <1>17 DEF ChangePackages
<1>18. ASSUME StartRound PROVE ListType'
  BY <1>18 DEF StartRound, checkerRest
<1>19. ASSUME NEW c \in Clients, Visit(c) PROVE ListType'
  BY <1>19 DEF Visit, checkerRest
<1>20. ASSUME Declare PROVE ListType'
  BY <1>20 DEF Declare, SetStatus, checkerRest
<1>21. ASSUME RoundFails PROVE ListType'
  BY <1>21 DEF RoundFails, checkerRest
<1>22. ASSUME EndRound PROVE ListType'
  BY <1>22 DEF EndRound, checkerRest
<1>23. ASSUME NEW c \in XplClients, XplAdd(c) PROVE ListType'
  BY <1>23 DEF XplAdd, Add, xplRest
<1>24. ASSUME NEW c \in XplClients, XplAlive(c) PROVE ListType'
  <2>1. SetStatus(c, c, "alive") /\ c \in Clients
    BY <1>24 DEF XplAlive
  <2> QED
    BY <1>24, <2>1, SetStatusKeeps DEF XplAlive, xplRest
<1>25. ASSUME NEW p \in Plugins, ProcessInit(p) PROVE ListType'
  BY <1>25 DEF ProcessInit, Go, Publish, processRest
<1>26. ASSUME NEW p \in Plugins, Ready(p) PROVE ListType'
  BY <1>26 DEF Ready, Go, Publish, processRest
<1>27. ASSUME NEW p \in Plugins, NotConfigured(p) PROVE ListType'
  BY <1>27 DEF NotConfigured, Go, Publish, processRest
<1>28. ASSUME NEW p \in Plugins, ClientStop(p) PROVE ListType'
  BY <1>28 DEF ClientStop, Go, Publish, processRest
<1>29. ASSUME NEW p \in Plugins, ForceLeave(p) PROVE ListType'
  BY <1>29 DEF ForceLeave, Go, Publish, processRest
<1>30. ASSUME NEW p \in Plugins, Exit(p) PROVE ListType'
  BY <1>30 DEF Exit, Go, processRest
<1>31. ASSUME NEW p \in Plugins, Crash(p) PROVE ListType'
  BY <1>31 DEF Crash, Kill, processRest
<1>32. ASSUME NEW p \in Plugins, BeatRead(p) PROVE ListType'
  BY <1>32 DEF BeatRead, processRest
<1>33. ASSUME NEW p \in Plugins, BeatSend(p) PROVE ListType'
  BY <1>33 DEF BeatSend, processRest
<1>34. ASSUME Tick PROVE ListType'
  BY <1>34 DEF Tick
<1>35. ASSUME UNCHANGED vars PROVE ListType'
  BY <1>35 DEF vars
<1>36. ASSUME MqThread PROVE ListType'
  BY <1>36, <1>1, <1>2, <1>3, <1>4, <1>5, <1>9, <1>10 DEF MqThread, Threads
<1>37. ASSUME PackageThread PROVE ListType'
  BY <1>37, <1>11, <1>12, <1>13, <1>14, <1>15, <1>16 DEF PackageThread
<1>38. ASSUME CheckThread PROVE ListType'
  BY <1>38, <1>1, <1>2, <1>18, <1>19, <1>20, <1>21, <1>22 DEF CheckThread, Threads
<1>39. ASSUME NEW p \in Plugins, Process(p) PROVE ListType'
  BY <1>39, <1>25, <1>26, <1>29, <1>32, <1>33 DEF Process
<1>40. ASSUME NEW c \in XplClients, XplThread(c) PROVE ListType'
  BY <1>40, <1>1, <1>24 DEF XplThread, Threads
<1> QED
  BY <1>36, <1>37, <1>38, <1>39, <1>40, <1>6, <1>7, <1>8, <1>17, <1>23, <1>27, <1>28, <1>30, <1>31, <1>34, <1>35
  DEF Next

\* Every step keeps the types of the threads.
LEMMA ThreadTypeStep == IInv /\ [Next]_vars => ThreadType'
<1> SUFFICES ASSUME IInv, [Next]_vars
             PROVE  ThreadType'
  OBVIOUS
<1> USE ClientAssumption DEF IInv, ThreadType, BornInv, TargetInv, Idle, packageVars, listVars, managerVars, processVars
<1>1. ASSUME NEW t \in Threads, EndSetStatus(t) PROVE ThreadType'
  BY <1>1 DEF EndSetStatus
<1>2. ASSUME NEW t \in Threads, SetStatusFails(t) PROVE ThreadType'
  BY <1>2 DEF SetStatusFails
<1>3. ASSUME StartWatch PROVE ThreadType'
  BY <1>3 DEF StartWatch
<1>4. ASSUME NEW p \in Plugins, HandleEvent(p) PROVE ThreadType'
  BY <1>4 DEF HandleEvent, SetStatus, MqFree, Idle
<1>5. ASSUME NEW p \in Plugins, HandleEcho(p) PROVE ThreadType'
  BY <1>5 DEF HandleEcho, SetStatus, MqFree
<1>6. ASSUME NEW p \in Plugins, NEW n \in 1..MaxStarts, CheckIfStopped(p, n) PROVE ThreadType'
  BY <1>6 DEF CheckIfStopped, Kill
<1>7. ASSUME NEW p \in Plugins, StartUnknown(p) PROVE ThreadType'
  BY <1>7 DEF StartUnknown, Answer
<1>8. ASSUME NEW p \in Plugins, StartCheck(p) PROVE ThreadType'
  <2>1. CASE process[p] = "none"
    BY <1>8, <2>1 DEF StartCheck
  <2>2. CASE process[p] # "none"
    <3>1. reply' = [status |-> FALSE, launched |-> FALSE]
      BY <1>8, <2>2 DEF StartCheck, Answer
    <3>2. reply' \in [status : BOOLEAN, launched : BOOLEAN] \cup {None}
      BY <3>1
    <3> QED
      BY <1>8, <2>2, <3>2 DEF StartCheck
  <2> QED
    BY <2>1, <2>2
<1>9. ASSUME NEW p \in Plugins, StartLaunch(p) PROVE ThreadType'
  BY <1>9 DEF StartLaunch, Launch, CanLaunch
<1>10. ASSUME NEW p \in Plugins, StartReply(p) PROVE ThreadType'
  BY <1>10 DEF StartReply, Answer
<1>11. ASSUME ListPackages PROVE ThreadType'
  <2>1. pkg' = [pkg EXCEPT !.at = "scan", !.seen = installed] /\ installed \in SUBSET Plugins
    BY <1>11 DEF ListPackages, ListType
  <2>2. pkg' \in [at : {"wait", "scan", "check", "launch"}, seen : SUBSET Plugins,
                 plugin : Plugins \cup {None}]
    BY <2>1
  <2> QED
    BY <1>11, <2>2 DEF ListPackages, pkgRest
<1>12. ASSUME NEW p \in Plugins, NewPlugin(p) PROVE ThreadType'
  <2>1. UNCHANGED <<mq, checker, xpl_callback, watch, reply>>
    BY <1>12 DEF NewPlugin, pkgRest
  <2>2. pkg' = pkg \/ pkg' = [pkg EXCEPT !.at = "check", !.plugin = p]
    BY <1>12 DEF NewPlugin
  <2>3. pkg' \in [at : {"wait", "scan", "check", "launch"}, seen : SUBSET Plugins,
                 plugin : Plugins \cup {None}]
    BY <2>2
  <2> QED
    BY <2>1, <2>3
<1>13. ASSUME AutoCheck PROVE ThreadType'
  <2>1. UNCHANGED <<mq, checker, xpl_callback, watch, reply>>
    BY <1>13 DEF AutoCheck, pkgRest
  <2>2. pkg' \in {[pkg EXCEPT !.at = "launch"], [pkg EXCEPT !.at = "scan", !.plugin = None]}
    BY <1>13 DEF AutoCheck
  <2>3. pkg' \in [at : {"wait", "scan", "check", "launch"}, seen : SUBSET Plugins,
                 plugin : Plugins \cup {None}]
    BY <2>2
  <2> QED
    BY <2>1, <2>3
<1>14. ASSUME AutoLaunch PROVE ThreadType'
  BY <1>14 DEF AutoLaunch, Launch, CanLaunch, pkgRest
<1>15. ASSUME NEW p \in Plugins, Unregister(p) PROVE ThreadType'
  BY <1>15 DEF Unregister, Remove, pkgRest
<1>16. ASSUME EndPackages PROVE ThreadType'
  BY <1>16 DEF EndPackages, pkgRest
<1>17. ASSUME NEW p \in Plugins, ChangePackages(p) PROVE ThreadType'
  BY <1>17 DEF ChangePackages
<1>18. ASSUME StartRound PROVE ThreadType'
  <2>1. Listed \subseteq Clients /\ Cardinality(Listed) \in Nat
    BY FS_Subset, FS_CardinalityType DEF Listed
  <2>2. checker' = [checker EXCEPT !.at = "round", !.todo = Listed, !.size = Cardinality(Listed)]
    BY <1>18 DEF StartRound
  <2>3. checker' \in [at : {"wait", "round", "declare", "ended"}, todo : SUBSET Clients,
                     size : Nat, target : Clients \cup {None}]
    BY <2>1, <2>2
  <2> QED
    BY <1>18, <2>3 DEF StartRound, checkerRest
<1>19. ASSUME NEW c \in Clients, Visit(c) PROVE ThreadType'
  <2>1. CASE status[c] \in Monitored(c) /\ silent[c] > DeadAfter[c]
    <3>1. checker' = [checker EXCEPT !.at = "declare", !.todo = checker.todo \ {c}, !.target = c]
      BY <1>19, <2>1 DEF Visit
    <3> QED
      BY <1>19, <3>1 DEF Visit, checkerRest
  <2>2. CASE ~ (status[c] \in Monitored(c) /\ silent[c] > DeadAfter[c])
    <3>1. checker' = [checker EXCEPT !.todo = checker.todo \ {c}]
      BY <1>19, <2>2 DEF Visit
    <3> QED
      BY <1>19, <3>1 DEF Visit, checkerRest
  <2> QED
    BY <2>1, <2>2
<1>20. ASSUME Declare PROVE ThreadType'
  BY <1>20 DEF Declare, SetStatus, checkerRest
<1>21. ASSUME RoundFails PROVE ThreadType'
  BY <1>21 DEF RoundFails, checkerRest
<1>22. ASSUME EndRound PROVE ThreadType'
  BY <1>22 DEF EndRound, checkerRest
<1>23. ASSUME NEW c \in XplClients, XplAdd(c) PROVE ThreadType'
  BY <1>23 DEF XplAdd, Add, xplRest
<1>24. ASSUME NEW c \in XplClients, XplAlive(c) PROVE ThreadType'
  BY <1>24 DEF XplAlive, SetStatus, xplRest
<1>25. ASSUME NEW p \in Plugins, ProcessInit(p) PROVE ThreadType'
  BY <1>25 DEF ProcessInit, Go, Publish, processRest
<1>26. ASSUME NEW p \in Plugins, Ready(p) PROVE ThreadType'
  BY <1>26 DEF Ready, Go, Publish, processRest
<1>27. ASSUME NEW p \in Plugins, NotConfigured(p) PROVE ThreadType'
  BY <1>27 DEF NotConfigured, Go, Publish, processRest
<1>28. ASSUME NEW p \in Plugins, ClientStop(p) PROVE ThreadType'
  BY <1>28 DEF ClientStop, Go, Publish, processRest
<1>29. ASSUME NEW p \in Plugins, ForceLeave(p) PROVE ThreadType'
  BY <1>29 DEF ForceLeave, Go, Publish, processRest
<1>30. ASSUME NEW p \in Plugins, Exit(p) PROVE ThreadType'
  BY <1>30 DEF Exit, Go, processRest
<1>31. ASSUME NEW p \in Plugins, Crash(p) PROVE ThreadType'
  BY <1>31 DEF Crash, Kill, processRest
<1>32. ASSUME NEW p \in Plugins, BeatRead(p) PROVE ThreadType'
  BY <1>32 DEF BeatRead, processRest
<1>33. ASSUME NEW p \in Plugins, BeatSend(p) PROVE ThreadType'
  BY <1>33 DEF BeatSend, processRest
<1>34. ASSUME Tick PROVE ThreadType'
  BY <1>34 DEF Tick
<1>35. ASSUME UNCHANGED vars PROVE ThreadType'
  BY <1>35 DEF vars
<1>36. ASSUME MqThread PROVE ThreadType'
  BY <1>36, <1>1, <1>2, <1>3, <1>4, <1>5, <1>9, <1>10 DEF MqThread, Threads
<1>37. ASSUME PackageThread PROVE ThreadType'
  BY <1>37, <1>11, <1>12, <1>13, <1>14, <1>15, <1>16 DEF PackageThread
<1>38. ASSUME CheckThread PROVE ThreadType'
  BY <1>38, <1>1, <1>2, <1>18, <1>19, <1>20, <1>21, <1>22 DEF CheckThread, Threads
<1>39. ASSUME NEW p \in Plugins, Process(p) PROVE ThreadType'
  BY <1>39, <1>25, <1>26, <1>29, <1>32, <1>33 DEF Process
<1>40. ASSUME NEW c \in XplClients, XplThread(c) PROVE ThreadType'
  BY <1>40, <1>1, <1>24 DEF XplThread, Threads
<1> QED
  BY <1>36, <1>37, <1>38, <1>39, <1>40, <1>6, <1>7, <1>8, <1>17, <1>23, <1>27, <1>28, <1>30, <1>31, <1>34, <1>35
  DEF Next

\* A process that changes its state and sends its status keeps the types.
LEMMA PublishKeeps ==
  ASSUME NEW p \in Plugins, ProcessType, NEW s \in Status, NEW to \in ProcessState,
         process' = [process EXCEPT ![p] = to], Publish(p, s), UNCHANGED <<beat, born, echo>>
  PROVE  ProcessType'
<1>1. process' \in [Plugins -> ProcessState] /\ own' \in [Plugins -> Status]
  BY DEF Publish, ProcessType
<1>2. events[p] \in Seq(Status)
  BY DEF ProcessType
<1>3. Append(events[p], s) \in Seq(Status)
  BY <1>2
<1>4. events' \in [Plugins -> Seq(Status)]
  BY <1>3 DEF Publish, ProcessType
<1> QED
  BY <1>1, <1>4 DEF ProcessType

\* Every step keeps the types of the processes.
LEMMA ProcessTypeStep == IInv /\ [Next]_vars => ProcessType'
<1> SUFFICES ASSUME IInv, [Next]_vars
             PROVE  ProcessType'
  OBVIOUS
<1> USE ClientAssumption DEF IInv, ProcessType, TargetInv, ThreadType, ProcessState, Status, packageVars, listVars, managerVars, processVars
<1>1. ASSUME NEW t \in Threads, EndSetStatus(t) PROVE ProcessType'
  <2>1. \/ echo' = echo
        \/ \E p \in Plugins : echo[p] < MaxEcho /\ echo' = [echo EXCEPT ![p] = echo[p] + 1]
    BY <1>1 DEF EndSetStatus
  <2>2. echo' \in [Plugins -> 0..MaxEcho]
    <3>1. CASE echo' = echo
      BY <3>1
    <3>2. ASSUME NEW p \in Plugins, echo[p] < MaxEcho, echo' = [echo EXCEPT ![p] = echo[p] + 1]
          PROVE  echo' \in [Plugins -> 0..MaxEcho]
      <4>1. echo[p] + 1 \in 0..MaxEcho
        <5>1. echo[p] \in 0..MaxEcho /\ MaxEcho \in Nat
          OBVIOUS
        <5> QED
          BY ONLY <3>2, <5>1
      <4>2. echo \in [Plugins -> 0..MaxEcho]
        OBVIOUS
      <4> QED
        BY ONLY <3>2, <4>1, <4>2
    <3> QED
      BY <2>1, <3>1, <3>2
  <2> QED
    BY <1>1, <2>2 DEF EndSetStatus
<1>2. ASSUME NEW t \in Threads, SetStatusFails(t) PROVE ProcessType'
  BY <1>2 DEF SetStatusFails
<1>3. ASSUME StartWatch PROVE ProcessType'
  BY <1>3 DEF StartWatch
<1>4. ASSUME NEW p \in Plugins, HandleEvent(p) PROVE ProcessType'
  BY <1>4 DEF HandleEvent, SetStatus, MqFree, Idle
<1>5. ASSUME NEW p \in Plugins, HandleEcho(p) PROVE ProcessType'
  <2>1. echo[p] > 0 /\ echo' = [echo EXCEPT ![p] = echo[p] - 1] /\ UNCHANGED <<process, own, beat, born, events>>
    BY <1>5 DEF HandleEcho
  <2>2. MaxEcho \in Nat /\ echo \in [Plugins -> 0..MaxEcho]
    OBVIOUS
  <2>3. echo[p] - 1 \in 0..MaxEcho
    BY ONLY <2>1, <2>2, p \in Plugins
  <2>4. echo' \in [Plugins -> 0..MaxEcho]
    BY ONLY <2>1, <2>2, <2>3
  <2> QED
    BY <2>1, <2>4
<1>6. ASSUME NEW p \in Plugins, NEW n \in 1..MaxStarts, CheckIfStopped(p, n) PROVE ProcessType'
  BY <1>6 DEF CheckIfStopped, Kill
<1>7. ASSUME NEW p \in Plugins, StartUnknown(p) PROVE ProcessType'
  BY <1>7 DEF StartUnknown, Answer
<1>8. ASSUME NEW p \in Plugins, StartCheck(p) PROVE ProcessType'
  BY <1>8 DEF StartCheck, Answer
<1>9. ASSUME NEW p \in Plugins, StartLaunch(p) PROVE ProcessType'
  BY <1>9, LaunchKeeps DEF StartLaunch
<1>10. ASSUME NEW p \in Plugins, StartReply(p) PROVE ProcessType'
  BY <1>10 DEF StartReply, Answer
<1>11. ASSUME ListPackages PROVE ProcessType'
  BY <1>11 DEF ListPackages, pkgRest
<1>12. ASSUME NEW p \in Plugins, NewPlugin(p) PROVE ProcessType'
  BY <1>12 DEF NewPlugin, Add, pkgRest
<1>13. ASSUME AutoCheck PROVE ProcessType'
  BY <1>13 DEF AutoCheck, pkgRest
<1>14. ASSUME AutoLaunch PROVE ProcessType'
  <2>1. pkg.plugin \in Plugins /\ Launch(pkg.plugin)
    BY <1>14 DEF AutoLaunch
  <2> QED
    BY <1>14, <2>1, LaunchKeeps DEF AutoLaunch, pkgRest
<1>15. ASSUME NEW p \in Plugins, Unregister(p) PROVE ProcessType'
  BY <1>15 DEF Unregister, Remove, pkgRest
<1>16. ASSUME EndPackages PROVE ProcessType'
  BY <1>16 DEF EndPackages, pkgRest
<1>17. ASSUME NEW p \in Plugins, ChangePackages(p) PROVE ProcessType'
  BY <1>17 DEF ChangePackages
<1>18. ASSUME StartRound PROVE ProcessType'
  BY <1>18 DEF StartRound, checkerRest
<1>19. ASSUME NEW c \in Clients, Visit(c) PROVE ProcessType'
  BY <1>19 DEF Visit, checkerRest
<1>20. ASSUME Declare PROVE ProcessType'
  BY <1>20 DEF Declare, SetStatus, checkerRest
<1>21. ASSUME RoundFails PROVE ProcessType'
  BY <1>21 DEF RoundFails, checkerRest
<1>22. ASSUME EndRound PROVE ProcessType'
  BY <1>22 DEF EndRound, checkerRest
<1>23. ASSUME NEW c \in XplClients, XplAdd(c) PROVE ProcessType'
  BY <1>23 DEF XplAdd, Add, xplRest
<1>24. ASSUME NEW c \in XplClients, XplAlive(c) PROVE ProcessType'
  BY <1>24 DEF XplAlive, SetStatus, xplRest
<1>25. ASSUME NEW p \in Plugins, ProcessInit(p) PROVE ProcessType'
  <2>1. /\ process' = [process EXCEPT ![p] = "booting"] /\ Publish(p, "starting")
        /\ UNCHANGED <<beat, born, echo>>
    BY <1>25 DEF ProcessInit, Go, processRest
  <2>2. "booting" \in ProcessState /\ "starting" \in Status
    OBVIOUS
  <2> HIDE DEF ProcessState, Status, ProcessType
  <2> QED
    BY <2>1, <2>2, PublishKeeps DEF IInv
<1>26. ASSUME NEW p \in Plugins, Ready(p) PROVE ProcessType'
  <2>1. /\ process' = [process EXCEPT ![p] = "running"] /\ Publish(p, "alive")
        /\ UNCHANGED <<beat, born, echo>>
    BY <1>26 DEF Ready, Go, processRest
  <2>2. "running" \in ProcessState /\ "alive" \in Status
    OBVIOUS
  <2> HIDE DEF ProcessState, Status, ProcessType
  <2> QED
    BY <2>1, <2>2, PublishKeeps DEF IInv
<1>27. ASSUME NEW p \in Plugins, NotConfigured(p) PROVE ProcessType'
  <2>1. /\ process' = [process EXCEPT ![p] = "refused"] /\ Publish(p, "not-configured")
        /\ UNCHANGED <<beat, born, echo>>
    BY <1>27 DEF NotConfigured, Go, processRest
  <2>2. "refused" \in ProcessState /\ "not-configured" \in Status
    OBVIOUS
  <2> HIDE DEF ProcessState, Status, ProcessType
  <2> QED
    BY <2>1, <2>2, PublishKeeps DEF IInv
<1>28. ASSUME NEW p \in Plugins, ClientStop(p) PROVE ProcessType'
  <2>1. /\ process' = [process EXCEPT ![p] = "leaving"] /\ Publish(p, "stop-request")
        /\ UNCHANGED <<beat, born, echo>>
    BY <1>28 DEF ClientStop, Go, processRest
  <2>2. "leaving" \in ProcessState /\ "stop-request" \in Status
    OBVIOUS
  <2> HIDE DEF ProcessState, Status, ProcessType
  <2> QED
    BY <2>1, <2>2, PublishKeeps DEF IInv
<1>29. ASSUME NEW p \in Plugins, ForceLeave(p) PROVE ProcessType'
  <2>1. /\ process' = [process EXCEPT ![p] = "closing"] /\ Publish(p, "stopped")
        /\ UNCHANGED <<beat, born, echo>>
    BY <1>29 DEF ForceLeave, Go, processRest
  <2>2. "closing" \in ProcessState /\ "stopped" \in Status
    OBVIOUS
  <2> HIDE DEF ProcessState, Status, ProcessType
  <2> QED
    BY <2>1, <2>2, PublishKeeps DEF IInv
<1>30. ASSUME NEW p \in Plugins, Exit(p) PROVE ProcessType'
  BY <1>30 DEF Exit, Go, processRest
<1>31. ASSUME NEW p \in Plugins, Crash(p) PROVE ProcessType'
  BY <1>31 DEF Crash, Kill, processRest
<1>32. ASSUME NEW p \in Plugins, BeatRead(p) PROVE ProcessType'
  BY <1>32 DEF BeatRead, processRest
<1>33. ASSUME NEW p \in Plugins, BeatSend(p) PROVE ProcessType'
  <2>1. beat[p] \in Status /\ events[p] \in Seq(Status)
    BY <1>33 DEF BeatSend
  <2>2. Append(events[p], beat[p]) \in Seq(Status)
    BY <2>1
  <2> QED
    BY <1>33, <2>2 DEF BeatSend, processRest
<1>34. ASSUME Tick PROVE ProcessType'
  BY <1>34 DEF Tick
<1>35. ASSUME UNCHANGED vars PROVE ProcessType'
  BY <1>35 DEF vars
<1>36. ASSUME MqThread PROVE ProcessType'
  BY <1>36, <1>1, <1>2, <1>3, <1>4, <1>5, <1>9, <1>10 DEF MqThread, Threads
<1>37. ASSUME PackageThread PROVE ProcessType'
  BY <1>37, <1>11, <1>12, <1>13, <1>14, <1>15, <1>16 DEF PackageThread
<1>38. ASSUME CheckThread PROVE ProcessType'
  BY <1>38, <1>1, <1>2, <1>18, <1>19, <1>20, <1>21, <1>22 DEF CheckThread, Threads
<1>39. ASSUME NEW p \in Plugins, Process(p) PROVE ProcessType'
  BY <1>39, <1>25, <1>26, <1>29, <1>32, <1>33 DEF Process
<1>40. ASSUME NEW c \in XplClients, XplThread(c) PROVE ProcessType'
  BY <1>40, <1>1, <1>24 DEF XplThread, Threads
<1> QED
  BY <1>36, <1>37, <1>38, <1>39, <1>40, <1>6, <1>7, <1>8, <1>17, <1>23, <1>27, <1>28, <1>30, <1>31, <1>34, <1>35
  DEF Next

\* Every step keeps what is known of the processes started.
LEMMA BornInvStep == IInv /\ [Next]_vars => BornInv'
<1> SUFFICES ASSUME IInv, [Next]_vars
             PROVE  BornInv'
  OBVIOUS
<1> USE ClientAssumption DEF IInv, BornInv, TargetInv, ThreadType, ProcessType, Idle, packageVars, listVars, managerVars, processVars
<1>1. ASSUME NEW t \in Threads, EndSetStatus(t) PROVE BornInv'
  BY <1>1 DEF EndSetStatus
<1>2. ASSUME NEW t \in Threads, SetStatusFails(t) PROVE BornInv'
  BY <1>2 DEF SetStatusFails
<1>3. ASSUME StartWatch PROVE BornInv'
  BY <1>3 DEF StartWatch
<1>4. ASSUME NEW p \in Plugins, HandleEvent(p) PROVE BornInv'
  BY <1>4 DEF HandleEvent, SetStatus, MqFree, Idle
<1>5. ASSUME NEW p \in Plugins, HandleEcho(p) PROVE BornInv'
  BY <1>5 DEF HandleEcho, SetStatus, MqFree
<1>6. ASSUME NEW p \in Plugins, NEW n \in 1..MaxStarts, CheckIfStopped(p, n) PROVE BornInv'
  BY <1>6 DEF CheckIfStopped, Kill
<1>7. ASSUME NEW p \in Plugins, StartUnknown(p) PROVE BornInv'
  BY <1>7 DEF StartUnknown, Answer
<1>8. ASSUME NEW p \in Plugins, StartCheck(p) PROVE BornInv'
  BY <1>8 DEF StartCheck, Answer
<1>9. ASSUME NEW p \in Plugins, StartLaunch(p) PROVE BornInv'
  <2>1. mq' = [at |-> IF CanLaunch(p) THEN "launched" ELSE "not_launched", plugin |-> p]
    BY <1>9 DEF StartLaunch
  <2>2. mq'.at # "watch"
    BY <2>1
  <2>3. \A q \in Plugins :
         process'[q] # "none" \/ beat'[q] # None \/ events'[q] # <<>> => born'[q] \in 1..MaxStarts
    BY <1>9, LaunchKeeps DEF StartLaunch
  <2> QED
    BY <2>2, <2>3
<1>10. ASSUME NEW p \in Plugins, StartReply(p) PROVE BornInv'
  BY <1>10 DEF StartReply, Answer
<1>11. ASSUME ListPackages PROVE BornInv'
  BY <1>11 DEF ListPackages, pkgRest
<1>12. ASSUME NEW p \in Plugins, NewPlugin(p) PROVE BornInv'
  BY <1>12 DEF NewPlugin, Add, pkgRest
<1>13. ASSUME AutoCheck PROVE BornInv'
  BY <1>13 DEF AutoCheck, pkgRest
<1>14. ASSUME AutoLaunch PROVE BornInv'
  <2>1. pkg.plugin \in Plugins /\ Launch(pkg.plugin)
    BY <1>14 DEF AutoLaunch
  <2>2. \A q \in Plugins :
         process'[q] # "none" \/ beat'[q] # None \/ events'[q] # <<>> => born'[q] \in 1..MaxStarts
    BY <1>14, <2>1, LaunchKeeps DEF AutoLaunch, pkgRest
  <2>3. mq.at = "watch" => born'[mq.plugin] \in 1..MaxStarts
    BY <1>14, <2>1, LaunchKeeps DEF AutoLaunch, pkgRest
  <2> QED
    BY <1>14, <2>2, <2>3 DEF AutoLaunch, pkgRest
<1>15. ASSUME NEW p \in Plugins, Unregister(p) PROVE BornInv'
  BY <1>15 DEF Unregister, Remove, pkgRest
<1>16. ASSUME EndPackages PROVE BornInv'
  BY <1>16 DEF EndPackages, pkgRest
<1>17. ASSUME NEW p \in Plugins, ChangePackages(p) PROVE BornInv'
  BY <1>17 DEF ChangePackages
<1>18. ASSUME StartRound PROVE BornInv'
  BY <1>18 DEF StartRound, checkerRest
<1>19. ASSUME NEW c \in Clients, Visit(c) PROVE BornInv'
  BY <1>19 DEF Visit, checkerRest
<1>20. ASSUME Declare PROVE BornInv'
  BY <1>20 DEF Declare, SetStatus, checkerRest
<1>21. ASSUME RoundFails PROVE BornInv'
  BY <1>21 DEF RoundFails, checkerRest
<1>22. ASSUME EndRound PROVE BornInv'
  BY <1>22 DEF EndRound, checkerRest
<1>23. ASSUME NEW c \in XplClients, XplAdd(c) PROVE BornInv'
  BY <1>23 DEF XplAdd, Add, xplRest
<1>24. ASSUME NEW c \in XplClients, XplAlive(c) PROVE BornInv'
  BY <1>24 DEF XplAlive, SetStatus, xplRest
<1>25. ASSUME NEW p \in Plugins, ProcessInit(p) PROVE BornInv'
  BY <1>25 DEF ProcessInit, Go, Publish, processRest
<1>26. ASSUME NEW p \in Plugins, Ready(p) PROVE BornInv'
  BY <1>26 DEF Ready, Go, Publish, processRest
<1>27. ASSUME NEW p \in Plugins, NotConfigured(p) PROVE BornInv'
  BY <1>27 DEF NotConfigured, Go, Publish, processRest
<1>28. ASSUME NEW p \in Plugins, ClientStop(p) PROVE BornInv'
  BY <1>28 DEF ClientStop, Go, Publish, processRest
<1>29. ASSUME NEW p \in Plugins, ForceLeave(p) PROVE BornInv'
  BY <1>29 DEF ForceLeave, Go, Publish, processRest
<1>30. ASSUME NEW p \in Plugins, Exit(p) PROVE BornInv'
  BY <1>30 DEF Exit, Go, processRest
<1>31. ASSUME NEW p \in Plugins, Crash(p) PROVE BornInv'
  BY <1>31 DEF Crash, Kill, processRest
<1>32. ASSUME NEW p \in Plugins, BeatRead(p) PROVE BornInv'
  BY <1>32 DEF BeatRead, processRest
<1>33. ASSUME NEW p \in Plugins, BeatSend(p) PROVE BornInv'
  BY <1>33 DEF BeatSend, processRest
<1>34. ASSUME Tick PROVE BornInv'
  BY <1>34 DEF Tick
<1>35. ASSUME UNCHANGED vars PROVE BornInv'
  BY <1>35 DEF vars
<1>36. ASSUME MqThread PROVE BornInv'
  BY <1>36, <1>1, <1>2, <1>3, <1>4, <1>5, <1>9, <1>10 DEF MqThread, Threads
<1>37. ASSUME PackageThread PROVE BornInv'
  BY <1>37, <1>11, <1>12, <1>13, <1>14, <1>15, <1>16 DEF PackageThread
<1>38. ASSUME CheckThread PROVE BornInv'
  BY <1>38, <1>1, <1>2, <1>18, <1>19, <1>20, <1>21, <1>22 DEF CheckThread, Threads
<1>39. ASSUME NEW p \in Plugins, Process(p) PROVE BornInv'
  BY <1>39, <1>25, <1>26, <1>29, <1>32, <1>33 DEF Process
<1>40. ASSUME NEW c \in XplClients, XplThread(c) PROVE BornInv'
  BY <1>40, <1>1, <1>24 DEF XplThread, Threads
<1> QED
  BY <1>36, <1>37, <1>38, <1>39, <1>40, <1>6, <1>7, <1>8, <1>17, <1>23, <1>27, <1>28, <1>30, <1>31, <1>34, <1>35
  DEF Next

\* Every step keeps the threads' targets.
LEMMA TargetInvStep == IInv /\ [Next]_vars => TargetInv'
<1> SUFFICES ASSUME IInv, [Next]_vars
             PROVE  TargetInv'
  OBVIOUS
<1> USE DEF IInv, TargetInv, ThreadType, Idle, packageVars, listVars, managerVars, processVars
<1>1. ASSUME NEW t \in Threads, EndSetStatus(t) PROVE TargetInv'
  BY <1>1 DEF EndSetStatus
<1>2. ASSUME NEW t \in Threads, SetStatusFails(t) PROVE TargetInv'
  BY <1>2 DEF SetStatusFails
<1>3. ASSUME StartWatch PROVE TargetInv'
  BY <1>3 DEF StartWatch
<1>4. ASSUME NEW p \in Plugins, HandleEvent(p) PROVE TargetInv'
  BY <1>4 DEF HandleEvent, SetStatus, MqFree, Idle
<1>5. ASSUME NEW p \in Plugins, HandleEcho(p) PROVE TargetInv'
  BY <1>5 DEF HandleEcho, SetStatus, MqFree
<1>6. ASSUME NEW p \in Plugins, NEW n \in 1..MaxStarts, CheckIfStopped(p, n) PROVE TargetInv'
  BY <1>6 DEF CheckIfStopped, Kill
<1>7. ASSUME NEW p \in Plugins, StartUnknown(p) PROVE TargetInv'
  BY <1>7 DEF StartUnknown, Answer
<1>8. ASSUME NEW p \in Plugins, StartCheck(p) PROVE TargetInv'
  BY <1>8 DEF StartCheck, Answer
<1>9. ASSUME NEW p \in Plugins, StartLaunch(p) PROVE TargetInv'
  BY <1>9 DEF StartLaunch, Launch, CanLaunch
<1>10. ASSUME NEW p \in Plugins, StartReply(p) PROVE TargetInv'
  BY <1>10 DEF StartReply, Answer
<1>11. ASSUME ListPackages PROVE TargetInv'
  BY <1>11 DEF ListPackages, pkgRest
<1>12. ASSUME NEW p \in Plugins, NewPlugin(p) PROVE TargetInv'
  BY <1>12 DEF NewPlugin, Add, pkgRest
<1>13. ASSUME AutoCheck PROVE TargetInv'
  BY <1>13 DEF AutoCheck, pkgRest
<1>14. ASSUME AutoLaunch PROVE TargetInv'
  BY <1>14 DEF AutoLaunch, Launch, CanLaunch, pkgRest
<1>15. ASSUME NEW p \in Plugins, Unregister(p) PROVE TargetInv'
  BY <1>15 DEF Unregister, Remove, pkgRest
<1>16. ASSUME EndPackages PROVE TargetInv'
  BY <1>16 DEF EndPackages, pkgRest
<1>17. ASSUME NEW p \in Plugins, ChangePackages(p) PROVE TargetInv'
  BY <1>17 DEF ChangePackages
<1>18. ASSUME StartRound PROVE TargetInv'
  BY <1>18 DEF StartRound, checkerRest
<1>19. ASSUME NEW c \in Clients, Visit(c) PROVE TargetInv'
  BY <1>19 DEF Visit, checkerRest
<1>20. ASSUME Declare PROVE TargetInv'
  BY <1>20 DEF Declare, SetStatus, checkerRest
<1>21. ASSUME RoundFails PROVE TargetInv'
  BY <1>21 DEF RoundFails, checkerRest
<1>22. ASSUME EndRound PROVE TargetInv'
  BY <1>22 DEF EndRound, checkerRest
<1>23. ASSUME NEW c \in XplClients, XplAdd(c) PROVE TargetInv'
  BY <1>23 DEF XplAdd, Add, xplRest
<1>24. ASSUME NEW c \in XplClients, XplAlive(c) PROVE TargetInv'
  BY <1>24 DEF XplAlive, SetStatus, xplRest
<1>25. ASSUME NEW p \in Plugins, ProcessInit(p) PROVE TargetInv'
  BY <1>25 DEF ProcessInit, Go, Publish, processRest
<1>26. ASSUME NEW p \in Plugins, Ready(p) PROVE TargetInv'
  BY <1>26 DEF Ready, Go, Publish, processRest
<1>27. ASSUME NEW p \in Plugins, NotConfigured(p) PROVE TargetInv'
  BY <1>27 DEF NotConfigured, Go, Publish, processRest
<1>28. ASSUME NEW p \in Plugins, ClientStop(p) PROVE TargetInv'
  BY <1>28 DEF ClientStop, Go, Publish, processRest
<1>29. ASSUME NEW p \in Plugins, ForceLeave(p) PROVE TargetInv'
  BY <1>29 DEF ForceLeave, Go, Publish, processRest
<1>30. ASSUME NEW p \in Plugins, Exit(p) PROVE TargetInv'
  BY <1>30 DEF Exit, Go, processRest
<1>31. ASSUME NEW p \in Plugins, Crash(p) PROVE TargetInv'
  BY <1>31 DEF Crash, Kill, processRest
<1>32. ASSUME NEW p \in Plugins, BeatRead(p) PROVE TargetInv'
  BY <1>32 DEF BeatRead, processRest
<1>33. ASSUME NEW p \in Plugins, BeatSend(p) PROVE TargetInv'
  BY <1>33 DEF BeatSend, processRest
<1>34. ASSUME Tick PROVE TargetInv'
  BY <1>34 DEF Tick
<1>35. ASSUME UNCHANGED vars PROVE TargetInv'
  BY <1>35 DEF vars
<1>36. ASSUME MqThread PROVE TargetInv'
  BY <1>36, <1>1, <1>2, <1>3, <1>4, <1>5, <1>9, <1>10 DEF MqThread, Threads
<1>37. ASSUME PackageThread PROVE TargetInv'
  BY <1>37, <1>11, <1>12, <1>13, <1>14, <1>15, <1>16 DEF PackageThread
<1>38. ASSUME CheckThread PROVE TargetInv'
  BY <1>38, <1>1, <1>2, <1>18, <1>19, <1>20, <1>21, <1>22 DEF CheckThread, Threads
<1>39. ASSUME NEW p \in Plugins, Process(p) PROVE TargetInv'
  BY <1>39, <1>25, <1>26, <1>29, <1>32, <1>33 DEF Process
<1>40. ASSUME NEW c \in XplClients, XplThread(c) PROVE TargetInv'
  BY <1>40, <1>1, <1>24 DEF XplThread, Threads
<1> QED
  BY <1>36, <1>37, <1>38, <1>39, <1>40, <1>6, <1>7, <1>8, <1>17, <1>23, <1>27, <1>28, <1>30, <1>31, <1>34, <1>35
  DEF Next

\* Every step keeps the clients of both dictionaries the same.
LEMMA KeysAgreeStep == IInv /\ [Next]_vars => KeysAgree'
<1> SUFFICES ASSUME IInv, [Next]_vars
             PROVE  KeysAgree'
  OBVIOUS
<1> USE ClientAssumption DEF IInv, KeysAgree, ListType, ThreadType, TargetInv, JobType, Status, Threads, Clients,
       packageVars, listVars, managerVars, processVars
<1>1. ASSUME NEW t \in Threads, EndSetStatus(t) PROVE KeysAgree'
  BY <1>1 DEF EndSetStatus
<1>2. ASSUME NEW t \in Threads, SetStatusFails(t) PROVE KeysAgree'
  BY <1>2 DEF SetStatusFails
<1>3. ASSUME StartWatch PROVE KeysAgree'
  BY <1>3 DEF StartWatch
<1>4. ASSUME NEW p \in Plugins, HandleEvent(p) PROVE KeysAgree'
  <2>1. events[p] # <<>> /\ Head(events[p]) \in Status
    BY <1>4, EventsAreStatuses DEF HandleEvent
  <2>2. CASE p \in subscribed
    <3>1. SetStatus("mq", p, Head(events[p]))
      BY <1>4, <2>2 DEF HandleEvent
    <3>2. "mq" \in Threads /\ p \in Clients
      BY DEF Threads, Clients
    <3>3. ListType
      BY DEF IInv
    <3>4. /\ status' \in [Clients -> Status \cup {"absent"}]
          /\ silent' \in [Clients -> Nat]
          /\ job' \in [Threads -> JobType \cup {None}]
          /\ detail' = detail
          /\ \A d \in Clients : status'[d] = "absent" <=> status[d] = "absent"
      BY ONLY <2>1, <3>1, <3>2, <3>3, SetStatusKeeps
    <3> QED
      BY <1>4, <3>4 DEF HandleEvent
  <2>3. CASE p \notin subscribed
    BY <1>4, <2>3 DEF HandleEvent
  <2> QED
    BY <2>2, <2>3
<1>5. ASSUME NEW p \in Plugins, HandleEcho(p) PROVE KeysAgree'
  BY <1>5 DEF HandleEcho, SetStatus, MqFree
<1>6. ASSUME NEW p \in Plugins, NEW n \in 1..MaxStarts, CheckIfStopped(p, n) PROVE KeysAgree'
  BY <1>6 DEF CheckIfStopped, Kill
<1>7. ASSUME NEW p \in Plugins, StartUnknown(p) PROVE KeysAgree'
  BY <1>7 DEF StartUnknown, Answer
<1>8. ASSUME NEW p \in Plugins, StartCheck(p) PROVE KeysAgree'
  BY <1>8 DEF StartCheck, Answer
<1>9. ASSUME NEW p \in Plugins, StartLaunch(p) PROVE KeysAgree'
  BY <1>9 DEF StartLaunch, Launch, CanLaunch
<1>10. ASSUME NEW p \in Plugins, StartReply(p) PROVE KeysAgree'
  BY <1>10 DEF StartReply, Answer
<1>11. ASSUME ListPackages PROVE KeysAgree'
  BY <1>11 DEF ListPackages, pkgRest
<1>12. ASSUME NEW p \in Plugins, NewPlugin(p) PROVE KeysAgree'
  BY <1>12 DEF NewPlugin, Add, pkgRest
<1>13. ASSUME AutoCheck PROVE KeysAgree'
  BY <1>13 DEF AutoCheck, pkgRest
<1>14. ASSUME AutoLaunch PROVE KeysAgree'
  BY <1>14 DEF AutoLaunch, Launch, CanLaunch, pkgRest
<1>15. ASSUME NEW p \in Plugins, Unregister(p) PROVE KeysAgree'
  BY <1>15 DEF Unregister, Remove, pkgRest
<1>16. ASSUME EndPackages PROVE KeysAgree'
  BY <1>16 DEF EndPackages, pkgRest
<1>17. ASSUME NEW p \in Plugins, ChangePackages(p) PROVE KeysAgree'
  BY <1>17 DEF ChangePackages
<1>18. ASSUME StartRound PROVE KeysAgree'
  BY <1>18 DEF StartRound, checkerRest
<1>19. ASSUME NEW c \in Clients, Visit(c) PROVE KeysAgree'
  BY <1>19 DEF Visit, checkerRest
<1>20. ASSUME Declare PROVE KeysAgree'
  BY <1>20 DEF Declare, SetStatus, checkerRest
<1>21. ASSUME RoundFails PROVE KeysAgree'
  BY <1>21 DEF RoundFails, checkerRest
<1>22. ASSUME EndRound PROVE KeysAgree'
  BY <1>22 DEF EndRound, checkerRest
<1>23. ASSUME NEW c \in XplClients, XplAdd(c) PROVE KeysAgree'
  BY <1>23 DEF XplAdd, Add, xplRest
<1>24. ASSUME NEW c \in XplClients, XplAlive(c) PROVE KeysAgree'
  BY <1>24 DEF XplAlive, SetStatus, xplRest
<1>25. ASSUME NEW p \in Plugins, ProcessInit(p) PROVE KeysAgree'
  BY <1>25 DEF ProcessInit, Go, Publish, processRest
<1>26. ASSUME NEW p \in Plugins, Ready(p) PROVE KeysAgree'
  BY <1>26 DEF Ready, Go, Publish, processRest
<1>27. ASSUME NEW p \in Plugins, NotConfigured(p) PROVE KeysAgree'
  BY <1>27 DEF NotConfigured, Go, Publish, processRest
<1>28. ASSUME NEW p \in Plugins, ClientStop(p) PROVE KeysAgree'
  BY <1>28 DEF ClientStop, Go, Publish, processRest
<1>29. ASSUME NEW p \in Plugins, ForceLeave(p) PROVE KeysAgree'
  BY <1>29 DEF ForceLeave, Go, Publish, processRest
<1>30. ASSUME NEW p \in Plugins, Exit(p) PROVE KeysAgree'
  BY <1>30 DEF Exit, Go, processRest
<1>31. ASSUME NEW p \in Plugins, Crash(p) PROVE KeysAgree'
  BY <1>31 DEF Crash, Kill, processRest
<1>32. ASSUME NEW p \in Plugins, BeatRead(p) PROVE KeysAgree'
  BY <1>32 DEF BeatRead, processRest
<1>33. ASSUME NEW p \in Plugins, BeatSend(p) PROVE KeysAgree'
  BY <1>33 DEF BeatSend, processRest
<1>34. ASSUME Tick PROVE KeysAgree'
  BY <1>34 DEF Tick
<1>35. ASSUME UNCHANGED vars PROVE KeysAgree'
  BY <1>35 DEF vars
<1>36. ASSUME MqThread PROVE KeysAgree'
  BY <1>36, <1>1, <1>2, <1>3, <1>4, <1>5, <1>9, <1>10 DEF MqThread, Threads
<1>37. ASSUME PackageThread PROVE KeysAgree'
  BY <1>37, <1>11, <1>12, <1>13, <1>14, <1>15, <1>16 DEF PackageThread
<1>38. ASSUME CheckThread PROVE KeysAgree'
  BY <1>38, <1>1, <1>2, <1>18, <1>19, <1>20, <1>21, <1>22 DEF CheckThread, Threads
<1>39. ASSUME NEW p \in Plugins, Process(p) PROVE KeysAgree'
  BY <1>39, <1>25, <1>26, <1>29, <1>32, <1>33 DEF Process
<1>40. ASSUME NEW c \in XplClients, XplThread(c) PROVE KeysAgree'
  BY <1>40, <1>1, <1>24 DEF XplThread, Threads
<1> QED
  BY <1>36, <1>37, <1>38, <1>39, <1>40, <1>6, <1>7, <1>8, <1>17, <1>23, <1>27, <1>28, <1>30, <1>31, <1>34, <1>35
  DEF Next

\* Every step keeps what holds while no package is removed.
LEMMA StableInvStep == IInv /\ [Next]_vars => StableInv'
<1> SUFFICES ASSUME IInv, [Next]_vars
             PROVE  StableInv'
  OBVIOUS
<1> USE DEF IInv, StableInv, ListType, ThreadType, TargetInv, Listed, Clients, Idle,
       packageVars, listVars, managerVars, processVars
<1>1. ASSUME NEW t \in Threads, EndSetStatus(t) PROVE StableInv'
  BY <1>1 DEF EndSetStatus
<1>2. ASSUME NEW t \in Threads, SetStatusFails(t) PROVE StableInv'
  BY <1>2 DEF SetStatusFails
<1>3. ASSUME StartWatch PROVE StableInv'
  BY <1>3 DEF StartWatch
<1>4. ASSUME NEW p \in Plugins, HandleEvent(p) PROVE StableInv'
  <2>1. events[p] # <<>> /\ Head(events[p]) \in Status
    BY <1>4, EventsAreStatuses DEF HandleEvent
  <2>2. \A d \in Clients : status'[d] = "absent" <=> status[d] = "absent"
    BY <1>4, <2>1, SetStatusKeeps DEF HandleEvent, Threads
  <2>3. mq'.at \notin {"launch", "launched", "not_launched"}
    BY <1>4 DEF HandleEvent, MqFree
  <2> QED
    BY <1>4, <2>2, <2>3 DEF HandleEvent
<1>5. ASSUME NEW p \in Plugins, HandleEcho(p) PROVE StableInv'
  BY <1>5 DEF HandleEcho, SetStatus, MqFree
<1>6. ASSUME NEW p \in Plugins, NEW n \in 1..MaxStarts, CheckIfStopped(p, n) PROVE StableInv'
  BY <1>6 DEF CheckIfStopped, Kill
<1>7. ASSUME NEW p \in Plugins, StartUnknown(p) PROVE StableInv'
  BY <1>7 DEF StartUnknown, Answer
<1>8. ASSUME NEW p \in Plugins, StartCheck(p) PROVE StableInv'
  BY <1>8 DEF StartCheck, Answer
<1>9. ASSUME NEW p \in Plugins, StartLaunch(p) PROVE StableInv'
  BY <1>9 DEF StartLaunch, Launch, CanLaunch
<1>10. ASSUME NEW p \in Plugins, StartReply(p) PROVE StableInv'
  BY <1>10 DEF StartReply, Answer
<1>11. ASSUME ListPackages PROVE StableInv'
  BY <1>11 DEF ListPackages, pkgRest
<1>12. ASSUME NEW p \in Plugins, NewPlugin(p) PROVE StableInv'
  <2>1. CASE p \in AutoStart
    <3>1. /\ pkg' = [pkg EXCEPT !.at = "check", !.plugin = p] /\ plugins' = plugins
          /\ status' = [status EXCEPT ![p] = "stopped"] /\ p \in pkg.seen \ plugins
          /\ UNCHANGED <<installed, mq, reply>>
      BY <1>12, <2>1 DEF NewPlugin, Add, pkgRest
    <3> QED
      BY <3>1, <1>12 DEF NewPlugin, Add, pkgRest
  <2>2. CASE p \notin AutoStart
    BY <1>12, <2>2 DEF NewPlugin, Add, pkgRest
  <2> QED
    BY <2>1, <2>2
<1>13. ASSUME AutoCheck PROVE StableInv'
  <2>1. CASE process[pkg.plugin] = "none"
    BY <1>13, <2>1 DEF AutoCheck, pkgRest
  <2>2. CASE process[pkg.plugin] # "none"
    <3>1. /\ pkg' = [pkg EXCEPT !.at = "scan", !.plugin = None]
          /\ plugins' = plugins \cup {pkg.plugin}
      BY <1>13, <2>2 DEF AutoCheck
    <3>2. pkg'.at = "scan" /\ pkg'.seen = pkg.seen
      BY <3>1
    <3> QED
      BY <1>13, <3>1, <3>2 DEF AutoCheck, pkgRest
  <2> QED
    BY <2>1, <2>2
<1>14. ASSUME AutoLaunch PROVE StableInv'
  BY <1>14 DEF AutoLaunch, Launch, CanLaunch, pkgRest
<1>15. ASSUME NEW p \in Plugins, Unregister(p) PROVE StableInv'
  BY <1>15 DEF Unregister, Remove, pkgRest
<1>16. ASSUME EndPackages PROVE StableInv'
  BY <1>16 DEF EndPackages, pkgRest
<1>17. ASSUME NEW p \in Plugins, ChangePackages(p) PROVE StableInv'
  BY <1>17 DEF ChangePackages
<1>18. ASSUME StartRound PROVE StableInv'
  BY <1>18 DEF StartRound, checkerRest
<1>19. ASSUME NEW c \in Clients, Visit(c) PROVE StableInv'
  BY <1>19 DEF Visit, checkerRest
<1>20. ASSUME Declare PROVE StableInv'
  BY <1>20 DEF Declare, SetStatus, checkerRest
<1>21. ASSUME RoundFails PROVE StableInv'
  BY <1>21 DEF RoundFails, checkerRest
<1>22. ASSUME EndRound PROVE StableInv'
  BY <1>22 DEF EndRound, checkerRest
<1>23. ASSUME NEW c \in XplClients, XplAdd(c) PROVE StableInv'
  BY <1>23 DEF XplAdd, Add, xplRest
<1>24. ASSUME NEW c \in XplClients, XplAlive(c) PROVE StableInv'
  BY <1>24 DEF XplAlive, SetStatus, xplRest
<1>25. ASSUME NEW p \in Plugins, ProcessInit(p) PROVE StableInv'
  BY <1>25 DEF ProcessInit, Go, Publish, processRest
<1>26. ASSUME NEW p \in Plugins, Ready(p) PROVE StableInv'
  BY <1>26 DEF Ready, Go, Publish, processRest
<1>27. ASSUME NEW p \in Plugins, NotConfigured(p) PROVE StableInv'
  BY <1>27 DEF NotConfigured, Go, Publish, processRest
<1>28. ASSUME NEW p \in Plugins, ClientStop(p) PROVE StableInv'
  BY <1>28 DEF ClientStop, Go, Publish, processRest
<1>29. ASSUME NEW p \in Plugins, ForceLeave(p) PROVE StableInv'
  BY <1>29 DEF ForceLeave, Go, Publish, processRest
<1>30. ASSUME NEW p \in Plugins, Exit(p) PROVE StableInv'
  BY <1>30 DEF Exit, Go, processRest
<1>31. ASSUME NEW p \in Plugins, Crash(p) PROVE StableInv'
  BY <1>31 DEF Crash, Kill, processRest
<1>32. ASSUME NEW p \in Plugins, BeatRead(p) PROVE StableInv'
  BY <1>32 DEF BeatRead, processRest
<1>33. ASSUME NEW p \in Plugins, BeatSend(p) PROVE StableInv'
  BY <1>33 DEF BeatSend, processRest
<1>34. ASSUME Tick PROVE StableInv'
  BY <1>34 DEF Tick
<1>35. ASSUME UNCHANGED vars PROVE StableInv'
  BY <1>35 DEF vars
<1>36. ASSUME MqThread PROVE StableInv'
  BY <1>36, <1>1, <1>2, <1>3, <1>4, <1>5, <1>9, <1>10 DEF MqThread, Threads
<1>37. ASSUME PackageThread PROVE StableInv'
  BY <1>37, <1>11, <1>12, <1>13, <1>14, <1>15, <1>16 DEF PackageThread
<1>38. ASSUME CheckThread PROVE StableInv'
  BY <1>38, <1>1, <1>2, <1>18, <1>19, <1>20, <1>21, <1>22 DEF CheckThread, Threads
<1>39. ASSUME NEW p \in Plugins, Process(p) PROVE StableInv'
  BY <1>39, <1>25, <1>26, <1>29, <1>32, <1>33 DEF Process
<1>40. ASSUME NEW c \in XplClients, XplThread(c) PROVE StableInv'
  BY <1>40, <1>1, <1>24 DEF XplThread, Threads
<1> QED
  BY <1>36, <1>37, <1>38, <1>39, <1>40, <1>6, <1>7, <1>8, <1>17, <1>23, <1>27, <1>28, <1>30, <1>31, <1>34, <1>35
  DEF Next
-----------------------------------------------------------------------------
\* The invariant holds in every reachable state.
LEMMA Inductive == Spec => []IInv
<1>1. IInv /\ [Next]_vars => IInv'
  BY ListTypeStep, ThreadTypeStep, ProcessTypeStep, BornInvStep, TargetInvStep, KeysAgreeStep,
     StableInvStep DEF IInv
<1> QED
  BY InitInv, <1>1, PTL DEF Spec

\* Every variable keeps its type, whatever is installed, removed, killed or late
\* (the structures of manager.py).
THEOREM TypeCorrect == Spec => []TypeOK
<1>1. IInv => TypeOK
  BY TypeParts DEF IInv
<1> QED
  BY <1>1, Inductive, PTL

\* The two dictionaries of the clients list have the same clients: a set_status
\* that a removal has overtaken does not bring half of the client back (remove,
\* set_status).
THEOREM KeysStayTogether == Spec => []KeysAgree
<1>1. IInv => KeysAgree
  BY DEF IInv
<1> QED
  BY <1>1, Inductive, PTL

\* While no package is removed, the MQ thread and the package thread never run the
\* program of one plugin at the same time (Plugin.__init__, _check_available_packages).
THEOREM OneThreadLaunches ==
  ASSUME Removable = {}
  PROVE  Spec => []LaunchesAreExclusive
<1>1. IInv => LaunchesAreExclusive
  BY DEF IInv, StableInv, LaunchesAreExclusive
<1> QED
  BY <1>1, Inductive, PTL

=============================================================================
