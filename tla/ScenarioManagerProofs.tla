------------------------- MODULE ScenarioManagerProofs -------------------------
(***************************************************************************)
(* Proofs about a scenario, for any number of tests of both kinds, any     *)
(* failures and any number of restarts.                                    *)
(***************************************************************************)
EXTENDS ScenarioManager, TLAPS

\* Where a request can be, and what it is to leave.
RequestInv ==
  /\ mq.test # None => mq.at = "join" /\ mq.test \in Tests
  /\ mq.at \in {"clean", "join"} => mq.op \in {"update", "delete", "disable"}
  /\ mq.at = "row" => mq.op \in {"create", "update"}
  /\ mq.at \in {"build", "subscribe", "insert"} => mq.op \in {"create", "update", "load", "enable"}
  /\ mq.at = "insert" => mq.op # "enable"
  /\ mq.at = "evaluate" => mq.op \in {"create", "update", "load", "message"}
  /\ mq.at = "db" => mq.op \in {"delete", "enable", "disable"}
  /\ mq.at = "load" => mq.op = "load"
  /\ mq.op \in {"create", "update"} /\ mq.at # "idle" => mq.want \in {"enabled", "disabled"}
  /\ mq.op = "delete" /\ mq.at # "idle" => mq.want = "absent"
  /\ mq.op = "disable" /\ mq.at # "idle" => mq.want = "disabled"
  /\ mq.op = "enable" /\ mq.at # "idle" => mq.want = "enabled"
  /\ mq.at \in {"build", "subscribe"} => mq.want = "enabled"
  /\ mq.at = "insert" => mq.want \in {"enabled", "disabled"}

\* A thread belongs to a test of the instance, and one that polls to one that evaluates.  The MQ thread evaluates only then.
ThreadsInv ==
  /\ \A t \in Tests : eval[t] # "none" => t \in inst.tests
  /\ mq.at = "build" => \A t \in inst.tests : eval[t] # "none"
  /\ \A t \in Tests : eval[t] = "none" => poll[t] = "none"
  /\ mq.at # "evaluate" => eval[MQ] = "wait"
  /\ mq.at \in {"row", "load"} => \A t \in Tests : eval[t] = "none"
  /\ mq.at = "idle" /\ entry = "absent" => \A t \in Tests : eval[t] = "none"

Built == /\ ~ inst.disabled
         /\ inst.compiled = "current" /\ inst.tests = Tests /\ inst.actions
         /\ \A t \in Tests : eval[t] # "none"

Empty == inst.tests = {} /\ ~ inst.actions

\* The instance at each place of a request.
InstanceInv ==
  /\ inst.disabled /\ mq.at \notin {"clean", "join"} => inst.tests = {}
  /\ mq.at = "join" => ~ inst.actions
  /\ mq.at \in {"clean", "join", "db"} /\ mq.op = "disable" => inst.disabled
  /\ mq.at = "build" => ~ inst.disabled /\ (mq.op # "enable" => inst.compiled = "none")
  /\ mq.at \in {"subscribe", "insert"} \/ (mq.at = "evaluate" /\ mq.op # "message") =>
       IF mq.want = "enabled" THEN Built ELSE Empty /\ inst.disabled
  /\ mq.at = "db" => IF mq.op = "enable" THEN Built ELSE Empty

\* The entry at each place of a request.
EntryInv ==
  /\ mq.at \in {"row", "build", "subscribe", "insert", "load"} => entry = "absent" \/ mq.op = "enable"
  /\ mq.at \in {"build", "subscribe"} /\ mq.op = "enable" => entry # "absent"
  /\ mq.at = "evaluate" => entry # "absent"
  /\ mq.at = "evaluate" /\ mq.op # "message" => entry = mq.want
  /\ mq.at = "db" => entry = mq.want

\* The row is what was promised, and what the request is to leave once it is written.
RowInv ==
  /\ promised # "none" => row = promised
  /\ mq.at # "idle" /\ mq.op \notin {"message", "load"} => promised = "none"
  /\ mq.at \in {"build", "subscribe", "insert", "evaluate"} /\ mq.op \in {"create", "update", "load"}
       => row = mq.want

\* Between two requests, and while a message is served, memory is as promised.
MemoryInv ==
  (mq.at = "idle" \/ mq.op = "message") /\ promised # "none" /\ loaded =>
    IF promised = "enabled" THEN Up ELSE Down(promised)

\* Without a scenario that is up there are no actions, and while it is set up none runs.
LiveInv ==
  /\ mq.at \in {"row", "load", "build"} => ~ inst.actions
  /\ mq.at \in {"idle", "evaluate"} /\ (entry = "absent" \/ inst.disabled) => ~ inst.actions
  /\ mq.at = "build" => \A t \in Tests : eval[t] # "act"

\* The inductive invariant.
IInv == /\ TypeOK /\ RequestInv /\ ThreadsInv /\ InstanceInv
        /\ EntryInv /\ RowInv /\ MemoryInv /\ LiveInv
-----------------------------------------------------------------------------
\* The initial state satisfies the invariant.
LEMMA InitInv == Init => IInv
  BY ScenarioAssumption DEF Init, IInv, TypeOK, Presence, Instance, Eval, Poll, Stray, Ops, Request, Idle, NoThreads, NoPolls, NewInstance,
       Evaluators, RequestInv, ThreadsInv, InstanceInv, EntryInv, RowInv, MemoryInv, LiveInv, Built, Empty, Up, Down

\* A new instance has its type.
LEMMA NewInstanceType == \A w : NewInstance(w) \in Instance
  BY DEF NewInstance, Instance

\* Every step keeps the types.
LEMMA TypeOKStep == IInv /\ [Next]_vars => TypeOK'
<1> SUFFICES ASSUME IInv, [Next]_vars
             PROVE  TypeOK'
  OBVIOUS
<1> USE ScenarioAssumption DEF TypeOK, Presence, Instance, Eval, Ops, Request, Idle, NoThreads, NoPolls, NewInstance,
       Evaluators, IInv, RequestInv
<1>1. ASSUME Delete PROVE TypeOK'
  BY <1>1 DEF Delete, Serve
<1>2. ASSUME Enable PROVE TypeOK'
  BY <1>2 DEF Enable, Serve
<1>3. ASSUME Disable PROVE TypeOK'
  BY <1>3 DEF Disable, Serve
<1>4. ASSUME SensorMessage PROVE TypeOK'
  <2>1. mq' \in Request
    BY <1>4 DEF SensorMessage, Serve
  <2>2. eval' \in [Evaluators -> Eval]
    BY <1>4 DEF SensorMessage, Go
  <2> QED
    BY <1>4, <2>1, <2>2 DEF SensorMessage
<1>5. ASSUME NEW w \in {"enabled", "disabled"}, Create(w) PROVE TypeOK'
  BY <1>5 DEF Create, Serve
<1>6. ASSUME NEW w \in {"enabled", "disabled"}, Update(w) PROVE TypeOK'
  BY <1>6 DEF Update, Serve
<1>7. ASSUME CleanActions PROVE TypeOK'
  BY <1>7 DEF CleanActions
<1>8. ASSUME JoinTest PROVE TypeOK'
  BY <1>8 DEF JoinTest, Go, Poll
<1>9. ASSUME EndClean PROVE TypeOK'
  BY <1>9 DEF EndClean
<1>10. ASSUME WriteRow PROVE TypeOK'
  <2>1. CASE row' = mq.want /\ inst' = NewInstance(mq.want)
    BY <1>10, <2>1, NewInstanceType DEF WriteRow, End
  <2>2. CASE UNCHANGED <<row, inst>> /\ End("none")
    BY <1>10, <2>2 DEF WriteRow, End
  <2> QED
    BY <1>10, <2>1, <2>2 DEF WriteRow
<1>11. ASSUME Load PROVE TypeOK'
  BY <1>11 DEF Load
<1>12. ASSUME Compile PROVE TypeOK'
  <2>1. inst' \in Instance
    BY <1>12 DEF Compile
  <2>2. mq' \in Request /\ entry' \in Presence
    BY <1>12 DEF Compile
  <2> QED
    BY <1>12, <2>1, <2>2 DEF Compile
<1>13. ASSUME BuildFails PROVE TypeOK'
  <2>1. NoThreads \in [Evaluators -> Eval] /\ NoPolls \in [Tests -> Poll]
    BY DEF Poll
  <2>2. eval' \in [Evaluators -> Eval] /\ poll' \in [Tests -> Poll]
    BY <1>13, <2>1 DEF BuildFails
  <2>3. inst' \in Instance
    <3>1. CASE mq.op = "enable"
      BY <1>13, <3>1 DEF BuildFails
    <3>2. CASE mq.op # "enable"
      <4>1. inst' = NewInstance("enabled")
        BY <1>13, <3>2 DEF BuildFails
      <4> QED
        BY ONLY <4>1, NewInstanceType
    <3> QED
      BY <3>1, <3>2
  <2>4. loaded' \in BOOLEAN
    BY <1>13 DEF BuildFails
  <2>5. row' \in Presence /\ mq' \in Request
    BY <1>13 DEF BuildFails
  <2>6. strays' \subseteq Stray
    <3>1. Left \subseteq Stray
      BY DEF Left, Stray
    <3> QED
      BY <1>13, <3>1 DEF BuildFails
  <2> QED
    BY <1>13, <2>2, <2>3, <2>4, <2>5, <2>6 DEF BuildFails
<1>14. ASSUME Insert PROVE TypeOK'
  BY <1>14 DEF Insert, Go
<1>15. ASSUME EndEvaluate PROVE TypeOK'
  BY <1>15 DEF EndEvaluate, Go, End
<1>16. ASSUME WriteDb PROVE TypeOK'
  BY <1>16 DEF WriteDb, End
<1>17. ASSUME NEW t \in Tests, StopTest(t) PROVE TypeOK'
  BY <1>17 DEF StopTest
<1>18. ASSUME NEW t \in Tests, BuildTest(t) PROVE TypeOK'
  BY <1>18 DEF BuildTest, Go, Poll
<1>19. ASSUME NEW t \in Tests, Begin(t) PROVE TypeOK'
  BY <1>19 DEF Begin, Go, rest
<1>20. ASSUME NEW e \in Evaluators, Exec(e) PROVE TypeOK'
  BY <1>20 DEF Exec, Go, Raise, rest
<1>21. ASSUME NEW e \in Evaluators, CallAction(e) PROVE TypeOK'
  BY <1>21 DEF CallAction, Go, Raise, rest
<1>22. ASSUME NEW e \in Evaluators, EndAction(e) PROVE TypeOK'
  BY <1>22 DEF EndAction, Go, rest
<1>23. ASSUME Crash PROVE TypeOK'
  <2>1. inst' \in Instance
    BY <1>23, NewInstanceType DEF Crash
  <2>2. eval' \in [Evaluators -> Eval] /\ mq' \in Request
    BY <1>23 DEF Crash
  <2>3. crashes' \in 0..MaxCrashes
    BY <1>23 DEF Crash
  <2>4. poll' \in [Tests -> Poll] /\ strays' \subseteq Stray
    BY <1>23 DEF Crash, NoPolls, Poll
  <2> QED
    BY <1>23, <2>1, <2>2, <2>3, <2>4 DEF Crash
<1>24. ASSUME UNCHANGED vars PROVE TypeOK'
  BY <1>24 DEF vars
<1>25. ASSUME Subscribe PROVE TypeOK'
  BY <1>25 DEF Subscribe
<1>26. ASSUME NEW t \in Tests, Look(t) PROVE TypeOK'
  BY <1>26 DEF Look, rest, Poll, Stray
<1>27. ASSUME NEW t \in Tests, Looked(t) PROVE TypeOK'
  BY <1>27 DEF Looked, rest, Poll, Stray
<1>28. ASSUME NEW t \in Tests, Trigger(t) PROVE TypeOK'
  BY <1>28 DEF Trigger, Go, rest, Poll, Stray
<1>29. ASSUME StraysAct PROVE TypeOK'
  BY <1>29 DEF StraysAct, Poll, Stray
<1>30. ASSUME StraysRest PROVE TypeOK'
  BY <1>30 DEF StraysRest, Poll, Stray
<1> QED
  BY <1>1, <1>2, <1>3, <1>4, <1>5, <1>6, <1>7, <1>8, <1>9, <1>10, <1>11, <1>12, <1>13, <1>14,
     <1>15, <1>16, <1>17, <1>18, <1>19, <1>20, <1>21, <1>22, <1>23, <1>24, <1>25, <1>26,
     <1>27, <1>28, <1>29, <1>30
  DEF Next, Requests, MqThread, PollThread, TestThread, Evaluators

\* Every step keeps the request at one of its places.
LEMMA RequestInvStep == IInv /\ [Next]_vars => RequestInv'
<1> SUFFICES ASSUME IInv, [Next]_vars
             PROVE  RequestInv'
  OBVIOUS
<1> USE ScenarioAssumption DEF TypeOK, Presence, Instance, Eval, Ops, Request, Idle, NoThreads, NoPolls, NewInstance,
       Evaluators, IInv, RequestInv
<1>1. ASSUME Delete PROVE RequestInv'
  BY <1>1 DEF Delete, Serve
<1>2. ASSUME Enable PROVE RequestInv'
  BY <1>2 DEF Enable, Serve
<1>3. ASSUME Disable PROVE RequestInv'
  BY <1>3 DEF Disable, Serve
<1>4. ASSUME SensorMessage PROVE RequestInv'
  BY <1>4 DEF SensorMessage, Serve, Go
<1>5. ASSUME NEW w \in {"enabled", "disabled"}, Create(w) PROVE RequestInv'
  BY <1>5 DEF Create, Serve
<1>6. ASSUME NEW w \in {"enabled", "disabled"}, Update(w) PROVE RequestInv'
  BY <1>6 DEF Update, Serve
<1>7. ASSUME CleanActions PROVE RequestInv'
  BY <1>7 DEF CleanActions
<1>8. ASSUME JoinTest PROVE RequestInv'
  BY <1>8 DEF JoinTest, Go
<1>9. ASSUME EndClean PROVE RequestInv'
  BY <1>9 DEF EndClean
<1>10. ASSUME WriteRow PROVE RequestInv'
  BY <1>10 DEF WriteRow, End
<1>11. ASSUME Load PROVE RequestInv'
  BY <1>11 DEF Load
<1>12. ASSUME Compile PROVE RequestInv'
  BY <1>12 DEF Compile
<1>13. ASSUME BuildFails PROVE RequestInv'
  BY <1>13 DEF BuildFails
<1>14. ASSUME Insert PROVE RequestInv'
  BY <1>14 DEF Insert, Go
<1>15. ASSUME EndEvaluate PROVE RequestInv'
  BY <1>15 DEF EndEvaluate, Go, End
<1>16. ASSUME WriteDb PROVE RequestInv'
  BY <1>16 DEF WriteDb, End
<1>17. ASSUME NEW t \in Tests, StopTest(t) PROVE RequestInv'
  BY <1>17 DEF StopTest
<1>18. ASSUME NEW t \in Tests, BuildTest(t) PROVE RequestInv'
  BY <1>18 DEF BuildTest, Go
<1>19. ASSUME NEW t \in Tests, Begin(t) PROVE RequestInv'
  BY <1>19 DEF Begin, Go, rest
<1>20. ASSUME NEW e \in Evaluators, Exec(e) PROVE RequestInv'
  BY <1>20 DEF Exec, Go, Raise, rest
<1>21. ASSUME NEW e \in Evaluators, CallAction(e) PROVE RequestInv'
  BY <1>21 DEF CallAction, Go, Raise, rest
<1>22. ASSUME NEW e \in Evaluators, EndAction(e) PROVE RequestInv'
  BY <1>22 DEF EndAction, Go, rest
<1>23. ASSUME Crash PROVE RequestInv'
  BY <1>23 DEF Crash
<1>24. ASSUME UNCHANGED vars PROVE RequestInv'
  BY <1>24 DEF vars
<1>25. ASSUME Subscribe PROVE RequestInv'
  BY <1>25 DEF Subscribe
<1>26. ASSUME NEW t \in Tests, Look(t) PROVE RequestInv'
  BY <1>26 DEF Look, rest
<1>27. ASSUME NEW t \in Tests, Looked(t) PROVE RequestInv'
  BY <1>27 DEF Looked, rest
<1>28. ASSUME NEW t \in Tests, Trigger(t) PROVE RequestInv'
  BY <1>28 DEF Trigger, Go, rest
<1>29. ASSUME StraysAct PROVE RequestInv'
  BY <1>29 DEF StraysAct
<1>30. ASSUME StraysRest PROVE RequestInv'
  BY <1>30 DEF StraysRest
<1> QED
  BY <1>1, <1>2, <1>3, <1>4, <1>5, <1>6, <1>7, <1>8, <1>9, <1>10, <1>11, <1>12, <1>13, <1>14,
     <1>15, <1>16, <1>17, <1>18, <1>19, <1>20, <1>21, <1>22, <1>23, <1>24, <1>25, <1>26,
     <1>27, <1>28, <1>29, <1>30
  DEF Next, Requests, MqThread, PollThread, TestThread, Evaluators

\* Every step keeps the threads with the tests.
LEMMA ThreadsInvStep == IInv /\ [Next]_vars => ThreadsInv'
<1> SUFFICES ASSUME IInv, [Next]_vars
             PROVE  ThreadsInv'
  OBVIOUS
<1> USE ScenarioAssumption DEF TypeOK, Presence, Instance, Eval, Ops, Request, Idle, NoThreads, NoPolls, NewInstance,
       Evaluators, IInv, RequestInv, ThreadsInv, InstanceInv, EntryInv, Empty
<1>1. ASSUME Delete PROVE ThreadsInv'
  BY <1>1 DEF Delete, Serve
<1>2. ASSUME Enable PROVE ThreadsInv'
  BY <1>2 DEF Enable, Serve
<1>3. ASSUME Disable PROVE ThreadsInv'
  BY <1>3 DEF Disable, Serve
<1>4. ASSUME SensorMessage PROVE ThreadsInv'
  BY <1>4 DEF SensorMessage, Serve, Go
<1>5. ASSUME NEW w \in {"enabled", "disabled"}, Create(w) PROVE ThreadsInv'
  BY <1>5 DEF Create, Serve
<1>6. ASSUME NEW w \in {"enabled", "disabled"}, Update(w) PROVE ThreadsInv'
  BY <1>6 DEF Update, Serve
<1>7. ASSUME CleanActions PROVE ThreadsInv'
  BY <1>7 DEF CleanActions
<1>8. ASSUME JoinTest PROVE ThreadsInv'
  BY <1>8 DEF JoinTest, Go
<1>9. ASSUME EndClean PROVE ThreadsInv'
  BY <1>9 DEF EndClean
<1>10. ASSUME WriteRow PROVE ThreadsInv'
  BY <1>10 DEF WriteRow, End
<1>11. ASSUME Load PROVE ThreadsInv'
  BY <1>11 DEF Load
<1>12. ASSUME Compile PROVE ThreadsInv'
  BY <1>12 DEF Compile
<1>13. ASSUME BuildFails PROVE ThreadsInv'
  BY <1>13 DEF BuildFails
<1>14. ASSUME Insert PROVE ThreadsInv'
  BY <1>14 DEF Insert, Go
<1>15. ASSUME EndEvaluate PROVE ThreadsInv'
  BY <1>15 DEF EndEvaluate, Go, End
<1>16. ASSUME WriteDb PROVE ThreadsInv'
  <2>1. mq' = Idle /\ UNCHANGED <<entry, inst, eval>>
    BY <1>16 DEF WriteDb, End
  <2>2. entry = "absent" => inst.tests = {}
    BY <1>16 DEF WriteDb
  <2> QED
    BY <1>16, <2>1, <2>2 DEF WriteDb
<1>17. ASSUME NEW t \in Tests, StopTest(t) PROVE ThreadsInv'
  BY <1>17 DEF StopTest
<1>18. ASSUME NEW t \in Tests, BuildTest(t) PROVE ThreadsInv'
  BY <1>18 DEF BuildTest, Go
<1>19. ASSUME NEW t \in Tests, Begin(t) PROVE ThreadsInv'
  BY <1>19 DEF Begin, Go, rest
<1>20. ASSUME NEW e \in Evaluators, Exec(e) PROVE ThreadsInv'
  BY <1>20 DEF Exec, Go, Raise, rest
<1>21. ASSUME NEW e \in Evaluators, CallAction(e) PROVE ThreadsInv'
  BY <1>21 DEF CallAction, Go, Raise, rest
<1>22. ASSUME NEW e \in Evaluators, EndAction(e) PROVE ThreadsInv'
  BY <1>22 DEF EndAction, Go, rest
<1>23. ASSUME Crash PROVE ThreadsInv'
  BY <1>23 DEF Crash
<1>24. ASSUME UNCHANGED vars PROVE ThreadsInv'
  BY <1>24 DEF vars
<1>25. ASSUME Subscribe PROVE ThreadsInv'
  BY <1>25 DEF Subscribe
<1>26. ASSUME NEW t \in Tests, Look(t) PROVE ThreadsInv'
  BY <1>26 DEF Look, rest
<1>27. ASSUME NEW t \in Tests, Looked(t) PROVE ThreadsInv'
  BY <1>27 DEF Looked, rest
<1>28. ASSUME NEW t \in Tests, Trigger(t) PROVE ThreadsInv'
  BY <1>28 DEF Trigger, Go, rest
<1>29. ASSUME StraysAct PROVE ThreadsInv'
  BY <1>29 DEF StraysAct
<1>30. ASSUME StraysRest PROVE ThreadsInv'
  BY <1>30 DEF StraysRest
<1> QED
  BY <1>1, <1>2, <1>3, <1>4, <1>5, <1>6, <1>7, <1>8, <1>9, <1>10, <1>11, <1>12, <1>13, <1>14,
     <1>15, <1>16, <1>17, <1>18, <1>19, <1>20, <1>21, <1>22, <1>23, <1>24, <1>25, <1>26,
     <1>27, <1>28, <1>29, <1>30
  DEF Next, Requests, MqThread, PollThread, TestThread, Evaluators

\* Every step keeps the instance as the place of the request says.
LEMMA InstanceInvStep == IInv /\ [Next]_vars => InstanceInv'
<1> SUFFICES ASSUME IInv, [Next]_vars
             PROVE  InstanceInv'
  OBVIOUS
<1> USE ScenarioAssumption DEF TypeOK, Presence, Instance, Eval, Ops, Request, Idle, NoThreads, NoPolls, NewInstance,
       Evaluators, IInv, RequestInv, ThreadsInv, InstanceInv, Built, Empty
<1>1. ASSUME Delete PROVE InstanceInv'
  BY <1>1 DEF Delete, Serve
<1>2. ASSUME Enable PROVE InstanceInv'
  BY <1>2 DEF Enable, Serve
<1>3. ASSUME Disable PROVE InstanceInv'
  BY <1>3 DEF Disable, Serve
<1>4. ASSUME SensorMessage PROVE InstanceInv'
  BY <1>4 DEF SensorMessage, Serve, Go
<1>5. ASSUME NEW w \in {"enabled", "disabled"}, Create(w) PROVE InstanceInv'
  BY <1>5 DEF Create, Serve
<1>6. ASSUME NEW w \in {"enabled", "disabled"}, Update(w) PROVE InstanceInv'
  BY <1>6 DEF Update, Serve
<1>7. ASSUME CleanActions PROVE InstanceInv'
  BY <1>7 DEF CleanActions
<1>8. ASSUME JoinTest PROVE InstanceInv'
  BY <1>8 DEF JoinTest, Go
<1>9. ASSUME EndClean PROVE InstanceInv'
  BY <1>9 DEF EndClean
<1>10. ASSUME WriteRow PROVE InstanceInv'
  <2>1. CASE row' = mq.want /\ inst' = NewInstance(mq.want)
                /\ mq' = [mq EXCEPT !.at = IF mq.want = "enabled" THEN "build" ELSE "insert"]
    BY <1>10, <2>1 DEF WriteRow
  <2>2. CASE UNCHANGED inst /\ mq' = Idle
    BY <1>10, <2>2 DEF WriteRow
  <2> QED
    BY <1>10, <2>1, <2>2 DEF WriteRow, End
<1>11. ASSUME Load PROVE InstanceInv'
  BY <1>11 DEF Load
<1>12. ASSUME Compile PROVE InstanceInv'
  BY <1>12 DEF Compile
<1>13. ASSUME BuildFails PROVE InstanceInv'
  BY <1>13 DEF BuildFails
<1>14. ASSUME Insert PROVE InstanceInv'
  BY <1>14 DEF Insert, Go
<1>15. ASSUME EndEvaluate PROVE InstanceInv'
  BY <1>15 DEF EndEvaluate, Go, End
<1>16. ASSUME WriteDb PROVE InstanceInv'
  BY <1>16 DEF WriteDb, End
<1>17. ASSUME NEW t \in Tests, StopTest(t) PROVE InstanceInv'
  BY <1>17 DEF StopTest
<1>18. ASSUME NEW t \in Tests, BuildTest(t) PROVE InstanceInv'
  BY <1>18 DEF BuildTest, Go
<1>19. ASSUME NEW t \in Tests, Begin(t) PROVE InstanceInv'
  BY <1>19 DEF Begin, Go, rest
<1>20. ASSUME NEW e \in Evaluators, Exec(e) PROVE InstanceInv'
  BY <1>20 DEF Exec, Go, Raise, rest
<1>21. ASSUME NEW e \in Evaluators, CallAction(e) PROVE InstanceInv'
  BY <1>21 DEF CallAction, Go, Raise, rest
<1>22. ASSUME NEW e \in Evaluators, EndAction(e) PROVE InstanceInv'
  BY <1>22 DEF EndAction, Go, rest
<1>23. ASSUME Crash PROVE InstanceInv'
  BY <1>23 DEF Crash
<1>24. ASSUME UNCHANGED vars PROVE InstanceInv'
  BY <1>24 DEF vars
<1>25. ASSUME Subscribe PROVE InstanceInv'
  BY <1>25 DEF Subscribe
<1>26. ASSUME NEW t \in Tests, Look(t) PROVE InstanceInv'
  BY <1>26 DEF Look, rest
<1>27. ASSUME NEW t \in Tests, Looked(t) PROVE InstanceInv'
  BY <1>27 DEF Looked, rest
<1>28. ASSUME NEW t \in Tests, Trigger(t) PROVE InstanceInv'
  BY <1>28 DEF Trigger, Go, rest
<1>29. ASSUME StraysAct PROVE InstanceInv'
  BY <1>29 DEF StraysAct
<1>30. ASSUME StraysRest PROVE InstanceInv'
  BY <1>30 DEF StraysRest
<1> HIDE DEF TypeOK, Presence, Instance, Eval, Ops, Request, Idle, NoThreads, NoPolls, NewInstance,
       IInv, RequestInv, ThreadsInv, InstanceInv
<1> QED
  BY <1>1, <1>2, <1>3, <1>4, <1>5, <1>6, <1>7, <1>8, <1>9, <1>10, <1>11, <1>12, <1>13, <1>14,
     <1>15, <1>16, <1>17, <1>18, <1>19, <1>20, <1>21, <1>22, <1>23, <1>24, <1>25, <1>26,
     <1>27, <1>28, <1>29, <1>30
  DEF Next, Requests, MqThread, PollThread, TestThread, Evaluators

\* Every step keeps the entry as the place of the request says.
LEMMA EntryInvStep == IInv /\ [Next]_vars => EntryInv'
<1> SUFFICES ASSUME IInv, [Next]_vars
             PROVE  EntryInv'
  OBVIOUS
<1> USE ScenarioAssumption DEF TypeOK, Presence, Instance, Eval, Ops, Request, Idle, NoThreads, NoPolls, NewInstance,
       Evaluators, IInv, RequestInv, EntryInv
<1>1. ASSUME Delete PROVE EntryInv'
  BY <1>1 DEF Delete, Serve
<1>2. ASSUME Enable PROVE EntryInv'
  BY <1>2 DEF Enable, Serve
<1>3. ASSUME Disable PROVE EntryInv'
  BY <1>3 DEF Disable, Serve
<1>4. ASSUME SensorMessage PROVE EntryInv'
  BY <1>4 DEF SensorMessage, Serve, Go
<1>5. ASSUME NEW w \in {"enabled", "disabled"}, Create(w) PROVE EntryInv'
  BY <1>5 DEF Create, Serve
<1>6. ASSUME NEW w \in {"enabled", "disabled"}, Update(w) PROVE EntryInv'
  BY <1>6 DEF Update, Serve
<1>7. ASSUME CleanActions PROVE EntryInv'
  BY <1>7 DEF CleanActions
<1>8. ASSUME JoinTest PROVE EntryInv'
  BY <1>8 DEF JoinTest, Go
<1>9. ASSUME EndClean PROVE EntryInv'
  BY <1>9 DEF EndClean
<1>10. ASSUME WriteRow PROVE EntryInv'
  BY <1>10 DEF WriteRow, End
<1>11. ASSUME Load PROVE EntryInv'
  BY <1>11 DEF Load
<1>12. ASSUME Compile PROVE EntryInv'
  BY <1>12 DEF Compile
<1>13. ASSUME BuildFails PROVE EntryInv'
  BY <1>13 DEF BuildFails
<1>14. ASSUME Insert PROVE EntryInv'
  BY <1>14 DEF Insert, Go
<1>15. ASSUME EndEvaluate PROVE EntryInv'
  BY <1>15 DEF EndEvaluate, Go, End
<1>16. ASSUME WriteDb PROVE EntryInv'
  BY <1>16 DEF WriteDb, End
<1>17. ASSUME NEW t \in Tests, StopTest(t) PROVE EntryInv'
  BY <1>17 DEF StopTest
<1>18. ASSUME NEW t \in Tests, BuildTest(t) PROVE EntryInv'
  BY <1>18 DEF BuildTest, Go
<1>19. ASSUME NEW t \in Tests, Begin(t) PROVE EntryInv'
  BY <1>19 DEF Begin, Go, rest
<1>20. ASSUME NEW e \in Evaluators, Exec(e) PROVE EntryInv'
  BY <1>20 DEF Exec, Go, Raise, rest
<1>21. ASSUME NEW e \in Evaluators, CallAction(e) PROVE EntryInv'
  BY <1>21 DEF CallAction, Go, Raise, rest
<1>22. ASSUME NEW e \in Evaluators, EndAction(e) PROVE EntryInv'
  BY <1>22 DEF EndAction, Go, rest
<1>23. ASSUME Crash PROVE EntryInv'
  BY <1>23 DEF Crash
<1>24. ASSUME UNCHANGED vars PROVE EntryInv'
  BY <1>24 DEF vars
<1>25. ASSUME Subscribe PROVE EntryInv'
  BY <1>25 DEF Subscribe
<1>26. ASSUME NEW t \in Tests, Look(t) PROVE EntryInv'
  BY <1>26 DEF Look, rest
<1>27. ASSUME NEW t \in Tests, Looked(t) PROVE EntryInv'
  BY <1>27 DEF Looked, rest
<1>28. ASSUME NEW t \in Tests, Trigger(t) PROVE EntryInv'
  BY <1>28 DEF Trigger, Go, rest
<1>29. ASSUME StraysAct PROVE EntryInv'
  BY <1>29 DEF StraysAct
<1>30. ASSUME StraysRest PROVE EntryInv'
  BY <1>30 DEF StraysRest
<1> QED
  BY <1>1, <1>2, <1>3, <1>4, <1>5, <1>6, <1>7, <1>8, <1>9, <1>10, <1>11, <1>12, <1>13, <1>14,
     <1>15, <1>16, <1>17, <1>18, <1>19, <1>20, <1>21, <1>22, <1>23, <1>24, <1>25, <1>26,
     <1>27, <1>28, <1>29, <1>30
  DEF Next, Requests, MqThread, PollThread, TestThread, Evaluators

\* Every step keeps the row as it was promised, or as the request leaves it.
LEMMA RowInvStep == IInv /\ [Next]_vars => RowInv'
<1> SUFFICES ASSUME IInv, [Next]_vars
             PROVE  RowInv'
  OBVIOUS
<1> USE ScenarioAssumption DEF TypeOK, Presence, Instance, Eval, Ops, Request, Idle, NoThreads, NoPolls, NewInstance,
       Evaluators, IInv, RequestInv, RowInv
<1>1. ASSUME Delete PROVE RowInv'
  BY <1>1 DEF Delete, Serve
<1>2. ASSUME Enable PROVE RowInv'
  BY <1>2 DEF Enable, Serve
<1>3. ASSUME Disable PROVE RowInv'
  BY <1>3 DEF Disable, Serve
<1>4. ASSUME SensorMessage PROVE RowInv'
  BY <1>4 DEF SensorMessage, Serve, Go
<1>5. ASSUME NEW w \in {"enabled", "disabled"}, Create(w) PROVE RowInv'
  BY <1>5 DEF Create, Serve
<1>6. ASSUME NEW w \in {"enabled", "disabled"}, Update(w) PROVE RowInv'
  BY <1>6 DEF Update, Serve
<1>7. ASSUME CleanActions PROVE RowInv'
  BY <1>7 DEF CleanActions
<1>8. ASSUME JoinTest PROVE RowInv'
  BY <1>8 DEF JoinTest, Go
<1>9. ASSUME EndClean PROVE RowInv'
  BY <1>9 DEF EndClean
<1>10. ASSUME WriteRow PROVE RowInv'
  BY <1>10 DEF WriteRow, End
<1>11. ASSUME Load PROVE RowInv'
  BY <1>11 DEF Load
<1>12. ASSUME Compile PROVE RowInv'
  BY <1>12 DEF Compile
<1>13. ASSUME BuildFails PROVE RowInv'
  BY <1>13 DEF BuildFails
<1>14. ASSUME Insert PROVE RowInv'
  BY <1>14 DEF Insert, Go
<1>15. ASSUME EndEvaluate PROVE RowInv'
  BY <1>15 DEF EndEvaluate, Go, End
<1>16. ASSUME WriteDb PROVE RowInv'
  BY <1>16 DEF WriteDb, End
<1>17. ASSUME NEW t \in Tests, StopTest(t) PROVE RowInv'
  BY <1>17 DEF StopTest
<1>18. ASSUME NEW t \in Tests, BuildTest(t) PROVE RowInv'
  BY <1>18 DEF BuildTest, Go
<1>19. ASSUME NEW t \in Tests, Begin(t) PROVE RowInv'
  BY <1>19 DEF Begin, Go, rest
<1>20. ASSUME NEW e \in Evaluators, Exec(e) PROVE RowInv'
  BY <1>20 DEF Exec, Go, Raise, rest
<1>21. ASSUME NEW e \in Evaluators, CallAction(e) PROVE RowInv'
  BY <1>21 DEF CallAction, Go, Raise, rest
<1>22. ASSUME NEW e \in Evaluators, EndAction(e) PROVE RowInv'
  BY <1>22 DEF EndAction, Go, rest
<1>23. ASSUME Crash PROVE RowInv'
  BY <1>23 DEF Crash
<1>24. ASSUME UNCHANGED vars PROVE RowInv'
  BY <1>24 DEF vars
<1>25. ASSUME Subscribe PROVE RowInv'
  BY <1>25 DEF Subscribe
<1>26. ASSUME NEW t \in Tests, Look(t) PROVE RowInv'
  BY <1>26 DEF Look, rest
<1>27. ASSUME NEW t \in Tests, Looked(t) PROVE RowInv'
  BY <1>27 DEF Looked, rest
<1>28. ASSUME NEW t \in Tests, Trigger(t) PROVE RowInv'
  BY <1>28 DEF Trigger, Go, rest
<1>29. ASSUME StraysAct PROVE RowInv'
  BY <1>29 DEF StraysAct
<1>30. ASSUME StraysRest PROVE RowInv'
  BY <1>30 DEF StraysRest
<1> QED
  BY <1>1, <1>2, <1>3, <1>4, <1>5, <1>6, <1>7, <1>8, <1>9, <1>10, <1>11, <1>12, <1>13, <1>14,
     <1>15, <1>16, <1>17, <1>18, <1>19, <1>20, <1>21, <1>22, <1>23, <1>24, <1>25, <1>26,
     <1>27, <1>28, <1>29, <1>30
  DEF Next, Requests, MqThread, PollThread, TestThread, Evaluators

\* Every step keeps memory as it was promised.
LEMMA MemoryInvStep == IInv /\ [Next]_vars => MemoryInv'
<1> SUFFICES ASSUME IInv, [Next]_vars
             PROVE  MemoryInv'
  OBVIOUS
<1> USE ScenarioAssumption DEF TypeOK, Presence, Instance, Eval, Ops, Request, Idle, NoThreads, NoPolls, NewInstance,
       Evaluators, IInv, RequestInv, ThreadsInv, InstanceInv, EntryInv, RowInv,
       MemoryInv, Built, Empty, Up, Down
<1>1. ASSUME Delete PROVE MemoryInv'
  BY <1>1 DEF Delete, Serve
<1>2. ASSUME Enable PROVE MemoryInv'
  BY <1>2 DEF Enable, Serve
<1>3. ASSUME Disable PROVE MemoryInv'
  BY <1>3 DEF Disable, Serve
<1>4. ASSUME SensorMessage PROVE MemoryInv'
  BY <1>4 DEF SensorMessage, Serve, Go
<1>5. ASSUME NEW w \in {"enabled", "disabled"}, Create(w) PROVE MemoryInv'
  BY <1>5 DEF Create, Serve
<1>6. ASSUME NEW w \in {"enabled", "disabled"}, Update(w) PROVE MemoryInv'
  BY <1>6 DEF Update, Serve
<1>7. ASSUME CleanActions PROVE MemoryInv'
  BY <1>7 DEF CleanActions
<1>8. ASSUME JoinTest PROVE MemoryInv'
  BY <1>8 DEF JoinTest, Go
<1>9. ASSUME EndClean PROVE MemoryInv'
  BY <1>9 DEF EndClean
<1>10. ASSUME WriteRow PROVE MemoryInv'
  BY <1>10 DEF WriteRow, End
<1>11. ASSUME Load PROVE MemoryInv'
  BY <1>11 DEF Load
<1>12. ASSUME Compile PROVE MemoryInv'
  BY <1>12 DEF Compile
<1>13. ASSUME BuildFails PROVE MemoryInv'
  BY <1>13 DEF BuildFails
<1>14. ASSUME Insert PROVE MemoryInv'
  BY <1>14 DEF Insert, Go
<1>15. ASSUME EndEvaluate PROVE MemoryInv'
  BY <1>15 DEF EndEvaluate, Go, End
<1>16. ASSUME WriteDb PROVE MemoryInv'
  <2>1. UNCHANGED <<entry, inst, eval>> /\ promised' \in {"none", mq.want}
    BY <1>16 DEF WriteDb, End
  <2>2. CASE mq.op = "enable"
    BY <1>16, <2>1, <2>2 DEF WriteDb
  <2>3. CASE mq.op # "enable"
    BY <1>16, <2>1, <2>3 DEF WriteDb
  <2> QED
    BY <2>2, <2>3
<1>17. ASSUME NEW t \in Tests, StopTest(t) PROVE MemoryInv'
  BY <1>17 DEF StopTest
<1>18. ASSUME NEW t \in Tests, BuildTest(t) PROVE MemoryInv'
  BY <1>18 DEF BuildTest, Go
<1>19. ASSUME NEW t \in Tests, Begin(t) PROVE MemoryInv'
  BY <1>19 DEF Begin, Go, rest
<1>20. ASSUME NEW e \in Evaluators, Exec(e) PROVE MemoryInv'
  BY <1>20 DEF Exec, Go, Raise, rest
<1>21. ASSUME NEW e \in Evaluators, CallAction(e) PROVE MemoryInv'
  BY <1>21 DEF CallAction, Go, Raise, rest
<1>22. ASSUME NEW e \in Evaluators, EndAction(e) PROVE MemoryInv'
  BY <1>22 DEF EndAction, Go, rest
<1>23. ASSUME Crash PROVE MemoryInv'
  BY <1>23 DEF Crash
<1>24. ASSUME UNCHANGED vars PROVE MemoryInv'
  BY <1>24 DEF vars
<1>25. ASSUME Subscribe PROVE MemoryInv'
  BY <1>25 DEF Subscribe
<1>26. ASSUME NEW t \in Tests, Look(t) PROVE MemoryInv'
  BY <1>26 DEF Look, rest
<1>27. ASSUME NEW t \in Tests, Looked(t) PROVE MemoryInv'
  BY <1>27 DEF Looked, rest
<1>28. ASSUME NEW t \in Tests, Trigger(t) PROVE MemoryInv'
  BY <1>28 DEF Trigger, Go, rest
<1>29. ASSUME StraysAct PROVE MemoryInv'
  BY <1>29 DEF StraysAct
<1>30. ASSUME StraysRest PROVE MemoryInv'
  BY <1>30 DEF StraysRest
<1> QED
  BY <1>1, <1>2, <1>3, <1>4, <1>5, <1>6, <1>7, <1>8, <1>9, <1>10, <1>11, <1>12, <1>13, <1>14,
     <1>15, <1>16, <1>17, <1>18, <1>19, <1>20, <1>21, <1>22, <1>23, <1>24, <1>25, <1>26,
     <1>27, <1>28, <1>29, <1>30
  DEF Next, Requests, MqThread, PollThread, TestThread, Evaluators

\* Every step keeps the actions away from a scenario that is not up.
LEMMA LiveInvStep == IInv /\ [Next]_vars => LiveInv'
<1> SUFFICES ASSUME IInv, [Next]_vars
             PROVE  LiveInv'
  OBVIOUS
<1> USE ScenarioAssumption DEF TypeOK, Presence, Instance, Eval, Ops, Request, Idle, NoThreads, NoPolls, NewInstance,
       Evaluators, IInv, RequestInv, ThreadsInv, InstanceInv, EntryInv, RowInv,
       LiveInv, Built, Empty
<1>1. ASSUME Delete PROVE LiveInv'
  BY <1>1 DEF Delete, Serve
<1>2. ASSUME Enable PROVE LiveInv'
  BY <1>2 DEF Enable, Serve
<1>3. ASSUME Disable PROVE LiveInv'
  BY <1>3 DEF Disable, Serve
<1>4. ASSUME SensorMessage PROVE LiveInv'
  BY <1>4 DEF SensorMessage, Serve, Go
<1>5. ASSUME NEW w \in {"enabled", "disabled"}, Create(w) PROVE LiveInv'
  BY <1>5 DEF Create, Serve
<1>6. ASSUME NEW w \in {"enabled", "disabled"}, Update(w) PROVE LiveInv'
  BY <1>6 DEF Update, Serve
<1>7. ASSUME CleanActions PROVE LiveInv'
  BY <1>7 DEF CleanActions
<1>8. ASSUME JoinTest PROVE LiveInv'
  BY <1>8 DEF JoinTest, Go
<1>9. ASSUME EndClean PROVE LiveInv'
  BY <1>9 DEF EndClean
<1>10. ASSUME WriteRow PROVE LiveInv'
  BY <1>10 DEF WriteRow, End
<1>11. ASSUME Load PROVE LiveInv'
  BY <1>11 DEF Load
<1>12. ASSUME Compile PROVE LiveInv'
  BY <1>12 DEF Compile
<1>13. ASSUME BuildFails PROVE LiveInv'
  BY <1>13 DEF BuildFails
<1>14. ASSUME Insert PROVE LiveInv'
  BY <1>14 DEF Insert, Go
<1>15. ASSUME EndEvaluate PROVE LiveInv'
  BY <1>15 DEF EndEvaluate, Go, End
<1>16. ASSUME WriteDb PROVE LiveInv'
  BY <1>16 DEF WriteDb, End
<1>17. ASSUME NEW t \in Tests, StopTest(t) PROVE LiveInv'
  BY <1>17 DEF StopTest
<1>18. ASSUME NEW t \in Tests, BuildTest(t) PROVE LiveInv'
  BY <1>18 DEF BuildTest, Go
<1>19. ASSUME NEW t \in Tests, Begin(t) PROVE LiveInv'
  BY <1>19 DEF Begin, Go, rest
<1>20. ASSUME NEW e \in Evaluators, Exec(e) PROVE LiveInv'
  BY <1>20 DEF Exec, Go, Raise, rest
<1>21. ASSUME NEW e \in Evaluators, CallAction(e) PROVE LiveInv'
  BY <1>21 DEF CallAction, Go, Raise, rest
<1>22. ASSUME NEW e \in Evaluators, EndAction(e) PROVE LiveInv'
  BY <1>22 DEF EndAction, Go, rest
<1>23. ASSUME Crash PROVE LiveInv'
  BY <1>23 DEF Crash
<1>24. ASSUME UNCHANGED vars PROVE LiveInv'
  BY <1>24 DEF vars
<1>25. ASSUME Subscribe PROVE LiveInv'
  BY <1>25 DEF Subscribe
<1>26. ASSUME NEW t \in Tests, Look(t) PROVE LiveInv'
  BY <1>26 DEF Look, rest
<1>27. ASSUME NEW t \in Tests, Looked(t) PROVE LiveInv'
  BY <1>27 DEF Looked, rest
<1>28. ASSUME NEW t \in Tests, Trigger(t) PROVE LiveInv'
  BY <1>28 DEF Trigger, Go, rest
<1>29. ASSUME StraysAct PROVE LiveInv'
  BY <1>29 DEF StraysAct
<1>30. ASSUME StraysRest PROVE LiveInv'
  BY <1>30 DEF StraysRest
<1> QED
  BY <1>1, <1>2, <1>3, <1>4, <1>5, <1>6, <1>7, <1>8, <1>9, <1>10, <1>11, <1>12, <1>13, <1>14,
     <1>15, <1>16, <1>17, <1>18, <1>19, <1>20, <1>21, <1>22, <1>23, <1>24, <1>25, <1>26,
     <1>27, <1>28, <1>29, <1>30
  DEF Next, Requests, MqThread, PollThread, TestThread, Evaluators

\* The inductive invariant.
LEMMA Invariance == Spec => []IInv
<1>1. IInv /\ [Next]_vars => IInv'
  BY TypeOKStep, RequestInvStep, ThreadsInvStep, InstanceInvStep, EntryInvStep, RowInvStep,
     MemoryInvStep, LiveInvStep DEF IInv
<1> QED
  BY <1>1, InitInv, PTL DEF Spec

\* The row, the entry, the instance, the threads and the request keep their types.
THEOREM TypeCorrect == Spec => []TypeOK
<1>1. IInv => TypeOK
  BY DEF IInv
<1> QED
  BY <1>1, Invariance, PTL

\* What a reply OK said holds until the next request, whatever fails and however
\* often the process is restarted.
THEOREM PromisesAreKept == Spec => []PromiseIsKept
<1>1. IInv => PromiseIsKept
  BY DEF IInv, PromiseIsKept, RowInv, MemoryInv
<1> QED
  BY <1>1, Invariance, PTL

\* As long as no set-up has failed since the process was started, no thread is left of a
\* scenario that is off.
THEOREM OffStaysQuiet == Spec => []OffIsQuiet
<1>1. IInv => OffIsQuiet
  <2> SUFFICES ASSUME IInv, mq.at = "idle", entry = "absent" \/ inst.disabled
               PROVE  eval = NoThreads /\ poll = NoPolls
    BY DEF OffIsQuiet
  <2>1. eval[MQ] = "wait" /\ \A t \in Tests : eval[t] = "none" /\ poll[t] = "none"
    BY DEF IInv, ThreadsInv, InstanceInv
  <2>2. eval \in [Evaluators -> Eval] /\ poll \in [Tests -> Poll]
    BY DEF IInv, TypeOK
  <2> QED
    BY <2>1, <2>2, ScenarioAssumption DEF NoThreads, NoPolls, Evaluators
<1> QED
  BY <1>1, Invariance, PTL

\* No action begins while a scenario is taken down, although its threads go on.
THEOREM NoActionIsBegun == Spec => NoActionBegins
<1>1. IInv /\ [Next]_vars => (mq.at = "join" => \A t \in Tests : eval'[t] = "act" => eval[t] = "act")
  <2> SUFFICES ASSUME IInv, [Next]_vars, mq.at = "join", NEW t \in Tests, eval'[t] = "act"
               PROVE  eval[t] = "act"
    OBVIOUS
  <2>1. ~ inst.actions /\ eval \in [Evaluators -> Eval] /\ t \in Evaluators
    BY DEF IInv, InstanceInv, TypeOK, Evaluators
  <2>2. CASE UNCHANGED eval
    BY <2>2
  <2>3. CASE JoinTest
    BY <2>1, <2>3 DEF JoinTest, Go
  <2>4. CASE \E s \in Tests : Begin(s)
    BY <2>1, <2>4 DEF Begin, Go
  <2>5. CASE \E e \in Evaluators : Exec(e) \/ CallAction(e) \/ EndAction(e)
    BY <2>1, <2>5 DEF Exec, CallAction, EndAction, Raise, Go
  <2>6. CASE Crash
    BY <2>6, ScenarioAssumption DEF Crash, NoThreads, Evaluators
  <2>7. CASE \E s \in Tests : Trigger(s)
    BY <2>1, <2>7 DEF Trigger, Go
  <2> QED
    BY <2>2, <2>3, <2>4, <2>5, <2>6, <2>7 DEF Next, Requests, MqThread, PollThread, TestThread,
       Evaluators, Create, Update, Delete, Enable, Disable, SensorMessage, Serve, CleanActions,
       EndClean, WriteRow, Load, Compile, Subscribe, BuildFails, Insert, EndEvaluate, WriteDb,
       StopTest, BuildTest, Look, Looked, StraysAct, StraysRest, vars, Idle
<1> QED
  BY <1>1, Invariance, PTL DEF Spec, NoActionBegins

\* The initial state of the manager is one of ScenarioService.
LEMMA ServiceInit == Init => Service!Init
  BY ScenarioAssumption DEF Init, Service!Init, Serving, Goal, Acting, Idle, NoThreads, NoPolls, NewInstance, Evaluators

\* Every step of the manager is a step of ScenarioService, or nothing that a user sees.
LEMMA ServiceStep == IInv /\ [Next]_vars => [Service!Next]_Service!vars
<1> SUFFICES ASSUME IInv, [Next]_vars
             PROVE  Service!Next \/ UNCHANGED Service!vars
  OBVIOUS
<1> USE ScenarioAssumption DEF TypeOK, Presence, Instance, Eval, Ops, Request, Idle, NoThreads, NoPolls, NewInstance,
       Evaluators, IInv, RequestInv, ThreadsInv, InstanceInv, EntryInv, RowInv,
       LiveInv, Built, Empty, Serving, Goal, Acting, Service!vars, Service!Changes, Service!Builders,
       Service!Cleaners
<1>1. ASSUME Delete PROVE Service!Next
  <2>1. Service!Ask("delete", "absent")
    BY <1>1 DEF Delete, Serve, Service!Ask
  <2> QED
    BY <2>1 DEF Service!Next
<1>2. ASSUME Enable PROVE Service!Next
  <2>1. Service!Ask("enable", "enabled")
    BY <1>2 DEF Enable, Serve, Service!Ask
  <2> QED
    BY <2>1 DEF Service!Next
<1>3. ASSUME Disable PROVE Service!Next
  <2>1. Service!Ask("disable", "disabled")
    BY <1>3 DEF Disable, Serve, Service!Ask
  <2> QED
    BY <2>1 DEF Service!Next
<1>4. ASSUME SensorMessage PROVE Service!Next
  <2>1. Service!Ask("message", "absent")
    BY <1>4 DEF SensorMessage, Serve, Go, Service!Ask
  <2> QED
    BY <2>1 DEF Service!Next
<1>5. ASSUME NEW w \in {"enabled", "disabled"}, Create(w) PROVE Service!Next
  <2>1. Service!Ask("create", w)
    BY <1>5 DEF Create, Serve, Service!Ask
  <2> QED
    BY <2>1 DEF Service!Next
<1>6. ASSUME NEW w \in {"enabled", "disabled"}, Update(w) PROVE Service!Next
  <2>1. Service!Ask("update", w)
    BY <1>6 DEF Update, Serve, Service!Ask
  <2> QED
    BY <2>1 DEF Service!Next
<1>7. ASSUME CleanActions PROVE Service!Next
  <2>1. Service!TakeDown
    BY <1>7 DEF CleanActions, Service!TakeDown
  <2> QED
    BY <2>1 DEF Service!Next
<1>8. ASSUME JoinTest PROVE UNCHANGED Service!vars
  BY <1>8 DEF JoinTest, Go
<1>9. ASSUME EndClean PROVE UNCHANGED Service!vars
  BY <1>9 DEF EndClean
<1>10. ASSUME WriteRow PROVE Service!Next \/ UNCHANGED Service!vars
  <2>1. mq.at = "row" /\ mq.op \in {"create", "update"} /\ UNCHANGED <<eval, strays>>
    BY <1>10 DEF WriteRow
  <2>2. CASE row' = mq.want /\ mq'.op = mq.op /\ mq'.want = mq.want /\ mq'.at # "idle"
             /\ inst' = NewInstance(mq.want) /\ UNCHANGED promised
    <3>1. Serving' = Serving /\ Goal = mq.want /\ Goal' = Goal /\ Acting' = Acting
      BY <2>1, <2>2
    <3>2. inst'.actions = FALSE /\ inst.actions = FALSE
      BY <2>1, <2>2
    <3>3. Service!Write
      BY <2>1, <2>2, <3>1, <3>2 DEF Service!Write
    <3> QED
      BY <3>3 DEF Service!Next
  <2>3. CASE mq' = Idle /\ UNCHANGED <<row, inst, promised>>
    <3>1. Service!Finish
      BY <1>10, <2>1, <2>3 DEF Service!Finish
    <3> QED
      BY <3>1 DEF Service!Next
  <2>4. promised = "none"
    BY <2>1
  <2> QED
    BY <1>10, <2>2, <2>3, <2>4 DEF WriteRow, End
<1>11. ASSUME Load PROVE Service!Next \/ UNCHANGED Service!vars
  <2>1. /\ mq.at = "load" /\ mq.op = "load"
        /\ inst.actions = FALSE /\ inst'.actions = FALSE
        /\ UNCHANGED <<row, eval, strays, promised>>
    BY <1>11 DEF Load
  <2>2. Serving = "load" /\ Goal = row /\ Acting' = Acting
    BY <2>1
  <2>3. CASE row = "absent"
    <3>1. Serving' = "none" /\ Goal' = "absent"
      BY <1>11, <2>3 DEF Load
    <3>2. Service!Finish
      BY <2>1, <2>2, <3>1 DEF Service!Finish
    <3> QED
      BY <3>2 DEF Service!Next
  <2>4. CASE row # "absent"
    <3>1. mq'.op = "load" /\ mq'.at # "idle"
      BY <1>11, <2>4 DEF Load
    <3>2. Serving' = "load" /\ Goal' = row
      BY <2>1, <3>1
    <3> HIDE DEF Serving, Goal, Acting, IInv
    <3> QED
      BY <2>1, <2>2, <3>2
  <2> QED
    BY <2>3, <2>4
<1>12. ASSUME Compile PROVE Service!Next
  <2>1. Service!SetUp
    BY <1>12 DEF Compile, Service!SetUp
  <2> QED
    BY <2>1 DEF Service!Next
<1>13. ASSUME BuildFails PROVE Service!Next
  <2>1. mq.at \in {"build", "subscribe"} /\ mq' = Idle /\ UNCHANGED promised
    BY <1>13 DEF BuildFails
  <2>2. Serving # "none" /\ Serving' = "none" /\ Goal' = "absent"
    BY <2>1
  <2>3. row' = row \/ (Serving = "create" /\ row' = "absent")
    BY <1>13, <2>1 DEF BuildFails
  <2>4. CASE mq.op = "enable"
    <3>1. UNCHANGED <<inst, eval, strays>>
      BY <1>13, <2>4 DEF BuildFails
    <3>2. Service!Finish
      BY <2>1, <2>2, <2>3, <3>1 DEF Service!Finish
    <3> QED
      BY <3>2 DEF Service!Next
  <2>5. CASE mq.op # "enable"
    <3>1. inst' = NewInstance("enabled") /\ eval' = NoThreads /\ strays' = strays \cup Left
      BY <1>13, <2>5 DEF BuildFails
    <3>2. inst'.actions = FALSE /\ Acting' = {}
      BY <3>1
    <3>3. CASE mq.at = "build"
      <4>1. inst.actions = FALSE /\ Acting = {}
        <5>1. \A e \in Evaluators : eval[e] # "act"
          BY <3>3
        <5> QED
          BY <3>3, <5>1
      <4>2. "armed" \notin Left /\ "acting" \notin Left
        BY <2>5, <3>3 DEF Left
      <4>3. /\ ("armed" \in strays') = ("armed" \in strays)
            /\ ("acting" \in strays') = ("acting" \in strays)
        BY <3>1, <4>2
      <4>4. UNCHANGED <<promised, inst.actions, Acting, "armed" \in strays, "acting" \in strays>>
        BY ONLY <2>1, <3>2, <4>1, <4>3
      <4>5. Service!Finish
        BY ONLY <2>2, <2>3, <4>4 DEF Service!Finish
      <4> QED
        BY <4>5 DEF Service!Next
    <3>4. CASE mq.at = "subscribe"
      <4>1. inst.actions = TRUE /\ Serving \in {"create", "update", "load"}
        BY <2>5, <3>4
      <4>2. ("acting" \in strays') <=> (("acting" \in strays) \/ Acting # {})
        <5>1. Left = IF Tests = {} THEN {}
                     ELSE {"armed"} \cup {"acting" : t \in {u \in Tests : eval[u] = "act"}}
          BY <3>4 DEF Left
        <5>2. Acting # {} <=> \E t \in Tests : eval[t] = "act"
          BY <3>4
        <5> QED
          BY <3>1, <5>1, <5>2
      <4>3. "armed" \in strays => "armed" \in strays'
        BY <3>1
      <4>4. Service!Abandon
        BY <2>1, <2>2, <2>3, <3>2, <4>1, <4>2, <4>3 DEF Service!Abandon
      <4> QED
        BY <4>4 DEF Service!Next
    <3> QED
      BY <2>1, <3>3, <3>4
  <2> QED
    BY <2>4, <2>5
<1>14. ASSUME Insert PROVE UNCHANGED Service!vars
  BY <1>14 DEF Insert, Go
<1>15. ASSUME EndEvaluate PROVE Service!Next \/ UNCHANGED Service!vars
  <2>1. Service!Confirm \/ Service!Finish
    BY <1>15 DEF EndEvaluate, Go, End, Service!Confirm, Service!Finish
  <2> QED
    BY <2>1 DEF Service!Next
<1>16. ASSUME WriteDb PROVE Service!Next \/ UNCHANGED Service!vars
  <2>1. Service!Confirm \/ Service!Finish
    BY <1>16 DEF WriteDb, End, Service!Confirm, Service!Finish
  <2> QED
    BY <2>1 DEF Service!Next
<1>17. ASSUME NEW t \in Tests, StopTest(t) PROVE UNCHANGED Service!vars
  BY <1>17 DEF StopTest
<1>18. ASSUME NEW t \in Tests, BuildTest(t) PROVE UNCHANGED Service!vars
  BY <1>18 DEF BuildTest, Go
<1>19. ASSUME NEW t \in Tests, Begin(t) PROVE UNCHANGED Service!vars
  BY <1>19 DEF Begin, Go, rest
<1>20. ASSUME NEW e \in Evaluators, Exec(e) PROVE UNCHANGED Service!vars
  BY <1>20 DEF Exec, Go, Raise, rest
<1>21. ASSUME NEW e \in Evaluators, CallAction(e) PROVE Service!Next \/ UNCHANGED Service!vars
  <2>1. Service!Act(e) \/ UNCHANGED Service!vars
    BY <1>21 DEF CallAction, Go, Raise, rest, Service!Act
  <2> QED
    BY <2>1 DEF Service!Next
<1>22. ASSUME NEW e \in Evaluators, EndAction(e) PROVE Service!Next
  <2>1. Service!Rest(e)
    BY <1>22 DEF EndAction, Go, rest, Service!Rest
  <2> QED
    BY <2>1 DEF Service!Next
<1>23. ASSUME Crash PROVE Service!Next
  <2>1. Service!Restart
    BY <1>23 DEF Crash, Service!Restart
  <2> QED
    BY <2>1 DEF Service!Next
<1>24. ASSUME UNCHANGED vars PROVE UNCHANGED Service!vars
  BY <1>24 DEF vars
<1>25. ASSUME Subscribe PROVE UNCHANGED Service!vars
  BY <1>25 DEF Subscribe
<1>26. ASSUME NEW t \in Tests, Look(t) PROVE UNCHANGED Service!vars
  BY <1>26 DEF Look, rest
<1>27. ASSUME NEW t \in Tests, Looked(t) PROVE UNCHANGED Service!vars
  BY <1>27 DEF Looked, rest
<1>28. ASSUME NEW t \in Tests, Trigger(t) PROVE UNCHANGED Service!vars
  BY <1>28 DEF Trigger, Go, rest
<1>29. ASSUME StraysAct PROVE Service!Next
  <2>1. Service!Wander
    BY <1>29 DEF StraysAct, Service!Wander
  <2> QED
    BY <2>1 DEF Service!Next
<1>30. ASSUME StraysRest PROVE Service!Next
  <2>1. "acting" \notin strays' /\ ("armed" \in strays' <=> "armed" \in strays)
    BY <1>30 DEF StraysRest
  <2>2. Service!Wander
    BY <1>30, <2>1 DEF StraysRest, Service!Wander
  <2> QED
    BY <2>2 DEF Service!Next
<1> QED
  BY <1>1, <1>2, <1>3, <1>4, <1>5, <1>6, <1>7, <1>8, <1>9, <1>10, <1>11, <1>12, <1>13, <1>14,
     <1>15, <1>16, <1>17, <1>18, <1>19, <1>20, <1>21, <1>22, <1>23, <1>24, <1>25, <1>26,
     <1>27, <1>28, <1>29, <1>30
  DEF Next, Requests, MqThread, PollThread, TestThread, Evaluators

\* The manager implements ScenarioService, for any tests, failures and restarts: the
\* replies, the row and the threads that run actions are as it says.
THEOREM Implementation == Spec => ImplementsService
<1>1. Init => Service!Init
  BY ServiceInit
<1>2. IInv /\ [Next]_vars => [Service!Next]_Service!vars
  BY ServiceStep
<1> QED
  BY <1>1, <1>2, Invariance, PTL DEF Spec, ImplementsService, Service!Spec

=============================================================================
