--------------------------- MODULE ScenarioManager ---------------------------
(***************************************************************************)
(* One scenario of the scenario manager (scenario/manager.py,              *)
(* scenario/scenario.py): its row in the database, its instance in memory  *)
(* and the threads of its tests.                                           *)
(*                                                                         *)
(* The MQ thread serves one request or sensor message at a time.  Tests    *)
(* with a clock or a page to watch have threads, which evaluate the        *)
(* condition, and run its actions, whenever they find it time to: TimeNow  *)
(* in the thread itself, the cron and url parameters, which poll, in a     *)
(* thread that they start and join before the next one.  Nothing is        *)
(* locked: a scenario is taken down by clearing its actions and joining    *)
(* the threads one by one.  Nothing stops the threads of a set-up that     *)
(* failed, the strays.                                                     *)
(***************************************************************************)
EXTENDS Naturals, FiniteSets

CONSTANTS
  Tests,      \* tests of the scenario with threads of their own
  Inline,     \* those whose thread itself evaluates the condition
  MayFail,    \* what may fail: calls of the database, blocks, evaluations, polls
  MaxCrashes, \* bound: restarts of the process
  MQ,         \* the MQ thread, which evaluates the condition too
  None        \* no test

Evaluators == Tests \cup {MQ}

ASSUME ScenarioAssumption ==
  /\ Inline \subseteq Tests
  /\ MayFail \subseteq {"database", "block", "evaluation", "poll"}
  /\ MaxCrashes \in Nat
  /\ MQ \notin Tests /\ None \notin Evaluators

VARIABLES
  row,      \* the scenario in the database
  entry,    \* the scenario in _instances
  inst,     \* its ScenarioInstance, or the one under construction
  eval,     \* eval[e]: where e is in the evaluation of the condition
  poll,     \* poll[t]: what the thread that polls for t does
  strays,   \* what the threads of set-ups that failed may do
  mq,       \* the request the MQ thread serves
  loaded,   \* the last load_scenarios raised nothing for this scenario
  promised, \* what the last reply said, none when it said ERROR
  crashes   \* restarts so far

vars == <<row, entry, inst, eval, poll, strays, mq, loaded, promised, crashes>>

-----------------------------------------------------------------------------
Presence == {"absent", "enabled", "disabled"}

\* compiled: _compiled_condition, current if its tests are those of _mapping.
\* tests, actions: what is in _mapping, all the actions or none.
Instance == [disabled : BOOLEAN, compiled : {"none", "stale", "current"},
             tests : SUBSET Tests, actions : BOOLEAN]

NewInstance(w) ==
  [disabled |-> w = "disabled", compiled |-> "none", tests |-> {}, actions |-> FALSE]

\* A thread is absent, waits, has begun, has found the condition true, runs an
\* action, or was ended by an exception.
Eval == {"none", "wait", "eval", "then", "act", "dead"}

Ops == {"create", "update", "delete", "enable", "disable", "load", "message"}

\* A thread that polls waits, looks at its page or rule, waits for the evaluation
\* that it triggered before to start the next one, or was ended by an exception.
Poll == {"none", "loop", "fetch", "trigger", "ended"}

\* Strays have no condition, or have one and may act, or run an action.
Stray == {"quiet", "armed", "acting"}

\* want: the row the request is to leave; test: the test that is joined.
Request == [at : {"idle", "row", "build", "subscribe", "insert", "evaluate", "clean", "join", "db", "load"},
            op : Ops, want : Presence, test : Tests \cup {None}]

Idle == [at |-> "idle", op |-> "message", want |-> "absent", test |-> None]

NoThreads == [e \in Evaluators |-> IF e = MQ THEN "wait" ELSE "none"]
NoPolls == [t \in Tests |-> "none"]

Init ==
  /\ row = "absent"
  /\ entry = "absent"
  /\ inst = NewInstance("enabled")
  /\ eval = NoThreads
  /\ poll = NoPolls
  /\ strays = {}
  /\ mq = Idle
  /\ loaded = TRUE
  /\ promised = "none"
  /\ crashes = 0

-----------------------------------------------------------------------------
(* The evaluation of the condition, by the threads of the tests and by the *)
(* MQ thread.                                                              *)

rest == <<row, entry, inst, strays, mq, loaded, promised, crashes>>

Go(e, s) == eval' = [eval EXCEPT ![e] = s]

\* Mutant: the loop does not look at the event that destroy has set.
BeginAnyway(t) ==
  /\ t \in Inline
  /\ eval[t] = "wait"
  /\ inst.compiled # "none"
  /\ Go(t, "eval")
  /\ UNCHANGED <<rest, poll>>

\* The loop of TimeNow goes on, unless destroy has set its event.  Without a
\* compiled condition an evaluation returns at once.
Begin(t) ==
  /\ t \in Inline
  /\ eval[t] = "wait"
  /\ mq.test # t
  /\ inst.compiled # "none"
  /\ Go(t, "eval")
  /\ UNCHANGED <<rest, poll>>

\* The loop of a thread that polls goes on in the same way.
Look(t) ==
  /\ poll[t] = "loop"
  /\ mq.test # t
  /\ poll' = [poll EXCEPT ![t] = "fetch"]
  /\ UNCHANGED <<rest, eval>>

\* It has its page, or has checked its rule: there is something to evaluate or not.
\* What raises outside of urlopen ends the thread.
Looked(t) ==
  /\ poll[t] = "fetch"
  /\ \E s \in {"loop", "trigger", "ended"} :
       /\ s = "ended" => "poll" \in MayFail
       /\ poll' = [poll EXCEPT ![t] = s]
  /\ UNCHANGED <<rest, eval>>

\* call_trigger: the thread of the last evaluation is joined, and one is started.
Trigger(t) ==
  /\ poll[t] = "trigger"
  /\ eval[t] = "wait"
  /\ Go(t, IF inst.compiled = "none" THEN "wait" ELSE "eval")
  /\ poll' = [poll EXCEPT ![t] = "loop"]
  /\ UNCHANGED rest

\* Mutant: every thread evaluates by itself.
RaiseEnds(e) == Go(e, "dead")

\* An exception: TimeNow calls the trigger in its own thread, which ends; of a
\* parameter it is the thread that was started for it.
Raise(e) == Go(e, IF e \in Inline \cup {MQ} THEN "dead" ELSE "wait")

\* The condition looks its tests up in _mapping and evaluates them.
Exec(e) ==
  /\ eval[e] = "eval"
  /\ \/ /\ inst.compiled = "current"
        /\ \E s \in {"then", "wait"} : Go(e, s)
     \/ inst.compiled # "current" /\ Raise(e)
     \/ "evaluation" \in MayFail /\ Raise(e)
  /\ UNCHANGED <<rest, poll>>

\* It is true: the action is looked up in _mapping.
CallAction(e) ==
  /\ eval[e] = "then"
  /\ IF inst.actions THEN Go(e, "act") ELSE Raise(e)
  /\ UNCHANGED <<rest, poll>>

\* do_action returns.
EndAction(e) ==
  /\ eval[e] = "act"
  /\ Go(e, "wait")
  /\ UNCHANGED <<rest, poll>>

\* The strays of a set-up that failed late evaluate their own condition and run its
\* actions whenever they find it time to.
StraysAct ==
  /\ "armed" \in strays
  /\ strays' = strays \cup {"acting"}
  /\ UNCHANGED <<row, entry, inst, eval, poll, mq, loaded, promised, crashes>>

StraysRest ==
  /\ strays' = strays \ {"acting"}
  /\ UNCHANGED <<row, entry, inst, eval, poll, mq, loaded, promised, crashes>>

-----------------------------------------------------------------------------
(* Requests.                                                               *)

Serve(at, op, w) ==
  /\ mq = Idle
  /\ mq' = [Idle EXCEPT !.at = at, !.op = op, !.want = w]

\* create_scenario with cid = 0.
Create(w) ==
  /\ entry = "absent" /\ row = "absent"
  /\ Serve("row", "create", w)
  /\ promised' = "none"
  /\ UNCHANGED <<row, entry, inst, eval, poll, strays, loaded, crashes>>

\* update_scenario: the instance is deleted first, if there is one.
Update(w) ==
  /\ entry # "absent" \/ row # "absent"
  /\ Serve(IF entry = "absent" THEN "row" ELSE "clean", "update", w)
  /\ promised' = "none"
  /\ UNCHANGED <<row, entry, inst, eval, poll, strays, loaded, crashes>>

Delete ==
  /\ entry # "absent"
  /\ Serve("clean", "delete", "absent")
  /\ promised' = "none"
  /\ UNCHANGED <<row, entry, inst, eval, poll, strays, loaded, crashes>>

\* ScenarioInstance.enable.
Enable ==
  /\ entry # "absent" /\ inst.disabled
  /\ Serve("build", "enable", "enabled")
  /\ inst' = [inst EXCEPT !.disabled = FALSE]
  /\ promised' = "none"
  /\ UNCHANGED <<row, entry, eval, poll, strays, loaded, crashes>>

\* ScenarioInstance.disable.
Disable ==
  /\ entry # "absent" /\ ~ inst.disabled
  /\ Serve("clean", "disable", "disabled")
  /\ inst' = [inst EXCEPT !.disabled = TRUE]
  /\ promised' = "none"
  /\ UNCHANGED <<row, entry, eval, poll, strays, loaded, crashes>>

\* A device-stats message for a sensor of the scenario: SensorTest triggers.
SensorMessage ==
  /\ entry # "absent" /\ inst.tests # {} /\ inst.compiled # "none"
  /\ Serve("evaluate", "message", "absent")
  /\ Go(MQ, "eval")
  /\ UNCHANGED <<row, entry, inst, poll, strays, loaded, promised, crashes>>

\* The request ends, with a reply that promises s.
End(s) == mq' = Idle /\ promised' = s

-----------------------------------------------------------------------------
(* _clean_instances.                                                       *)

\* Mutant: the actions stay until the tests are gone.
CleanTestsFirst ==
  /\ mq.at = "clean"
  /\ mq' = [mq EXCEPT !.at = "join"]
  /\ UNCHANGED <<row, entry, inst, eval, poll, strays, loaded, promised, crashes>>

CleanActions ==
  /\ mq.at = "clean"
  /\ inst' = [inst EXCEPT !.actions = FALSE]
  /\ mq' = [mq EXCEPT !.at = "join"]
  /\ UNCHANGED <<row, entry, eval, poll, strays, loaded, promised, crashes>>

\* destroy of a test sets the event of its thread ...
StopTest(t) ==
  /\ mq.at = "join" /\ mq.test = None
  /\ eval[t] # "none"
  /\ mq' = [mq EXCEPT !.test = t]
  /\ UNCHANGED <<row, entry, inst, eval, poll, strays, loaded, promised, crashes>>

\* ... and joins it; a parameter joins the thread that polls and then the one that
\* evaluates.
JoinTest ==
  /\ mq.test # None
  /\ poll[mq.test] \in {"none", "loop", "ended"}
  /\ eval[mq.test] \in {"wait", "dead"}
  /\ Go(mq.test, "none")
  /\ poll' = [poll EXCEPT ![mq.test] = "none"]
  /\ mq' = [mq EXCEPT !.test = None]
  /\ UNCHANGED <<row, entry, inst, strays, loaded, promised, crashes>>

\* Mutant: the tests that are still to be destroyed are forgotten.
EndCleanEarly ==
  /\ mq.at = "join" /\ mq.test = None
  /\ inst' = [inst EXCEPT !.tests = {},
                          !.compiled = IF @ = "current" THEN "stale" ELSE @]
  /\ entry' = IF mq.op = "disable" THEN "disabled" ELSE "absent"
  /\ mq' = [mq EXCEPT !.at = IF mq.op = "update" THEN "row" ELSE "db"]
  /\ UNCHANGED <<row, eval, poll, strays, loaded, promised, crashes>>

\* _mapping is emptied, the condition stays, and the caller goes on.
EndClean ==
  /\ mq.at = "join" /\ mq.test = None
  /\ \A t \in Tests : eval[t] = "none"
  /\ inst' = [inst EXCEPT !.tests = {},
                          !.compiled = IF @ = "current" THEN "stale" ELSE @]
  /\ entry' = IF mq.op = "disable" THEN "disabled" ELSE "absent"
  /\ mq' = [mq EXCEPT !.at = IF mq.op = "update" THEN "row" ELSE "db"]
  /\ UNCHANGED <<row, eval, poll, strays, loaded, promised, crashes>>

-----------------------------------------------------------------------------
(* create_scenario, _instanciate, and what enable and disable do after it. *)

\* add_scenario or update_scenario of the database, which raises for a row that
\* is not there.
WriteRow ==
  /\ mq.at = "row"
  /\ \/ /\ mq.op = "create" \/ row # "absent"
        /\ row' = mq.want
        /\ mq' = [mq EXCEPT !.at = IF mq.want = "enabled" THEN "build" ELSE "insert"]
        /\ inst' = NewInstance(mq.want)
        /\ UNCHANGED promised
     \/ /\ "database" \in MayFail \/ (mq.op = "update" /\ row = "absent")
        /\ End("none")
        /\ UNCHANGED <<row, inst>>
  /\ UNCHANGED <<entry, eval, poll, strays, loaded, crashes>>

\* load_scenarios: create_scenario with the id of the row.
Load ==
  /\ mq.at = "load"
  /\ mq' = IF row = "absent" THEN Idle
           ELSE [mq EXCEPT !.at = IF row = "enabled" THEN "build" ELSE "insert", !.want = row]
  /\ inst' = NewInstance(row)
  /\ UNCHANGED <<row, entry, eval, poll, strays, loaded, promised, crashes>>

\* A block with a test: the test is created and its threads start.
BuildTest(t) ==
  /\ mq.at = "build"
  /\ t \notin inst.tests
  /\ inst' = [inst EXCEPT !.tests = @ \cup {t}]
  /\ Go(t, "wait")
  /\ poll' = [poll EXCEPT ![t] = IF t \in Inline THEN "none" ELSE "loop"]
  /\ UNCHANGED <<row, entry, strays, mq, loaded, promised, crashes>>

\* What the threads of the instance may do when nobody has it any more.
Left ==
  IF inst.tests = {} THEN {}
  ELSE IF inst.compiled = "none" THEN {"quiet"}
  ELSE {"armed"} \cup {"acting" : t \in {u \in Tests : eval[u] = "act"}}

\* A block that cannot be instantiated, or a subscription that fails after the
\* condition was compiled.  enable leaves the instance as it is.  Else there is no
\* instance, but its threads go on; a row that was created is deleted again.
BuildFails ==
  /\ mq.at \in {"build", "subscribe"}
  /\ "block" \in MayFail
  /\ mq' = Idle
  /\ IF mq.op = "enable" THEN UNCHANGED <<inst, eval, poll, strays>>
     ELSE /\ inst' = NewInstance("enabled")
          /\ eval' = NoThreads
          /\ poll' = NoPolls
          /\ strays' = strays \cup Left
  /\ row' = IF mq.op = "create" THEN "absent" ELSE row
  /\ loaded' = (loaded /\ mq.op # "load")
  /\ UNCHANGED <<entry, promised, crashes>>

\* The condition is compiled: from now on the threads act.
Compile ==
  /\ mq.at = "build"
  /\ inst.tests = Tests
  /\ inst' = [inst EXCEPT !.compiled = "current", !.actions = TRUE]
  /\ mq' = [mq EXCEPT !.at = "subscribe"]
  /\ UNCHANGED <<row, entry, eval, poll, strays, loaded, promised, crashes>>

\* The messages of the sensors are subscribed to.
Subscribe ==
  /\ mq.at = "subscribe"
  /\ IF mq.op = "enable"
     THEN entry' = "enabled" /\ mq' = [mq EXCEPT !.at = "db"]
     ELSE mq' = [mq EXCEPT !.at = "insert"] /\ UNCHANGED entry
  /\ UNCHANGED <<row, inst, eval, poll, strays, loaded, promised, crashes>>

\* The instance is put in _instances and its condition is evaluated.
Insert ==
  /\ mq.at = "insert"
  /\ entry' = mq.want
  /\ mq' = [mq EXCEPT !.at = "evaluate"]
  /\ Go(MQ, IF inst.compiled = "none" THEN "wait" ELSE "eval")
  /\ UNCHANGED <<row, inst, poll, strays, loaded, promised, crashes>>

\* Mutant: the row of a scenario that was updated is deleted too.
EndEvaluateDeletes ==
  /\ mq.at = "evaluate"
  /\ eval[MQ] \in {"wait", "dead"}
  /\ Go(MQ, "wait")
  /\ row' = IF mq.op \in {"create", "update"} /\ eval[MQ] = "dead" THEN "absent" ELSE row
  /\ IF mq.op \in {"create", "update"} /\ eval[MQ] = "wait"
     THEN End(mq.want)
     ELSE mq' = Idle /\ UNCHANGED promised
  /\ UNCHANGED <<entry, inst, poll, strays, loaded, crashes>>

\* The evaluation by the MQ thread is over.  When it raised, the row of a new
\* scenario is deleted and the instance stays.
EndEvaluate ==
  /\ mq.at = "evaluate"
  /\ eval[MQ] \in {"wait", "dead"}
  /\ Go(MQ, "wait")
  /\ row' = IF mq.op = "create" /\ eval[MQ] = "dead" THEN "absent" ELSE row
  /\ IF mq.op \in {"create", "update"} /\ eval[MQ] = "wait"
     THEN End(mq.want)
     ELSE mq' = Idle /\ UNCHANGED promised
  /\ UNCHANGED <<entry, inst, poll, strays, loaded, crashes>>

\* Mutant: the row is not written.
ReplyBeforeDb ==
  /\ mq.at = "db"
  /\ End(mq.want)
  /\ UNCHANGED <<row, entry, inst, eval, poll, strays, loaded, crashes>>

\* delete, enable and disable write the row last.
WriteDb ==
  /\ mq.at = "db"
  /\ \/ row # "absent" /\ row' = mq.want /\ End(mq.want)
     \/ row = "absent" /\ End("none") /\ UNCHANGED row
     \/ "database" \in MayFail /\ End("none") /\ UNCHANGED row
  /\ UNCHANGED <<entry, inst, eval, poll, strays, loaded, crashes>>

\* The process ends at any time and is started again.
Crash ==
  /\ crashes < MaxCrashes
  /\ crashes' = crashes + 1
  /\ entry' = "absent"
  /\ inst' = NewInstance("enabled")
  /\ eval' = NoThreads
  /\ poll' = NoPolls
  /\ strays' = {}
  /\ mq' = [Idle EXCEPT !.at = "load", !.op = "load"]
  /\ loaded' = TRUE
  /\ UNCHANGED <<row, promised>>

-----------------------------------------------------------------------------
MqThread ==
  \/ CleanActions \/ JoinTest \/ EndClean \/ WriteRow \/ Load \/ Compile \/ Subscribe
  \/ BuildFails \/ Insert \/ EndEvaluate \/ WriteDb \/ Exec(MQ) \/ CallAction(MQ)
  \/ \E t \in Tests : StopTest(t) \/ BuildTest(t)

PollThread(t) == Look(t) \/ Trigger(t)

TestThread(t) == Begin(t) \/ Exec(t) \/ CallAction(t)

Requests ==
  \/ Delete \/ Enable \/ Disable \/ SensorMessage
  \/ \E w \in {"enabled", "disabled"} : Create(w) \/ Update(w)

Next ==
  \/ Requests \/ MqThread \/ Crash
  \/ \E t \in Tests : PollThread(t) \/ TestThread(t) \/ Looked(t)
  \/ \E e \in Evaluators : EndAction(e)
  \/ StraysAct \/ StraysRest

Spec == Init /\ [][Next]_vars

\* The threads run.  Nobody has to ask for anything, and neither a page (urlopen has
\* no timeout) nor an action (which may run a command) has to come to an end.
FairSpec ==
  Spec /\ WF_vars(MqThread) /\ \A t \in Tests : WF_vars(PollThread(t)) /\ WF_vars(TestThread(t))

-----------------------------------------------------------------------------
(* Properties.                                                             *)

\* Every variable has its type.
TypeOK ==
  /\ row \in Presence /\ entry \in Presence
  /\ inst \in Instance
  /\ eval \in [Evaluators -> Eval]
  /\ poll \in [Tests -> Poll]
  /\ strays \subseteq Stray
  /\ mq \in Request
  /\ loaded \in BOOLEAN
  /\ promised \in Presence \cup {"none"}
  /\ crashes \in 0..MaxCrashes

\* The scenario is up: every part of it is there and belongs together.
Up == /\ entry = "enabled" /\ ~ inst.disabled
      /\ inst.compiled = "current" /\ inst.tests = Tests /\ inst.actions
      /\ \A t \in Tests : eval[t] # "none"

Down(e) == /\ entry = e
           /\ inst.tests = {} /\ ~ inst.actions
           /\ e = "disabled" => inst.disabled

\* What a reply OK said holds until the next request, whatever failed before and
\* however often the process is restarted: in the database, and in memory if the
\* scenario could be loaded again (create, update, delete, enable and disable).
PromiseIsKept ==
  mq.at = "idle" /\ promised # "none" =>
    /\ row = promised
    /\ loaded => IF promised = "enabled" THEN Up ELSE Down(promised)

\* A scenario that is off does nothing, as long as no set-up has failed since the
\* process was started: when the manager has taken it down no thread of it evaluates or
\* runs an action (destroy, _clean_instances).
OffIsQuiet ==
  mq.at = "idle" /\ (entry = "absent" \/ inst.disabled) /\ strays = {}
    => eval = NoThreads /\ poll = NoPolls

\* Once a scenario is being taken down no action is begun any more, although its
\* threads go on until they are joined (_clean_instances).
NoActionBegins ==
  [][mq.at = "join" => \A t \in Tests : eval'[t] = "act" => eval[t] = "act"]_vars

\* What a user sees of the scenario: what is served, what it is to leave, the threads
\* that run an action.
Serving == IF mq.at = "idle" THEN "none" ELSE mq.op
Goal == IF mq.op = "load" THEN row ELSE mq.want
Acting == {e \in Evaluators : eval[e] = "act"}

Service ==
  INSTANCE ScenarioService
    WITH Threads <- Evaluators, Server <- MQ, stored <- row, serving <- Serving,
         goal <- Goal, live <- inst.actions, acting <- Acting,
         loose <- "armed" \in strays, astray <- "acting" \in strays

\* The manager implements ScenarioService: every reply, action, failure and restart is
\* one of its steps (create_scenario, update_scenario, del_scenario, enable_scenario,
\* disable_scenario, on_mdp_request).
ImplementsService == Service!Spec

\* Every page that is looked at comes or not, and every action ends.
Returns ==
  /\ \A t \in Tests : []<>(poll[t] # "fetch")
  /\ \A e \in Evaluators : []<>(eval[e] # "act")

\* A request ends if pages and actions do, although the threads that the MQ thread joins
\* begin again and again (destroy).
RequestEnds == Returns => (mq.at # "idle" ~> mq.at = "idle")

\* The scenario stays enabled and the thread of its test t was not ended.
Stays(t) ==
  <>[](promised = "enabled" /\ loaded /\ poll[t] # "ended" /\ (t \in Inline => eval[t] # "dead"))

\* The tests of a scenario that was enabled go on, however often it was disabled, updated
\* and enabled before, if pages and actions end: a test on the time evaluates the
\* condition again and again, one that polls looks again and again, whatever an
\* evaluation raised, and evaluates again and again if it finds a reason again and again.
TestsGoOn ==
  Returns => \A t \in Tests : Stays(t) =>
    IF t \in Inline THEN []<>(eval[t] = "eval")
    ELSE []<>(poll[t] = "fetch") /\ ([]<>(poll[t] = "trigger") => []<>(eval[t] = "eval"))

=============================================================================
