----------------------------- MODULE SensorStore -----------------------------
(***************************************************************************)
(* How a sensor value gets from a message to the table sensor_history      *)
(* (bin/xplgw.py and common/database.py).                                  *)
(*                                                                         *)
(* The MQ thread queues the values of client.sensor messages in the store  *)
(* queue.  The sensor thread does it for xPL packets that match a known    *)
(* xPL stat.  The store thread stores the queued values and publishes      *)
(* them.  On device.update the MQ thread loads the tables of both threads  *)
(* and its own again: it shares the DbHelper of the store thread, and so   *)
(* the one attribute that holds the current database session.  Each line   *)
(* of session_scope is a step of its own.                                  *)
(***************************************************************************)
EXTENDS Naturals, Sequences, FiniteSets

CONSTANTS
  Devices,      \* devices, each with one sensor
  MaxItems,     \* bound: values received
  MaxChanges,   \* bound: changes of the devices
  MaxFailures,  \* bound: database calls that fail
  None          \* no value in the store thread

ASSUME StoreAssumption ==
  /\ MaxItems \in Nat /\ MaxChanges \in Nat /\ MaxFailures \in Nat

VARIABLES
  devices,    \* devices in the database
  unused,     \* devices that were never created
  updates,    \* device.update events on their way
  changes,    \* changes made so far
  failures,   \* database calls that failed
  received,   \* values received so far
  sensor_queue, store_queue, \* values on their way
  all_xpl_stat,  \* devices whose xPL stats the sensor thread knows
  all_sensors, all_devices, \* what the store thread knows
  all_commands,  \* devices the gateway itself knows
  session,    \* __session of the shared DbHelper: none, open or closed
  added,      \* values added to that session and not committed
  abandoned,  \* open sessions that were replaced and that nobody closes
  store,      \* where the store thread is, its value, and whether that value is
              \* due in the history unless a call of the database fails
  mq,         \* where the MQ thread is in a reload, and whether the load raised
  rows,       \* values in sensor_history
  published,  \* values in a device-stats event
  lost,       \* values of an existing device that were due and were not stored
  reloaded    \* the last reload did not raise

tables == <<all_xpl_stat, all_sensors, all_devices, all_commands, reloaded>>
database == <<devices, unused, changes>>
queues == <<updates, received, sensor_queue, store_queue>>
scope == <<session, added, abandoned>>
vars == <<database, queues, tables, failures, scope, store, mq, rows, published, lost>>

Waits == [at |-> "get", item |-> None, due |-> FALSE]
Idle == [at |-> "idle", raised |-> FALSE]

Init ==
  /\ devices \in SUBSET Devices
  /\ unused = Devices \ devices
  /\ updates = 0
  /\ changes = 0
  /\ failures = 0
  /\ received = 0
  /\ sensor_queue = <<>>
  /\ store_queue = <<>>
  /\ all_xpl_stat = devices
  /\ all_sensors = devices
  /\ all_devices = devices
  /\ all_commands = devices
  /\ session = "none"
  /\ added = {}
  /\ abandoned = 0
  /\ store = Waits
  /\ mq = Idle
  /\ rows = {}
  /\ published = {}
  /\ lost = {}
  /\ reloaded = TRUE

-----------------------------------------------------------------------------
(* Users, through the database manager, and clients.                       *)

\* A device is created, updated or deleted; its history is deleted with it.
Change(D, R) ==
  /\ changes < MaxChanges
  /\ changes' = changes + 1
  /\ devices' = D
  /\ rows' = R
  /\ updates' = updates + 1
  /\ UNCHANGED <<received, sensor_queue, store_queue, tables, failures, scope, store,
                 mq, published, lost>>

CreateDevice(d) ==
  d \in unused /\ unused' = unused \ {d} /\ Change(devices \cup {d}, rows)
UpdateDevice == Change(devices, rows) /\ UNCHANGED unused
DeleteDevice(d) ==
  /\ d \in devices
  /\ Change(devices \ {d}, {i \in rows : i.sensor # d})
  /\ UNCHANGED unused

Item(d) == [n |-> received + 1, sensor |-> d]

\* A client.sensor message.
HandleMqSensor(d) ==
  /\ mq = Idle
  /\ d \in devices
  /\ received < MaxItems
  /\ received' = received + 1
  /\ store_queue' = Append(store_queue, Item(d))
  /\ UNCHANGED <<database, updates, sensor_queue, tables, failures, scope, store, mq,
                 rows, published, lost>>

\* An xPL packet: _xpl_callback.
XplCallback(d) ==
  /\ d \in devices
  /\ received < MaxItems
  /\ received' = received + 1
  /\ sensor_queue' = Append(sensor_queue, Item(d))
  /\ UNCHANGED <<database, updates, store_queue, tables, failures, scope, store, mq,
                 rows, published, lost>>

\* The sensor thread: _find_storeparam and the test on ignore_values.
FindStoreParam(ignored) ==
  /\ sensor_queue # <<>>
  /\ sensor_queue' = Tail(sensor_queue)
  /\ store_queue' = IF Head(sensor_queue).sensor \in all_xpl_stat /\ ~ ignored
                    THEN Append(store_queue, Head(sensor_queue)) ELSE store_queue
  /\ UNCHANGED <<database, updates, received, tables, failures, scope, store, mq,
                 rows, published, lost>>

-----------------------------------------------------------------------------
(* session_scope.                                                          *)

\* The attribute gets another value; an open session it held is never closed.
Replace(by) ==
  /\ session' = by
  /\ added' = {}
  /\ abandoned' = IF session = "open" THEN abandoned + 1 ELSE abandoned

\* Mutant: the session that was opened at the start is used for every value.
OpenedBefore == UNCHANGED scope

Open == Replace("open")

\* A session that was closed opens again when it is used.
Use ==
  /\ session' = IF session = "none" THEN "none" ELSE "open"
  /\ UNCHANGED abandoned

\* A database call fails.
Fails == failures < MaxFailures /\ failures' = failures + 1

\* A commit succeeds: there is a session, and no value of a deleted sensor in it.
CanCommit == session # "none" /\ \A i \in added : i.sensor \in devices

Commits ==
  /\ CanCommit
  /\ Use
  /\ rows' = rows \cup added
  /\ added' = {}
  /\ UNCHANGED failures

\* What could not be flushed is rolled back by the library; when it was the commit
\* itself that failed, the value may still be pending.
CommitRaises ==
  /\ Use
  /\ UNCHANGED rows
  /\ \/ ~ CanCommit /\ added' = {} /\ UNCHANGED failures
     \/ CanCommit /\ Fails /\ added' \in {{}, added}

\* Raises without a session, and the scope goes on all the same.
Rollback == Use /\ added' = {}

\* Mutant: close is forgotten.
CloseNothing == added' = {} /\ UNCHANGED <<session, abandoned>>

Close == session' = "closed" /\ added' = {} /\ UNCHANGED abandoned

Reset == Replace("none")

-----------------------------------------------------------------------------
(* The store thread.                                                       *)

StoreTo(at) == store' = [store EXCEPT !.at = at]

\* The value will not be stored, whatever the database does.
StoreGivesUp(at) == store' = [store EXCEPT !.at = at, !.due = FALSE]

TakeItem ==
  /\ store.at = "get"
  /\ store_queue # <<>>
  /\ store' = [at |-> "lookup", item |-> Head(store_queue), due |-> mq = Idle]
  /\ store_queue' = Tail(store_queue)
  /\ Open
  /\ UNCHANGED <<database, updates, received, sensor_queue, tables, failures, mq, rows,
                 published, lost>>

Known == store.item.sensor \in all_sensors \cap all_devices

\* Mutant: an exception of the conversion is not caught.
LookupUncaught ==
  /\ store.at = "lookup"
  /\ Known
  /\ StoreTo("add")
  /\ UNCHANGED <<database, queues, tables, failures, scope, mq, rows, published, lost>>

\* The sensor, its device, and the conversion.  A KeyError, and a conversion that
\* cannot do with the value and raises, leave the scope by a rollback.
Lookup ==
  /\ store.at = "lookup"
  /\ \/ Known /\ StoreTo("add")
     \/ StoreGivesUp("rollback")
  /\ UNCHANGED <<database, queues, tables, failures, scope, mq, rows, published, lost>>

\* add_sensor_history until session.add.  A value that is no number may raise on
\* the way.
AddHistory ==
  /\ store.at = "add"
  /\ Use
  /\ \/ /\ session # "none"
        /\ added' = added \cup {store.item}
        /\ StoreTo("commit")
        /\ UNCHANGED failures
     \/ /\ session = "none"
        /\ StoreTo("exit")
        /\ UNCHANGED <<added, failures>>
     \/ /\ StoreGivesUp("exit")
        /\ UNCHANGED <<added, failures>>
     \/ /\ session # "none"
        /\ Fails
        /\ StoreTo("exit")
        /\ UNCHANGED added
  /\ UNCHANGED <<database, queues, tables, mq, rows, published, lost>>

\* Mutant: _do_commit logs the exception and does not raise it.
CommitSwallowed ==
  /\ store.at = "commit"
  /\ Commits \/ CommitRaises
  /\ StoreTo("publish")
  /\ UNCHANGED <<database, queues, tables, mq, published, lost>>

\* The commit that follows.
CommitHistory ==
  /\ store.at = "commit"
  /\ \/ Commits /\ StoreTo("publish")
     \/ CommitRaises /\ StoreTo("exit")
  /\ UNCHANGED <<database, queues, tables, mq, published, lost>>

\* The update of the sensor, its commit, and device-stats.
Publish ==
  /\ store.at = "publish"
  /\ Use
  /\ StoreTo("exit")
  /\ \/ session # "none" /\ published' = published \cup {store.item} /\ UNCHANGED failures
     \/ session = "none" /\ UNCHANGED <<published, failures>>
     \/ session # "none" /\ Fails /\ UNCHANGED published
  /\ UNCHANGED <<database, queues, tables, added, mq, rows, lost>>

\* The value is done with; every exception was caught in run.
StoreDone ==
  /\ store' = Waits
  /\ lost' = lost \cup {i \in {store.item} : store.due /\ i \notin rows /\ i.sensor \in devices}

\* Mutant: a scope that nothing raised from is not ended.
StoreCommitOpen ==
  /\ store.at = "exit"
  /\ StoreDone
  /\ UNCHANGED <<database, queues, tables, failures, scope, mq, rows, published>>

\* The end of the scope: commit,
StoreCommit ==
  /\ store.at = "exit"
  /\ \/ Commits /\ StoreTo("close")
     \/ CommitRaises /\ StoreTo("rollback")
  /\ UNCHANGED <<database, queues, tables, mq, published, lost>>

\* or rollback,
StoreRollback ==
  /\ store.at = "rollback"
  /\ Rollback
  /\ StoreTo("close")
  /\ UNCHANGED <<database, queues, tables, failures, mq, rows, published, lost>>

\* and close, which raises when there is no session to close,
StoreClose ==
  /\ store.at = "close"
  /\ \/ session # "none" /\ Close /\ StoreTo("reset") /\ UNCHANGED lost
     \/ session = "none" /\ StoreDone /\ UNCHANGED scope
  /\ UNCHANGED <<database, queues, tables, failures, mq, rows, published>>

\* and None.
StoreReset ==
  /\ store.at = "reset"
  /\ Reset
  /\ StoreDone
  /\ UNCHANGED <<database, queues, tables, failures, mq, rows, published>>

StoreThread ==
  \/ TakeItem \/ Lookup \/ AddHistory \/ CommitHistory \/ Publish
  \/ StoreCommit \/ StoreRollback \/ StoreClose \/ StoreReset

-----------------------------------------------------------------------------
(* _handle_mq_device_update.                                               *)

MqTo(at) == mq' = [mq EXCEPT !.at = at]
MqRaises(at) == mq' = [at |-> at, raised |-> TRUE]

\* on_device_changed of the sensor thread, with its own DbHelper.
TakeUpdate ==
  /\ mq = Idle
  /\ updates > 0
  /\ updates' = updates - 1
  /\ all_xpl_stat' = {}
  /\ reloaded' = FALSE
  /\ MqTo("xpl_stat")
  /\ store' = [store EXCEPT !.due = FALSE]
  /\ UNCHANGED <<database, received, sensor_queue, store_queue, all_sensors, all_devices,
                 all_commands, failures, scope, rows, published, lost>>

LoadXplStat ==
  /\ mq.at = "xpl_stat"
  /\ \/ all_xpl_stat' = devices /\ MqTo("clear") /\ UNCHANGED failures
     \/ Fails /\ mq' = Idle /\ all_xpl_stat' \in SUBSET devices
  /\ UNCHANGED <<database, queues, all_sensors, all_devices, all_commands, reloaded, scope,
                 store, rows, published, lost>>

\* on_device_changed of the store thread.
ClearTables ==
  /\ mq.at = "clear"
  /\ all_sensors' = {}
  /\ all_devices' = {}
  /\ MqTo("open")
  /\ UNCHANGED <<database, queues, all_xpl_stat, all_commands, reloaded, failures, scope,
                 store, rows, published, lost>>

OpenReload ==
  /\ mq.at = "open"
  /\ MqTo("sensors")
  /\ Open
  /\ UNCHANGED <<database, queues, tables, failures, store, rows, published, lost>>

LoadSensors ==
  /\ mq.at = "sensors"
  /\ Use
  /\ \/ session # "none" /\ all_sensors' = devices /\ MqTo("devices") /\ UNCHANGED failures
     \/ session = "none" /\ MqRaises("rollback") /\ UNCHANGED <<all_sensors, failures>>
     \/ session # "none" /\ Fails /\ MqRaises("rollback") /\ UNCHANGED all_sensors
  /\ UNCHANGED <<database, queues, all_xpl_stat, all_devices, all_commands, reloaded, added,
                 store, rows, published, lost>>

\* Mutant: the devices are not loaded again.
LoadNoDevices ==
  /\ mq.at = "devices"
  /\ MqTo("exit")
  /\ UNCHANGED <<database, queues, tables, failures, scope, store, rows, published, lost>>

LoadDevices ==
  /\ mq.at = "devices"
  /\ Use
  /\ \/ session # "none" /\ all_devices' = devices /\ MqTo("exit") /\ UNCHANGED failures
     \/ session = "none" /\ MqRaises("rollback") /\ UNCHANGED <<all_devices, failures>>
     \/ session # "none" /\ Fails /\ MqRaises("rollback") /\ UNCHANGED all_devices
  /\ UNCHANGED <<database, queues, all_xpl_stat, all_sensors, all_commands, reloaded, added,
                 store, rows, published, lost>>

\* The end of the scope.  An exception ends the whole reload in on_message.
ReloadCommit ==
  /\ mq.at = "exit"
  /\ \/ Commits /\ MqTo("close")
     \/ CommitRaises /\ MqRaises("rollback")
  /\ UNCHANGED <<database, queues, tables, store, published, lost>>

ReloadRollback ==
  /\ mq.at = "rollback"
  /\ Rollback
  /\ MqTo("close")
  /\ UNCHANGED <<database, queues, tables, failures, store, rows, published, lost>>

ReloadClose ==
  /\ mq.at = "close"
  /\ \/ session # "none" /\ Close /\ MqTo("reset")
     \/ session = "none" /\ mq' = Idle /\ UNCHANGED scope
  /\ UNCHANGED <<database, queues, tables, failures, store, rows, published, lost>>

ReloadReset ==
  /\ mq.at = "reset"
  /\ Reset
  /\ mq' = IF mq.raised THEN Idle ELSE [mq EXCEPT !.at = "commands"]
  /\ UNCHANGED <<database, queues, tables, failures, store, rows, published, lost>>

\* _reload_devices and _reload_commands, with the DbHelper of the gateway.
ReloadCommands ==
  /\ mq.at = "commands"
  /\ mq' = Idle
  /\ \/ all_commands' = devices /\ reloaded' = TRUE /\ UNCHANGED failures
     \/ Fails /\ all_commands' \in SUBSET devices /\ UNCHANGED reloaded
  /\ UNCHANGED <<database, queues, all_xpl_stat, all_sensors, all_devices, scope, store,
                 rows, published, lost>>

Reload ==
  \/ LoadXplStat \/ ClearTables \/ OpenReload \/ LoadSensors \/ LoadDevices
  \/ ReloadCommit \/ ReloadRollback \/ ReloadClose \/ ReloadReset \/ ReloadCommands

-----------------------------------------------------------------------------
Environment ==
  \/ UpdateDevice
  \/ \E d \in Devices :
       CreateDevice(d) \/ DeleteDevice(d) \/ HandleMqSensor(d) \/ XplCallback(d)

SensorThread == \E ignored \in BOOLEAN : FindStoreParam(ignored)

Next == Environment \/ SensorThread \/ StoreThread \/ TakeUpdate \/ Reload

Spec == Init /\ [][Next]_vars

\* The three threads are scheduled; the MQ thread takes the events it gets.
FairSpec ==
  Spec /\ WF_vars(SensorThread) /\ WF_vars(StoreThread) /\ WF_vars(TakeUpdate \/ Reload)

-----------------------------------------------------------------------------
(* Properties.                                                             *)

Items == [n : 1..MaxItems, sensor : Devices]

\* The threads, the tables and the queues have their types.
TypeOK ==
  /\ devices \subseteq Devices /\ unused \subseteq Devices \ devices
  /\ updates \in 0..MaxChanges /\ changes \in 0..MaxChanges
  /\ failures \in 0..MaxFailures /\ received \in 0..MaxItems
  /\ sensor_queue \in Seq(Items) /\ store_queue \in Seq(Items)
  /\ all_xpl_stat \subseteq Devices /\ all_sensors \subseteq Devices
  /\ all_devices \subseteq Devices /\ all_commands \subseteq Devices
  /\ session \in {"none", "open", "closed"} /\ added \subseteq Items /\ abandoned \in Nat
  /\ \/ store = Waits
     \/ store \in [at : {"lookup", "add", "commit", "publish", "exit", "rollback", "close", "reset"},
                   item : Items, due : BOOLEAN]
  /\ mq \in [at : {"idle", "xpl_stat", "clear", "open", "sensors", "devices", "exit",
                   "rollback", "close", "reset", "commands"}, raised : BOOLEAN]
  /\ rows \subseteq Items /\ published \subseteq Items /\ lost \subseteq Items
  /\ reloaded \in BOOLEAN

\* The two threads overtake each other in session_scope, and sessions are replaced
\* that nobody closes; but each reload costs at most one for each of its six steps
\* on the session (open, two loads, commit, rollback and None), and values alone
\* cost none, however many come and whatever raises.
SessionsAreFew == abandoned <= 6 * (changes - updates)

\* A reload that raised nothing has loaded every table with the same devices,
\* unless another event is on its way (_handle_mq_device_update).
GoodReloadIsComplete ==
  mq = Idle /\ reloaded /\ updates = 0
    => {all_xpl_stat, all_sensors, all_devices, all_commands} = {devices}

\* A value of a known sensor, that conversion and arithmetic can do with and that is
\* stored while no reload runs, is lost only by a database call that failed, and a
\* failure costs one value, whatever the reloads before it left behind
\* (_SensorStoreThread.run).
FailureLosesOne == Cardinality(lost) <= failures

\* As long as no device changes, a value that was published in device-stats is in
\* the history (the comment "publish the result").
PublishedIsStored == changes = 0 => published \subseteq rows

\* A value gets into the history while the store thread has it, whoever commits: one
\* that was refused or is still pending when its scope ends is not stored by a later
\* commit (session_scope, _do_commit, which does not roll back).
NothingIsStoredLate == [][rows' \ rows \subseteq {store.item}]_vars

\* Whatever raises in the three threads, each of them goes on: what is queued is
\* taken, and each update is handled.
ThreadsGoOn ==
  /\ \A n \in 1..MaxItems : received = n ~> sensor_queue = <<>> /\ store_queue = <<>>
  /\ updates > 0 ~> updates = 0 /\ mq = Idle

\* After a device.update the parameters of the devices are loaded
\* (_handle_mq_device_update).
UpdateIsLoaded == mq = Idle /\ updates = 0 => all_sensors = devices /\ all_devices = devices

=============================================================================
