# Verification of Domogik

TLA+ models of the parts of Domogik that keep state and run on several threads or
processes, the TLC runs that check them, and proofs for TLAPS. Paths are relative to
`src/src/domogik/`; `file.py:12` is a line of a file.

## 1. The system

Domogik is a home automation system made of processes that talk over a message
queue (MQ: events that are published, and requests that are answered) and, with the
devices, over xPL (UDP broadcasts that a hub forwards to the local clients). Every
process of Domogik has an MQ thread that handles one event or request at a time.

| Component | State it keeps | Operations | Interacts with |
|---|---|---|---|
| xPL gateway, commands (`bin/xplgw.py`) | `all_commands`, `all_xpl_stats`, `_cmd_dict`, `_cmd_pkt` | `cmd.send`, `device.update`, a packet, a round of the command thread | asks the manager for clients and the database manager's tables; sends xPL; publishes `command.result` |
| xPL gateway, sensors (`bin/xplgw.py`, `common/database.py`) | two queues, `all_xpl_stat`, `all_sensors`, `all_devices`, the shared database session | `client.sensor`, a packet, storing, `device.update` | writes `sensor_history`; publishes `device-stats` |
| Sensor history (`DbHelper.add_sensor_history`) | the table, `value_min`, `value_max` | add a value, change the settings | called by the store thread of the gateway |
| Manager, clients (`bin/manager.py`) | `_clients`, `_clients_with_details`, `_plugins` | add, remove, `set_status`, start, kill, dead check | starts plugin processes; hears `plugin.status`; publishes `clients` |
| Plugin process (`common/plugin.py`, `common/baseplugin.py`) | `_status`, threads, timers, devices | start, ready, stop, heartbeat, refresh of devices, detection | publishes `plugin.status`; asks the database manager |
| Manager, the rest (`bin/manager.py`) | packages, conversions, metrics buffers | package rounds, metrics, lists | clients, external server |
| Database manager (`bin/dbmgr.py`) | the database | device, configuration, data requests | publishes `device.update`, `plugin.configuration`; asks the manager for device types |
| Scenario manager (`scenario/`, `bin/scenario.py`) | `_instances`, scenarios in the database, a tree of tests and actions per scenario | create, update, delete, enable, disable; evaluation on sensor events and timers | sends `cmd.send`; listens to `device-stats` |
| xPL hub (`xpl/hub/lib.py`) | `_client_list`, `_dead_client_list` | packet, forward, dead check | every xPL client |
| Cron rules (`common/cron.py`, `scenario/parameters/cron.py`, `admin/static/js/blockly_cron_edit.js`) | the text, its blocks, the checks that wait for an answer; the expression and the thread of a saved rule | type, connect blocks, change the mode, check, save; compare with the clock | the scenario manager, the admin server |
| xPL connector (`xpl/common/xplconnector.py`) | listeners, fragments, whether a hub was found | receive, send, heartbeat | the hub, the program that uses it |
| Butler, admin and REST server, package tool, installation, tools | little of their own | one request at a time | the MQ and the database |

### Where it is hard

* Threads share Python dictionaries and lists, mostly without locks: the clients list,
  the tables of the gateway, the list of the hub.
* A request or a `device.update` is handled in several steps during which the other
  threads go on (`atomicity`, `interleaving` and `stale_state` in the list of hazards).
* An exception ends a thread when its loop has no handler, and is swallowed when it has
  one. Both decide what the rest of the system sees.
* A `DbHelper` keeps its session in an attribute, and two threads of the gateway use one
  `DbHelper`.
* Events overtake each other: heartbeats and statuses, the manager's own `dead` events.
* Plugins crash, hang and are killed; nobody tells the manager.

`PROJECT.json` lists the hazards with their lines and the properties that look at them.

### What makes each component correct

* Commands: each request comes to its end, and one whose message was sent is told so; an
  accepted command is not forgotten, is confirmed at most by answers that were not used
  before, and only after it was accepted.
* Sensors: what is queued is taken; what is published was stored; a reload that raised
  nothing loaded everything; one failure costs one value; sessions that are left open stay few.
* History: what is deleted to save room does not change what the history tells, while
  values come in the order of their dates; the newest value stays; the limits hold.
* Clients: a process that is gone is noticed, one that runs is shown alive, a stop
  request ends the process, one program is launched by one thread at a time, the two
  dictionaries have the same clients.
* Scenarios: what the last reply said holds in the database and in memory; a scenario that
  is disabled or deleted does nothing any more, unless a set-up of it failed before; one
  that is enabled goes on.
* Hub: the list comes to hold the clients that run, each of them once, and a message
  reaches those that are in it.
* Cron rules: what the editor shows is what is saved, what is saved was checked, and a
  saved rule triggers at the minutes that the labels of its blocks say.

## 2. Modules

`XplCommand` is the command side of the gateway, `CommandService` the abstract
specification of it, `XplCommandProofs` the proofs and `MCXplCommand` the instances.
`SensorStore` is the sensor side, `SensorHistory` the history of a sensor, `ClientRegistry`
the clients list of the manager with the plugin processes, `ScenarioManager` a scenario with
the threads of its tests and `ScenarioService` the abstract specification of it, `XplHub`
the hub. Each has its proofs in the module with `Proofs` after its name and its instances in the
one with `MC` before it. `CronExpression` holds the operators of cron rules,
`CronEditor` the block of the editor, `CronRule` composes it with the thread that triggers,
`MCCron` is the instance, `CronExpressionProofs` and `CronRuleProofs` are the proofs.
Definitions whose comment begins with "Mutant:" stand beside the definition they vary
and are used by no behaviour: each is a plausible bug that breaks one property.

### XplCommand: `bin/xplgw.py`, the command thread and its tables

| Model | Code |
|---|---|
| `all_commands`, `all_xpl_stats` | the dictionaries of the same name, as sets of devices (one command and one stat each) |
| `cmd_dict`, `cmd_pkt`, `lock_p` | `_cmd_dict`, `_cmd_pkt`, `_cmd_lock_p`. `_cmd_lock_d` is held for single statements only and is one step with them |
| `Build`, `Send`, `Register`, `Reply`, `Reject` | `_send_command`, `_send_xpl_command` and `on_mdp_request` for a `cmd.send`, in the order in which other threads can see it |
| `AskPlugin`, `PluginAnswers` | `_send_mq_command`, for a device of `mq_devices`, whose command is no xPL command: the plugin answers, does not, or answers with a message that lacks a key |
| `LookupFails`, `ConversionFails` | the KeyError of a table that lacks the device, and what the conversion of a parameter raises: `on_mdp_request` logs it and sends no reply |
| `DeviceUpdate` | `_handle_mq_device_update`, for the command side: each table is emptied before it is loaded, so that a failure leaves devices or commands out. It does not fill `all_xpl_stats` |
| `Check`, `Store` | `_xpl_callback`, one thread per packet |
| `Purge`, `Test`, `Search`, `Die`, `ForgetPackets`, `ForgetCommands` | one round of `_XplCommandThread.run`; `scan` is the copy of `_cmd_dict`, `round` is `todel_dict` and `todel_pkt` |
| `CreateDevice`, `DeleteDevice`, `Request` | `bin/dbmgr.py`, `scenario/actions/command.py` |

Each packet has a schema, a set of keys and the device it really speaks about. Values
of parameters are left out, since the code compares them only when the key is missing,
which is when it has raised KeyError. A request stands for its uuid. A packet may
arrive at any time, before, during and after any step of a request.

### SensorStore: `bin/xplgw.py` and `session_scope` of `common/database.py`

A value is a number and its sensor. `store` is the program counter of the store
thread: it opens a session, looks the sensor up and converts the value, adds, commits, publishes, and
leaves the scope by commit or rollback, close and reset. `mq` is where
the MQ thread is in a reload: the xPL stats, the clearing of the tables, the sensors and the
devices in a scope of their own, the commands. `session` is the one attribute the two threads share,
which may hold no session, an open one or a closed one, and `added` what is pending in it. Each line of `session_scope`
is an action (`Open`, `StoreCommit`, `StoreRollback`, `StoreClose`, `StoreReset`, and the same of the reload): `Replace` counts in `abandoned`
an open session that another one, or None, takes the place of. The code never closes it;
it is left to the garbage collector. `Close` raises when there is nothing to close, and a session that was
closed opens again when it is used. After a commit that failed the value may be pending or
not, since `_do_commit` leaves that to the library. A database call may fail (`MaxFailures`), which also
stands for what SQLAlchemy raises when two threads use one session. The conversion of a value and the arithmetic of
the history may raise for any value (`Lookup`, `AddHistory`): the value is lost then with nothing wrong in the database, and
`due` says of the value in the thread that nothing of the kind happened. Devices are created,
updated and deleted; the history of a deleted device is deleted with it, and a value that
refers to it cannot be committed. The settings of the history are in `SensorHistory`.

### SensorHistory: `add_sensor_history`

`rows` is the table for one sensor. A row has the number of its value, its date, the value
stored and the value received. `Newest` are the rows that `ORDER BY date DESC` may put first: of equal
dates the database takes any. `Increment`, `Rounded`, `Duplicated`, `Insert`, `Kept` and `NotExpired` are the
clauses of the method, in its order. `Duplicated` takes the older of the two rows when
`history_round` is set, because line 919 has reversed the list in place. `DeviceUpdate` is
the reload of the settings by the store thread. The formula is left out, comparisons with
None are those of Python 2 (the code's language), and dates and `history_expire` have one unit.

The date of a value is what its message says (`atTimestamp`, `bin/xplgw.py:276`) or the second in which it was received
(281), so that two values may have one date and a value may come with an older date than those before. `Dates` and `Lags` (how
late it is stored) are any numbers, and `late` counts the values whose date is not newer than all before. `HistoryIsBounded` and
`LastIsKept` hold whatever the dates are; `HistoryIsClose`, `NoThreeEqual` and `IncrementIsDifference` have the premise
`late = 0`, which most sensors satisfy and which the code does not check. Section 6 says what happens without it.

### ClientRegistry: `Clients` and `Plugin` of `bin/manager.py`, `common/plugin.py`

| Model | Code |
|---|---|
| `status`, `detail`, `silent` | the status in `_clients`, in `_clients_with_details`, and the time since `last_seen`, in heartbeat periods |
| `SetStatus`, `EndSetStatus`, `SetStatusFails` | `Clients.set_status` until the first dictionary is written, the second one, and its KeyError. `job[t]` is the call that thread `t` is in |
| `HandleEvent`, `HandleEcho`, `StartWatch`, `CheckIfStopped` | `Plugin.on_message` for events of the plugin and for the `dead` events the manager sends itself, and the thread that kills the process 15 s after a stop request |
| `StartUnknown`, `StartCheck`, `StartLaunch`, `StartReply` | `plugin.start.do` |
| `ListPackages`, `NewPlugin`, `AutoCheck`, `AutoLaunch`, `Unregister`, `EndPackages` | one round of the package thread, with `Plugin.__init__` and `auto_startup` |
| `StartRound`, `Visit`, `Declare`, `RoundFails`, `EndRound` | `_check_dead_clients`; `size` stands for the check Python makes of a dictionary in a loop |
| `XplAdd`, `XplAlive` | `_register_xpl_client`, on a thread per heartbeat |
| `ProcessInit`, `Ready`, `NotConfigured`, `ClientStop`, `ForceLeave`, `Exit`, `Crash`, `BeatRead`, `BeatSend` | the plugin process: its statuses in order, and the heartbeat thread, which reads the status and sends it later |

Core components and interfaces run the same `set_status` and dead check as plugins,
without start and stop, and are left out. `invalid` is set on the paths of
`not-configured`. The pid is left out. A plugin has at most one waiting watch thread per
process it has had. `add` and `remove` write both dictionaries in one step: they write two
entries in a row with no call between them.

### ScenarioManager: `scenario/` and `bin/scenario.py`

| Model | Code |
|---|---|
| `row`, `entry` | the scenario in the database, and in `_instances` with its `disabled` |
| `inst` | the `ScenarioInstance`: `_disabled`, `_compiled_condition`, the tests and the actions in `_mapping` |
| `eval[e]` | where thread `e`, of a test or of the MQ, is in the evaluation of the condition |
| `poll[t]` | where the thread is that polls a page or a cron rule for test `t` |
| `strays` | what the threads of set-ups that failed may do: nothing, evaluate and act, or that an action of theirs runs |
| `mq`, `promised` | the request that is served and how far it is; what its reply said |
| `Create`, `Update`, `Delete`, `Enable`, `Disable`, `SensorMessage` | the requests and the sensor events, each begun when nothing else is served |
| `CleanActions`, `StopTest`, `JoinTest`, `EndClean` | `_clean_instances`: the actions first, then each test's event and join, then `_mapping` |
| `WriteRow`, `BuildTest`, `BuildFails`, `Compile`, `Subscribe`, `Insert`, `EndEvaluate`, `WriteDb` | `create_scenario`, `_instanciate` and the end of the other requests, in their order |
| `Begin` | a turn of `_fetch` of `TimeNow` (`Inline`), which evaluates in its own thread |
| `Look`, `Looked`, `Trigger` | a turn of `_check` or `_fetch` of the cron and url parameters, and `call_trigger`, which joins the evaluation that was started before and starts the next one |
| `Exec`, `CallAction`, `EndAction`, `Raise` | the compiled condition and its actions, in any of these threads |
| `StraysAct`, `StraysRest` | the threads that a set-up left behind |
| `Load`, `Crash` | `load_scenarios` after a restart |

The code that a condition is compiled to names its tests and actions by uuid; it is
`"stale"` when they are no longer in `_mapping`, and then raises KeyError. An evaluation
is true or not, whatever the tests say, and runs one action. An exception in an evaluation ends the thread of `TimeNow`, which
evaluates itself, and of a parameter only the thread that was started for the evaluation. What raises in a turn of a polling thread
(`url_value.py:66` and 69, `cron.py:59`) ends that thread (`"ended"`). A set-up may fail at a block, when only some tests have
threads and there is no condition yet, and in the subscription (`scenario.py:212`), when the condition is compiled and the threads
act: no one stops these threads before the next restart. One scenario
is enough: scenarios share nothing but the database session, and what goes wrong with
that is a failing database call. `ScenarioService` is what a user sees of it: the row,
what is served, the last promise, whether actions may begin (`live`, mapped to the actions
in `_mapping`), the threads that run one, and whether a set-up was abandoned that may act (`loose`) and does (`astray`). The deletion of the row of a scenario whose creation
failed is taken to succeed, and threads to start. Left out: the translation of blocks to Python, hysteresis, the
one-shot triggers of `fill`, the second subscription to sensor events when a scenario is
enabled again, `test_scenario`.

### XplHub: `xpl/hub/lib.py`

| Model | Code |
|---|---|
| `client_list` | `_client_list`: an entry is a client, the time since its `last_seen`, and the threads that are about to remove it |
| `Receive`, `Look`, `AddClient`, `UpdateClient`, `Collect`, `Deliver`, `FindClient`, `DropClient` | `datagramReceived`, one step for each position of each loop over the list |
| `Tick`, `Visit`, `Bury` | `_check_dead_clients`: a round begins, a position of its loop, the removal |
| `Heartbeat`, `Send`, `Leave`, `Kill` | the clients, as the hub sees them |

Python goes through a list by position, so that a removal makes every loop that is
further on pass over an entry: `i` of `reactor` and `timer` are those positions. A dead
entry is removed by `list.remove`, which raises ValueError when an `hbeat.end` has removed
it in the meantime, and that ends the thread of the timer. The list of dead clients is only
shown, and is left out with the counters of messages, the logs, and messages from other hosts,
which are delivered like any other.

### CronExpression, CronEditor, CronRule

| Model | Code |
|---|---|
| `StringTab`, `NumTab`, `ParseAtom`, `Raises`, `IsValidate` | the constructor of `CronExpression`, `compute_numtab`, `_parse_atom` |
| `CheckTrigger`, `Hits`, `NearestWeekday`, `LastDow`, `NthDow` | `_check_trigger_normal` |
| `Kinds`, `Atoms`, `Field`, `Date` | the atoms and fields a text is made of, and the dates of the calendar: what the theorems range over |
| `AtomMeans`, `Means` | what the labels and menus of the editor's blocks say that a rule means |
| `MisreadAtom`, `IsMisread` | where `_parse_atom` and `_check_trigger_normal` do not do that (section 6) |
| `GenerateCronExp`, `FormatInput` | `generateCronExp_`: from blocks to text |
| `Parses`, `InRange`, `ToBlock`, `GenerateCronBlock` | `cronPart_Parse` and the six `...ToBlock_`: from text to blocks |
| `ToBlocks`, `ToOther` | `updateShape_`; mode `"stuck"` is what an exception in it leaves behind |
| `Onchange`, `Answer`, `Lose`, `Refuses` | `onchange`, the answers to its request, and `scenario_croncheckdate` |
| `Save`, `Start`, `Check`, `Tick`, `Destroy` | saving, `CronParameter.__init__` with `fill`, a turn of `_check`, the clock, `destroy` |
| `busy`, `Join`, `EndTrigger` | the thread that the last trigger started; `call_trigger` joins it before it starts another one; it ends some time or never |

A text is a sequence of fields, a field a sequence of atoms, and an atom its form with its
numbers. `Means` states what a block says with its label and its menus: "the nearest weekday of" a day is the weekday
that no weekday is nearer to, "Starting from" a day of the month and "Start in" a year mean not before it, a day of the week is the
entry of the menu `WEEKDAYS` (`blockly_cron_edit.js:178`, Sunday is 0). The examples in the tooltips do not agree
among themselves: those at 751, 1061, 1077 and 1096-1097 count the days of the week from Sunday as 1, against the
menus of the blocks they belong to, those at 1024 and 1042 count as the menus do. The menus are what the editor writes and reads, and are
the reference here. Where the code then differs from the labels, `MisreadAtom` and `IsMisread` say so. Numbers have four digits at most,
as years do, and those of `a#b` one, the first character of each part being all that the code reads.
A period of 0 and a step of 0 raise. `EditorAssumption` says that the texts a user
types are sequences of fields, that the menus have atoms, and that there is a date. One menu entry stands for the ephemeris,
whose library may say anything, and one for the substitutions. A list block without any
input and blocks of other kinds, which throw, are left out, as is the text a user cannot
type with the forms above. Names of days and months are their numbers, a word with a `-` or a `/` in it is no form. A
predefined rule (`@daily`) stands alone.

The clock of `CronRule` moves in thirds of a minute. The thread may wake up to `MaxLate` thirds late: any bound, named in `RuleAssumption`.
While it joins (`thread = "joining"`) the clock goes on without one: `held` counts the minutes that
begin then. The model looks at `_check`'s finding; the evaluation that it starts reads `_result` later, when another check
may have overwritten it.

## 3. Runs

The runs are listed in `PROJECT.json`. "Violated" means that TLC shows a behaviour of
the code that the repository's own words exclude.

| Run | Result | What it shows |
|---|---|---|
| `xplcmd` | holds | no accepted command is forgotten, even when a packet ends the command thread in a round; no answer or command is used in two rounds; the gateway implements `CommandService`; every `cmd.send` comes to its end and one whose message was sent is answered; while the command thread lives, old packets leave and an answer that was kept is used |
| `xplcmd_mismatch` | violated | a packet of another device of the same schema confirms a command: values are never compared (`bin/xplgw.py:589`) |
| `clients` | holds | when a package is removed and installed again while its plugin starts, stops, crashes and is declared dead, the two dictionaries keep the same clients |
| `clients_start` | holds | `auto_startup` and a start request do not launch a program at once |
| `clients_live` | holds | with a fixed list of clients a crash is noticed, a running plugin is shown alive again and again, a stop request ends the process |
| `clients_heartbeat` | holds | an xPL client that sends heartbeats in time is shown alive in both dictionaries again and again |
| `history` | holds | whatever the dates, `history_max` bounds the table and a value newer than all before stays; while values come in the order of their dates, the history tells the value of every date, equal values are kept twice at most, increments are differences; the settings are changed between the values |
| `store` | holds | a reload leaves few sessions open and values none, good reloads are complete, one failure loses one value, what is published is stored, no value is stored by the commit of a later one, the threads go on |
| `store_reload` | violated | storing a value during a reload takes its session away, and the store thread knows no sensor until the next `device.update` (`common/database.py:186`) |
| `scenario` | holds | whatever fails and however often the process is restarted, what a reply promised holds, a scenario that is off has no thread as long as no set-up failed, no action begins while it is taken down, the manager implements `ScenarioService`, which says what a failed set-up may do; if pages and actions come to an end requests do too, and tests go on unless an exception ended their thread |
| `hub` | holds | a message misses one client at most for each entry that leaves meanwhile; a client that goes on in time is listed again; one that is gone leaves; the list converges to the clients that run |
| `cron` | holds | a change to blocks keeps the rule or shows that it does not, but for the increments of ranges, which are lost unseen; the button follows the answers as long as none is lost or overtaken; the checks of a saved rule that is not misread (section 6) find it true exactly at the minutes that its labels say; no minute is checked twice, and none is missed but for the lateness and for the evaluations that the thread joins |

### Bounds and why they are enough

* `MCXplCommand`: in run `xplcmd` one lamp with xPL or MQ commands, two requests, two packets. Two is what it takes
  for a packet to answer two commands, for a command to get two answers, for one request
  to be registered during the round of another, and for a packet to be stored between the
  deletions. There are packets that match, that have another schema and that lack a
  key, and the lamp may be created after the start, deleted, and left out of a reload. A packet without a key ends the
  command thread (section 6): the liveness properties of packets and commands say
  so. `xplcmd_mismatch` has two lamps of one schema.
* `MCClientRegistry`: one plugin, since what the code does for two plugins only meets in
  the dead check and in the package rounds; a second client comes with `XplClients`.
  `MaxStarts` processes of a plugin, `MaxQueue` heartbeats and `MaxEcho` dead events on
  their way. A plugin is dead after more than one period of silence in the model, an xPL
  client after more than two, so that either comes first.
* `MCSensorHistory`: eight settings that use each clause alone and in the pairs that
  interact, three values of which two are near, four values received at four dates, one of them not newer than all before
  (`MaxLate`), at once or two seconds late: rows can be deleted for two values in a row, dates can be equal and go
  back, and a setting can change in between.
* `MCSensorStore`: one device that exists at the start or not, two values, two changes
  of the device and one failure: a value in each thread, a reload that follows another, and every interleaving of the lines of two scopes.
* `MCScenarioManager`: one test on the time and one on a page or a cron expression, the two
  kinds of threads there are: two is what it takes for one to evaluate while the other is
  joined. Two restarts: one may fall into the load that follows the other. Requests
  are not bounded (490738 states).
* `MCXplHub`: two clients, two datagrams in a minute, dead after more than two minutes
  without a heartbeat: two entries are what it takes for one to be passed over when the
  other leaves, and two datagrams for an `hbeat.end` to follow a heartbeat.
* `MCCron`: 25 texts with each form and the pairs of days that are
  alternatives, two edits, and ten minutes before the ends of months that begin or end on
  a weekend or in a leap year, with 140 seconds after each. The thread wakes up to twenty
  seconds late, and joins as long as it likes.

Where the inputs are bounded and everything may be used up, the configuration says
`CHECK_DEADLOCK FALSE` with the reason. In the others TLC shows that the threads never
wait for each other for ever.

### Fairness

Every thread of a process is scheduled by the operating system: weak fairness on each
thread (`MqThread`, `CallbackThread`, `CommandThread`, `CheckThread`, `StoreThread`,
`TestThread` and so on). `SF` on `HandleEvent` and `HandleEcho`: the event loop of ØMQ serves its sockets in turn, so a
socket that has an event again and again is read again and again. Heartbeats of a
plugin are sent by a thread of its own, `WF` on `BeatRead` and `BeatSend`; `Tick` is
the clock. No fairness is assumed of users, devices, packets, packages and crashes,
of requests about scenarios, of the age of a packet, nor of `Exit`: a process may hang while it closes, and is killed
by the watch thread, a `WF` on `CheckIfStopped`, which sleeps and then kills. `MqThread` of the commands takes for
granted that a conversion, which is code of the client's package, returns or raises.

Neither a page nor an action of a scenario has to come to an end: `urlopen` has no timeout (`scenario/parameters/url_value.py:61`,
`scenario/actions/call_url.py:73`) and a command may run for ever. `Looked` and `EndAction` have no fairness, and `RequestEnds` and `TestsGoOn` have the premise `Returns`: no
thread stays in a page or an action for ever. Without it the MQ thread may wait in a join for ever, and with it every scenario
(section 6). `TestsGoOn` also leaves out a test whose thread an exception has ended. In the hub, `WF`
on the reactor, on the thread of the timer and on the clock.

## 4. Proofs

TLAPS checks the theorems of the eight `Proofs` modules for every value of the constants, from
the named assumptions that the specifications state and TLC evaluates: that sets of clients
and devices are finite, what is a subset of what, that bounds are numbers. Each module
defines an inductive invariant `IInv`, the conjunction of the types, of the properties and of
what these need, proves that the initial state satisfies it and that every action keeps it, one step for each
action, and draws the theorems from it. In `CronRuleProofs` there are two, `IInv` of the thread and `EInv` of
the editor.

| Module | Theorems | What the inductive invariant adds |
|---|---|---|
| `XplCommandProofs` | `TypeCorrect`, `CommandsAreKept`, `RoundsAreDisjoint`, `Implementation` | `_cmd_dict` has registered commands only, `_cmd_pkt` stored packets only, the copy of a round is part of the table (`TablesInv`); what was matched and is still in a table belongs to the round that is going on (`MatchInv`); each registered command is in the table or published (`KeptInv`) |
| `SensorHistoryProofs` | `HistoryStaysClose`, `LastStays`, `IncrementsAreDifferences`, `MaxBoundsTheHistory`, `EqualRowsAreFew`, `TypeCorrect` | each row has the date of the message with its number (`RowsInv`) and, while values come in the order of their dates, the dates received increase (`OrderInv`). Then the newest row is that of the last value, a value can only delete that row (`OnlyTheLast`), and the row before tells its date, within the tolerance |
| `SensorStoreProofs` | `TypeCorrect`, `SessionsStayFew`, `GoodReloadsAreComplete`, `PublishedStays`, `FailuresPayForLosses`, `LateValuesAreRefused` | what a reload has loaded at each of its places (`ReloadInv`); that without changes the store thread has the session for itself (`QuietInv`); that the session holds at most the value that is stored (`PendingInv`); that what is on its way is of a device that was created (`SeenInv`); that a value that is due has the session for itself (`DueInv`); the account of lost values and failures with the value that is going to be lost (`LostInv`); the account of abandoned sessions with the one that is going to be (`Stray`) and the steps that the reload has left to pay for them (`SessionInv`) |
| `ClientRegistryProofs` | `TypeCorrect`, `KeysStayTogether`, `OneThreadLaunches` | that a thread in the middle of an operation has a client (`TargetInv`), that what is on its way from a plugin comes from a process that was started (`BornInv`), and that plugins stay registered when no package is removed (`StableInv`) |
| `ScenarioManagerProofs` | `TypeCorrect`, `PromisesAreKept`, `OffStaysQuiet`, `NoActionIsBegun`, `Implementation` | for each place of a request what it may be about (`RequestInv`), the threads (`ThreadsInv`), the instance (`InstanceInv`), the entry (`EntryInv`), the row (`RowInv`), memory (`MemoryInv`), and where there are no actions (`LiveInv`) |
| `XplHubProofs` | `FewAreMissed` | that the timer holds one entry at most (`HeldInv`), and that the clients that are owed the message and that the loop of the reactor will not get to any more (`Behind`) are no more than the entries that left (`CollectInv`) |
| `CronExpressionProofs` | `SpecialDaysAreRight`, `RulesAreRight` | none: it is about operators, for any rule of any number of fields and atoms and any date of the calendar |
| `CronRuleProofs` | `MinutesAreChecked`, `SaveIsRight`, `SwitchLosesNothing`, `RuleTriggersAsItSays` | `IInv`: the minutes that began outside of a join, the third of the minute and what is left of the wait add up to the wait (`WaitInv`, `JoinInv`), for any bound on the lateness (`RuleAssumption`). `EInv`: texts are sequences of fields and slots of atoms (`EditorType`, `RuleType`), and the button is the answer for the last text that was sent, or that text waits as the last check (`AnswerInv`) |

* The two theorems `Implementation` are refinements: the status of a `cmd.send` is computed from where the
  request is and from `results`, and what a user sees of a scenario from the row, the request
  and the threads. Each step is a step of the service or changes nothing of it.
* `OneThreadLaunches` assumes that no package is removed: with removal
  it does not hold (section 6).
* `TypeOK` of `ClientRegistry`, `ScenarioManager` and `SensorStore` is proved and
  in no run.

* `RulesAreRight` follows the code from the atom up. A range that goes round, which the code
  cuts in two and the editor describes modulo the span of the field, has the same values
  (`RangeIsRight`, `EachIsRight`); atoms and fields follow (`AtomIsRight`, `FieldIsRight`), for the days of the month and
  of the week with the arithmetic of the calendar; then the order in which
  `check_trigger` looks at the fields is compared with the sentence of the editor. Its premises are
  what a rule has to satisfy to be started (`Raises`, `IsValidate`) and `IsMisread`, each part of which
  is a difference between the code and the labels of the editor. `SpecialDaysAreRight` is its part about the special atoms. `RuleTriggersAsItSays` takes it to the thread.
* `SwitchLosesNothing` rests on `BlocksKeepTheText`: the blocks a text is turned into, put together
  again, are the text without the increments of ranges, when no error is shown and no block is
  incomplete. The blocks of a field are a fold over its atoms; what it computes is shown for the
  first length at which it could fail (`Least`, from the well-foundedness of the naturals), which takes the
  place of an induction.

Only model-checked: the liveness properties, which are about fairness and so out of reach
of TLAPS. These are `RequestsAreServed`, `OldPacketsLeave` and `KeptAnswerIsUsed` of the
commands, `CrashIsNoticed`, `RunningIsShown`, `StopEndsTheProcess` and `XplIsShown` of the clients,
`ThreadsGoOn` of the sensors, `RequestEnds` and `TestsGoOn` of scenarios, and `ListedAgain`,
`ListConverges` and `GoneLeave` of the hub. All other properties of the runs that hold are theorems.

## 5. Not modelled, and why

* `xpl/common/xplmessage.py`: strings without state.
* `xpl/common/xplconnector.py`: a listener that is added or removed while a message is
  given to the list may make another one miss it (414), and fragments of a message that never becomes
  complete stay in their table (402). The hub has the same kind of loop and is modelled.
* `common/plugin.py`, `common/baseplugin.py`, the part that is not in `ClientRegistry`: each
  `device.update` starts a thread that loads the devices, and the last to end wins (759);
  `register_thread` reuses the name of its parameter in its loop, so that only the first thread
  is registered and joined (183).
* `bin/dbmgr.py`, configuration: the plugin is marked as configured before its keys are
  written, each in a transaction of its own (262), so that a crash leaves a part.
* `bin/manager.py`, metrics: those that were added while a request failed are overwritten
  by the ones that were to be sent (698).
* `scenario/tests/trigger.py`: two threads that evaluate a condition with a hysteresis at
  once both see the old state, and both run the actions (49).
* `bin/package.py`, `common/packagejson.py`, `install/`, `tools/`: programs that a user
  runs once, file operations.
* `admin/static`: Blockly, jQuery and other vendored libraries make nearly all of the
  JavaScript of the repository. Of the project's own scripts the editor of cron rules is
  modelled.
* `admin/`, `admin/rest`: requests that become a database call or an MQ request.
* `butler/`: a front end of a vendored chat engine.
* SQL, JSON, logging and the ØMQ library: used and assumed to work; a failing database
  call, a lost or late event and a message that cannot be sent are in the models.

## 6. Other things the code does

These were met while reading; the models contain them unless it is said otherwise.

* A `cmd.send` for a device created after the start gets no reply: `device.update` does not load
  `all_xpl_stats` (`bin/xplgw.py:149`), the KeyError is logged by `on_mdp_request`. So is one for a device that was
  deleted meanwhile, or that a failed `device.update` has left out (164, 181), and what a conversion raises (425, 499).
  The requester waits until its own timeout. `RequestsAreServed` therefore says that a request ends, and that the
  reply comes once its message is sent.
* An answer that arrives between the send (line 510) and the registration of the uuid
  (518) is dropped when no other command waits (547).
* A packet that lacks a key ends the command thread (590); its tables are never cleaned again.
* A packet that matched a command is deleted though a newer command is waiting for it (603).
  Entries of `_cmd_dict` never time out.
* `_find_storeparam` does not reset its result for each stat (673–719; not modelled).
* A value is lost when its sensor is looked up while the tables are cleared (844).
* A session that is replaced between add and commit loses a value that is then published
  (`common/database.py:177`), during a reload.
* A session that is replaced (177), or that `None` takes the place of (186), is not closed; the garbage collector may
  return its connection. `SessionsAreFew` counts them.
* A value that the conversion of its sensor or the arithmetic of the history cannot do with is lost: the exception is logged
  (`bin/xplgw.py:844`, `common/database.py:867`).
* Values with equal or older dates (`bin/xplgw.py:276`) upset what the history decides by its newest rows. With
  `history_round` 2 and the rows 10:0 and 30:0 a value -1 dated 15 deletes row 30, and date 20 is told by -1. With
  `history_max` 1 or `history_expire` a value dated before the last one is deleted at once (`common/database.py:997`). With
  10:5, 20:5, 30:7 and a 5 dated 15 three equal rows follow each other. An incremental value is subtracted from the newest
  row by date, which need not be the last value received (900).
* The 0 of the first value of an incremental sensor is written `0` and a difference of nothing `0.0`, so that history_duplicate does not find them
  equal (943; not modelled).
* An incremental sensor without a history has no row to subtract, so that its value is always 0
  (`common/database.py:900`).
* `value_min` and `value_max` are compared with what was loaded at the last reload (979).
* 15 seconds after a stop request whatever runs of the plugin is killed, also a process
  started since (`bin/manager.py:1370`).
* When the package of a plugin is removed between its launch and `set_pid`, the KeyError
  makes `plugin.start.do` answer "does not exist" although a process was launched
  (`bin/manager.py:620`; `StartReply`).
* When a package is removed and installed again between the two steps of a start request, the MQ
  thread still holds the old Plugin object and the package thread starts the new one: both
  launch the program (`bin/manager.py:1225`, 608). `LaunchesAreExclusive` is therefore
  checked and proved for a system without removals.
* A client that is added or removed during a round of the dead check changes the dictionary
  that the round iterates over; the RuntimeError ends the thread, and no crash is noticed
  any more (`bin/manager.py:1671`, `RoundFails`). Run `clients` has it, `clients_live` has a
  fixed list, so that `CrashIsNoticed` is about the rest.
* A scenario whose creation fails in the evaluation is answered with ERROR and its row is
  deleted, while its instance and threads go on until the next restart
  (`scenario/manager.py:233`). An enable that fails leaves `_disabled` false, so that it is
  "already enabled" from then on (`scenario/scenario.py:134`); when it fails in the subscription (212) the threads
  act although the reply was ERROR.
* A scenario that cannot be instantiated leaves the threads of the tests that came first
  running. They are without effect as long as there is no condition, but one that fails after it was compiled (`scenario/scenario.py:210`, 212)
  goes on acting until the next restart, and no request reaches it. `OffIsQuiet` therefore speaks of a process in which no set-up failed, and
  `ScenarioService` has `Abandon` and `Wander`. One failure in `load_scenarios` outside of `create_scenario`'s
  handler skips the scenarios that follow (`scenario/manager.py:154`).
* A page that never comes (`scenario/parameters/url_value.py:61`) or an action that never ends keeps the MQ thread of the scenario
  manager in a join (82), and no scenario can be changed or told of a sensor any more.
* `shutdown`, `get_parsed_condition` and `eval_condition` of the scenario manager use an
  attribute that does not exist (160, 168, 253), so that no scenario is destroyed when the
  process stops. A database that answers at the last try counts as not responding, and
  `force_leave` does not exist (143–146).
* A page whose reading breaks off after it was opened, or an interval that is no number, ends the thread of its parameter
  (`scenario/parameters/url_value.py:66`, 69; `Looked`), and the scenario stays enabled.
* With `history_round` and without `history_duplicate`, two rows are lost for one value:
  the list `last2` was reversed in place (`common/database.py:919`), so that `vals[0]` is not the
  "last stored value" of the comment (943). The history then no longer tells the dates in between; `HistoryIsClose` leaves
  this pair of settings out (`Lossless`), `LastIsKept` has it.
* After disable and enable, the new thread of a test on the time evaluates the old
  condition, which `_clean_instances` leaves (`scenario/scenario.py:162`); the KeyError ends the
  thread, and the test says nothing any more. Any other exception in an evaluation does the same.
* The hub's list may have two entries of a client, which then gets every message twice, until
  the one that no heartbeat updates dies. When heartbeats come at the limit
  of the dead check, the races may go on for ever. An `hbeat.end` in the middle of a round
  ends the thread of the dead check (`xpl/hub/lib.py:350`), and dead clients stay. `ListConverges` and
  `GoneLeave` have the premise that this thread goes on.
* A cron rule with a day of the month, a day of the week and a year triggers in every year
  on the days of the month: the match ends at the day of the week (`common/cron.py:334`). A
  range that ends where it begins, as `5-5`, is the whole round (404). An increment goes on from the lowest value to
  the one before its start, so that `10/5` has also the days 4 and 9 of a month and "Start in 2020" the years before (408);
  so does a range of years that goes down. `L` alone as day of
  the week, which the editor offers as "7" or "SAT", raises when the rest matches (320): the check
  accepts it or not, depending on the date, and the thread of the rule ends. `aL` as day of the month is its last day,
  whatever a is. The numbers of the special atoms,
  the first value of `a/inc` and the inner bounds of a range that goes round are compared with nothing. `IsMisread`
  leaves these out of `TriggersAsItSays`, with periods, of which the editor says nothing.
* What follows the years, or stands in the place of the years and does not look like them, is a comment: a digit alone, or a list with an empty
  place, so that every year counts (`common/cron.py:101`, 105). The docstring of `_parse_atom` gives
  18, 22, 0 and 4 for `18-6/4`, which is 18, 22, 2 and 6. Tooltips of the editor count the days of the week from 1
  (section 2), and name offsets such as `L-3`, which nothing reads.
* The checks of a cron rule drift through the minute, and a minute in which no check falls
  is missed (`scenario/parameters/cron.py:63`, whose comment says that 60 seconds are enough). A rule that triggers while the actions it started before still run
  waits for them (`scenario/parameters/abstract.py:72`), and all the minutes until they end are missed.
* The answer to the check of an older text may come last and make it possible to save a rule
  that the server has refused; a new rule that is still empty is never checked
  (`admin/static/js/blockly_cron_edit.js:317`). The button is shared by all rules of a scenario.
  A range with an increment loses it, unseen, in the change to blocks (99–102); a single year
  is always "out of range" there (698).
* A heartbeat that was read before the process stopped may show it alive, and then dead.

## 7. Plan

Done: the eight components of section 2, with abstract specifications of the commands and of
scenarios, and proofs of all the invariants and action properties of the runs.

What could follow, in this order:

1. The hysteresis of a scenario, which several threads test and set, as an extension of
   `ScenarioManager`. Property: a condition that becomes true once runs its actions once.
2. `XplConnector`: hub discovery, fragments and listeners, composed with `XplHub`.
3. `PluginThreads`: registries of threads and timers, stop callbacks, refreshes of devices
   on threads of their own. Property: after `force_leave` no registered thread runs.
4. `DbRequests`: configuration and device requests in several transactions, with a crash
   between them, and the events they publish.
5. Metrics as an extension of `ClientRegistry`. Property: what was added is sent.
6. An abstract `StatusService` of the clients list, for any number of clients.
