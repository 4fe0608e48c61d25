--------------------------- MODULE SensorStoreProofs ---------------------------
(***************************************************************************)
(* Proofs about the way of a sensor value into the history, for any        *)
(* devices and any number of values, changes and failures.                 *)
(***************************************************************************)
EXTENDS SensorStore, FiniteSetTheorems, TLAPS

\* What the reload that is going on has loaded, when no other event is on its way.
ReloadInv ==
  /\ updates <= changes
  /\ mq.at = "idle" => mq = Idle
  /\ mq.at = "rollback" => mq.raised
  /\ mq.at = "commands" => ~ mq.raised
  /\ mq # Idle => ~ reloaded
  /\ updates = 0 /\ mq.at \notin {"idle", "xpl_stat"} => all_xpl_stat = devices
  /\ updates = 0 /\ ~ mq.raised /\ mq.at \in {"devices", "exit", "close", "reset", "commands"}
       => all_sensors = devices
  /\ updates = 0 /\ ~ mq.raised /\ mq.at \in {"exit", "close", "reset", "commands"}
       => all_devices = devices
  /\ GoodReloadIsComplete

\* While no device changes what is to be published is in the history.
QuietInv ==
  changes = 0 =>
    /\ updates = 0 /\ mq = Idle
    /\ store.at = "commit" => added = {store.item}
    /\ store.at = "publish" => store.item \in rows
    /\ PublishedIsStored

\* The session holds at most the value that waits for a commit.
PendingInv ==
  added = {} \/ (store.at \in {"commit", "exit", "rollback"} /\ added = {store.item})

\* Every value on its way is one of a device that was created.
SeenInv ==
  /\ \A k \in 1..Len(sensor_queue) : sensor_queue[k].sensor \notin unused
  /\ \A k \in 1..Len(store_queue) : store_queue[k].sensor \notin unused
  /\ store # Waits => store.item.sensor \notin unused

\* A value that is due has the session for itself.
DueInv ==
  store.due =>
    /\ store.at # "get" /\ mq = Idle /\ session # "none"
    /\ store.at = "commit" => added = {store.item}
    /\ store.at = "publish" => store.item \in rows \/ store.item.sensor \notin devices

\* A value that will be lost, and that a failure has paid for.
Losing ==
  IF /\ store.due /\ store.at \in {"exit", "rollback", "close", "reset"}
     /\ store.item \notin rows /\ store.item.sensor \in devices
  THEN 1 ELSE 0

LostInv == IsFiniteSet(lost) /\ Cardinality(lost) + Losing <= failures

\* The store thread will abandon the session that it finds.
Stray == IF session = "open" /\ store.at \in {"get", "reset"} THEN 1 ELSE 0

\* The steps on the session that the reload has before it.
StepsLeft ==
  IF mq.at \in {"xpl_stat", "clear", "open"} THEN 6
  ELSE IF mq.at = "sensors" THEN 5
  ELSE IF mq.at = "devices" THEN 4
  ELSE IF mq.at = "exit" THEN 3
  ELSE IF mq.at = "rollback" THEN 2
  ELSE IF mq.at \in {"close", "reset"} THEN 1 ELSE 0

SessionInv == abandoned + Stray + StepsLeft <= 6 * (changes - updates)

\* The inductive invariant.
IInv ==
  /\ TypeOK /\ ReloadInv /\ QuietInv /\ PendingInv /\ SeenInv /\ DueInv /\ LostInv
  /\ SessionInv
-----------------------------------------------------------------------------
\* Arithmetic: what is lost never exceeds the failures.
LEMMA Account ==
  \A f, g, a, b, c \in Nat : c + a <= f /\ b + f <= a + g => c + b <= g
OBVIOUS

\* The store thread with a value goes on with the same value.
LEMMA StoreMoves ==
  ASSUME TypeOK, store # Waits,
         NEW a \in {"lookup", "add", "commit", "publish", "exit", "rollback", "close", "reset"},
         StoreTo(a) \/ StoreGivesUp(a)
  PROVE  /\ store' \in [at : {"lookup", "add", "commit", "publish", "exit", "rollback", "close", "reset"},
                        item : Items, due : BOOLEAN]
         /\ store'.at = a /\ store'.item = store.item /\ store.item \in Items
         /\ store'.due => store.due
         /\ StoreTo(a) => store'.due = store.due
         /\ StoreGivesUp(a) => ~ store'.due
BY DEF TypeOK, StoreTo, StoreGivesUp

\* A reload that begins takes the due value of the store thread away.
LEMMA NotDue ==
  ASSUME TypeOK, store' = [store EXCEPT !.due = FALSE]
  PROVE  /\ \/ store = Waits /\ store' = Waits
            \/ /\ store # Waits /\ store'.item = store.item /\ ~ store'.due
               /\ store' \in [at : {"lookup", "add", "commit", "publish", "exit", "rollback", "close",
                                 "reset"}, item : Items, due : BOOLEAN]
         /\ store'.at = store.at
<1>1. CASE store = Waits
  BY <1>1 DEF Waits
<1>2. CASE store # Waits
  <2>1. store \in [at : {"lookup", "add", "commit", "publish", "exit", "rollback", "close", "reset"},
                  item : Items, due : BOOLEAN]
    BY <1>2 DEF TypeOK
  <2> QED
    BY <1>2, <2>1
<1> QED
  BY <1>1, <1>2

\* The reload goes on.
LEMMA MqMoves ==
  ASSUME TypeOK,
         NEW a \in {"idle", "xpl_stat", "clear", "open", "sensors", "devices", "exit",
                    "rollback", "close", "reset", "commands"},
         MqTo(a) \/ MqRaises(a) \/ mq' = Idle
  PROVE  mq' \in [at : {"idle", "xpl_stat", "clear", "open", "sensors", "devices", "exit",
                         "rollback", "close", "reset", "commands"}, raised : BOOLEAN]
<1>1. mq \in [at : {"idle", "xpl_stat", "clear", "open", "sensors", "devices", "exit",
                  "rollback", "close", "reset", "commands"}, raised : BOOLEAN]
  BY DEF TypeOK
<1>2. CASE MqTo(a)
  BY <1>1, <1>2 DEF MqTo
<1>3. CASE MqRaises(a)
  BY <1>3 DEF MqRaises
<1>4. CASE mq' = Idle
  BY <1>4 DEF Idle
<1> QED
  BY <1>2, <1>3, <1>4

\* Arithmetic: the account of the abandoned sessions.
LEMMA SameAccount ==
  \A x, y, z \in Int : y <= z /\ x <= y => x <= z
OBVIOUS

LEMMA StepPays ==
  \A a, s, l, b, t, m \in Nat :
    m + 1 <= l /\ (b + t <= a + s + 1 \/ (b = a /\ t <= 1)) => b + t + m <= a + s + l
OBVIOUS

LEMMA LessStray ==
  \A a, s, l, t, m \in Nat : t <= s /\ m <= l => a + t + m <= a + s + l
OBVIOUS

LEMMA MovedStray ==
  \A a, s, l, b, t, m \in Nat : b + t = a + s /\ m = l => b + t + m <= a + s + l
OBVIOUS

\* The initial state satisfies the invariant.
LEMMA InitInv == Init => IInv
<1> SUFFICES ASSUME Init PROVE IInv
  OBVIOUS
<1>1. TypeOK
  <2>1. sensor_queue \in Seq(Items) /\ store_queue \in Seq(Items)
    BY DEF Init
  <2>2. store = Waits /\ mq = Idle
    BY DEF Init
  <2>3. /\ updates \in 0..MaxChanges /\ changes \in 0..MaxChanges
        /\ failures \in 0..MaxFailures /\ received \in 0..MaxItems
    BY StoreAssumption DEF Init
  <2>4. devices \subseteq Devices /\ unused \subseteq Devices \ devices /\ reloaded \in BOOLEAN
    BY StoreAssumption DEF Init
  <2> QED
    BY <2>1, <2>2, <2>3, <2>4 DEF Init, TypeOK, Idle
<1>2. LostInv
  <2>1. lost = {} /\ Losing = 0 /\ failures = 0
    BY DEF Init, Losing, Waits
  <2> QED
    BY <2>1, FS_EmptySet DEF LostInv
<1>3. ReloadInv /\ QuietInv
  BY DEF Init, ReloadInv, GoodReloadIsComplete, QuietInv, PublishedIsStored, Waits, Idle
<1>4. PendingInv /\ SeenInv /\ DueInv
  BY DEF Init, PendingInv, SeenInv, DueInv, Waits
<1>5. SessionInv
  BY DEF Init, SessionInv, Stray, StepsLeft, Idle
<1> QED
  BY <1>1, <1>2, <1>3, <1>4, <1>5 DEF IInv

\* Every step keeps the types.
LEMMA TypeOKStep == IInv /\ [Next]_vars => TypeOK'
<1> SUFFICES ASSUME IInv, [Next]_vars
             PROVE  TypeOK'
  OBVIOUS
<1> USE StoreAssumption DEF IInv, TypeOK, ReloadInv, database, queues, tables, scope
<1>1. ASSUME UpdateDevice PROVE TypeOK'
  BY <1>1 DEF UpdateDevice, Change
<1>2. ASSUME NEW d \in Devices, CreateDevice(d) PROVE TypeOK'
  BY <1>2 DEF CreateDevice, Change
<1>3. ASSUME NEW d \in Devices, DeleteDevice(d) PROVE TypeOK'
  BY <1>3 DEF DeleteDevice, Change
<1>4. ASSUME NEW d \in Devices, HandleMqSensor(d) PROVE TypeOK'
  BY <1>4 DEF HandleMqSensor, Item, Items
<1>5. ASSUME NEW d \in Devices, XplCallback(d) PROVE TypeOK'
  BY <1>5 DEF XplCallback, Item, Items
<1>6. ASSUME NEW g \in BOOLEAN, FindStoreParam(g) PROVE TypeOK'
  BY <1>6 DEF FindStoreParam
<1>7. ASSUME TakeItem PROVE TypeOK'
  <2>1. Head(store_queue) \in Items /\ Tail(store_queue) \in Seq(Items)
    <3>1. store_queue \in Seq(Items) /\ store_queue # <<>>
      BY <1>7 DEF TakeItem
    <3> QED
      BY ONLY <3>1
  <2>2. /\ store' = [at |-> "lookup", item |-> Head(store_queue), due |-> mq = Idle]
        /\ store_queue' = Tail(store_queue)
    BY <1>7 DEF TakeItem
  <2>3. store' \in [at : {"lookup", "add", "commit", "publish", "exit", "rollback", "close", "reset"},
                    item : Items, due : BOOLEAN]
    BY <2>1, <2>2
  <2> QED
    BY <1>7, <2>1, <2>2, <2>3 DEF TakeItem, Open, Replace
<1>8. ASSUME Lookup PROVE TypeOK'
  <2>1. store # Waits
    BY <1>8 DEF Lookup, Waits
  <2>2. store' \in [at : {"lookup", "add", "commit", "publish", "exit", "rollback", "close", "reset"},
                    item : Items, due : BOOLEAN]
    BY <1>8, <2>1, StoreMoves DEF Lookup
  <2>3. added' \subseteq Items /\ failures' = failures
    BY <1>8, <2>1 DEF Lookup
  <2> QED
    BY <1>8, <2>2, <2>3 DEF Lookup
<1>9. ASSUME AddHistory PROVE TypeOK'
  <2>1. store # Waits
    BY <1>9 DEF AddHistory, Waits
  <2>2. store' \in [at : {"lookup", "add", "commit", "publish", "exit", "rollback", "close", "reset"},
                    item : Items, due : BOOLEAN]
    BY <1>9, <2>1, StoreMoves DEF AddHistory
  <2>3. added' \subseteq Items /\ failures' \in 0..MaxFailures
        /\ session' \in {"none", "open", "closed"} /\ abandoned' = abandoned
    BY <1>9, <2>1 DEF AddHistory, Use, Fails, StoreTo, StoreGivesUp
  <2> QED
    BY <1>9, <2>2, <2>3 DEF AddHistory
<1>10. ASSUME CommitHistory PROVE TypeOK'
  <2>1. store # Waits
    BY <1>10 DEF CommitHistory, Waits
  <2>2. store' \in [at : {"lookup", "add", "commit", "publish", "exit", "rollback", "close", "reset"},
                    item : Items, due : BOOLEAN]
    BY <1>10, <2>1, StoreMoves DEF CommitHistory
  <2>3. added' \subseteq Items /\ rows' \subseteq Items /\ failures' \in 0..MaxFailures
        /\ session' \in {"none", "open", "closed"} /\ abandoned' = abandoned
    BY <1>10, <2>1 DEF CommitHistory, Commits, CommitRaises, Use, Fails
  <2> QED
    BY <1>10, <2>2, <2>3 DEF CommitHistory
<1>11. ASSUME Publish PROVE TypeOK'
  <2>1. store # Waits
    BY <1>11 DEF Publish, Waits
  <2>2. store' \in [at : {"lookup", "add", "commit", "publish", "exit", "rollback", "close", "reset"},
                    item : Items, due : BOOLEAN]
    BY <1>11, <2>1, StoreMoves DEF Publish
  <2>3. published' \subseteq Items /\ failures' \in 0..MaxFailures
        /\ session' \in {"none", "open", "closed"} /\ abandoned' = abandoned
    BY <1>11, <2>1 DEF Publish, Use, Fails
  <2> QED
    BY <1>11, <2>2, <2>3 DEF Publish
<1>12. ASSUME StoreCommit PROVE TypeOK'
  <2>1. store # Waits
    BY <1>12 DEF StoreCommit, Waits
  <2>2. store' \in [at : {"lookup", "add", "commit", "publish", "exit", "rollback", "close", "reset"},
                    item : Items, due : BOOLEAN]
    BY <1>12, <2>1, StoreMoves DEF StoreCommit
  <2>3. added' \subseteq Items /\ rows' \subseteq Items /\ failures' \in 0..MaxFailures
        /\ session' \in {"none", "open", "closed"} /\ abandoned' = abandoned
    BY <1>12, <2>1 DEF StoreCommit, Commits, CommitRaises, Use, Fails
  <2> QED
    BY <1>12, <2>2, <2>3 DEF StoreCommit
<1>13. ASSUME StoreRollback PROVE TypeOK'
  <2>1. store # Waits
    BY <1>13 DEF StoreRollback, Waits
  <2>2. store' \in [at : {"lookup", "add", "commit", "publish", "exit", "rollback", "close", "reset"},
                    item : Items, due : BOOLEAN]
    BY <1>13, <2>1, StoreMoves DEF StoreRollback
  <2>3. added' = {} /\ session' \in {"none", "open", "closed"} /\ abandoned' = abandoned
    BY <1>13, <2>1 DEF StoreRollback, Rollback, Use
  <2> QED
    BY <1>13, <2>2, <2>3 DEF StoreRollback
<1>14. ASSUME StoreClose PROVE TypeOK'
  <2>1. store # Waits
    BY <1>14 DEF StoreClose, Waits
  <2>2. CASE session # "none" /\ Close /\ StoreTo("reset") /\ UNCHANGED lost
    <3>1. store' \in [at : {"lookup", "add", "commit", "publish", "exit", "rollback", "close", "reset"},
                      item : Items, due : BOOLEAN]
      BY <2>1, <2>2, StoreMoves
    <3> QED
      BY <1>14, <2>2, <3>1 DEF StoreClose, Close
  <2>3. CASE session = "none" /\ StoreDone /\ UNCHANGED scope
    <3>1. store' = Waits /\ lost' \subseteq Items
      BY <2>1, <2>3 DEF StoreDone
    <3> QED
      BY <1>14, <2>3, <3>1 DEF StoreClose, scope
  <2> QED
    BY <1>14, <2>2, <2>3 DEF StoreClose
<1>15. ASSUME StoreReset PROVE TypeOK'
  <2>1. store # Waits
    BY <1>15 DEF StoreReset, Waits
  <2>2. store' = Waits /\ lost' \subseteq Items
    BY <1>15, <2>1 DEF StoreReset, StoreDone
  <2> QED
    BY <1>15, <2>2 DEF StoreReset, Reset, Replace
<1>16. ASSUME TakeUpdate PROVE TypeOK'
  <2>1. updates' \in 0..MaxChanges
    BY <1>16 DEF TakeUpdate
  <2>2. \/ store' = Waits
        \/ store' \in [at : {"lookup", "add", "commit", "publish", "exit", "rollback", "close", "reset"},
                       item : Items, due : BOOLEAN]
    BY <1>16, NotDue DEF TakeUpdate
  <2>3. mq' = [at |-> "xpl_stat", raised |-> FALSE]
    BY <1>16 DEF TakeUpdate, MqTo, Idle
  <2> QED
    BY <1>16, <2>1, <2>2, <2>3 DEF TakeUpdate
<1>17. ASSUME LoadXplStat PROVE TypeOK'
  <2>1. mq' \in [at : {"idle", "xpl_stat", "clear", "open", "sensors", "devices", "exit",
                    "rollback", "close", "reset", "commands"}, raised : BOOLEAN]
    BY <1>17, MqMoves DEF LoadXplStat
  <2>2. all_xpl_stat' \subseteq Devices /\ failures' \in 0..MaxFailures
    BY <1>17 DEF LoadXplStat, Fails
  <2> QED
    BY <1>17, <2>1, <2>2 DEF LoadXplStat
<1>18. ASSUME ClearTables PROVE TypeOK'
  <2>1. mq' \in [at : {"idle", "xpl_stat", "clear", "open", "sensors", "devices", "exit",
                    "rollback", "close", "reset", "commands"}, raised : BOOLEAN]
    BY <1>18, MqMoves DEF ClearTables
  <2>2. all_sensors' = {} /\ all_devices' = {}
    BY <1>18 DEF ClearTables
  <2> QED
    BY <1>18, <2>1, <2>2 DEF ClearTables
<1>19. ASSUME OpenReload PROVE TypeOK'
  <2>1. mq' \in [at : {"idle", "xpl_stat", "clear", "open", "sensors", "devices", "exit",
                    "rollback", "close", "reset", "commands"}, raised : BOOLEAN]
    BY <1>19, MqMoves DEF OpenReload
  <2>2. added' \subseteq Items /\ session' \in {"none", "open", "closed"} /\ abandoned' \in Nat
    BY <1>19 DEF OpenReload, Open, Replace
  <2> QED
    BY <1>19, <2>1, <2>2 DEF OpenReload
<1>20. ASSUME LoadSensors PROVE TypeOK'
  <2>1. mq' \in [at : {"idle", "xpl_stat", "clear", "open", "sensors", "devices", "exit",
                    "rollback", "close", "reset", "commands"}, raised : BOOLEAN]
    BY <1>20, MqMoves DEF LoadSensors
  <2>2. all_sensors' \subseteq Devices /\ failures' \in 0..MaxFailures
        /\ session' \in {"none", "open", "closed"} /\ abandoned' \in Nat
    BY <1>20 DEF LoadSensors, Use, Fails
  <2> QED
    BY <1>20, <2>1, <2>2 DEF LoadSensors
<1>21. ASSUME LoadDevices PROVE TypeOK'
  <2>1. mq' \in [at : {"idle", "xpl_stat", "clear", "open", "sensors", "devices", "exit",
                    "rollback", "close", "reset", "commands"}, raised : BOOLEAN]
    BY <1>21, MqMoves DEF LoadDevices
  <2>2. all_devices' \subseteq Devices /\ failures' \in 0..MaxFailures
        /\ session' \in {"none", "open", "closed"} /\ abandoned' \in Nat
    BY <1>21 DEF LoadDevices, Use, Fails
  <2> QED
    BY <1>21, <2>1, <2>2 DEF LoadDevices
<1>22. ASSUME ReloadCommit PROVE TypeOK'
  <2>1. mq' \in [at : {"idle", "xpl_stat", "clear", "open", "sensors", "devices", "exit",
                    "rollback", "close", "reset", "commands"}, raised : BOOLEAN]
    BY <1>22, MqMoves DEF ReloadCommit
  <2>2. added' \subseteq Items /\ rows' \subseteq Items /\ failures' \in 0..MaxFailures
        /\ session' \in {"none", "open", "closed"} /\ abandoned' \in Nat
    BY <1>22 DEF ReloadCommit, Commits, CommitRaises, Use, Fails
  <2> QED
    BY <1>22, <2>1, <2>2 DEF ReloadCommit
<1>23. ASSUME ReloadRollback PROVE TypeOK'
  <2>1. mq' \in [at : {"idle", "xpl_stat", "clear", "open", "sensors", "devices", "exit",
                    "rollback", "close", "reset", "commands"}, raised : BOOLEAN]
    BY <1>23, MqMoves DEF ReloadRollback
  <2>2. added' \subseteq Items /\ session' \in {"none", "open", "closed"} /\ abandoned' \in Nat
    BY <1>23 DEF ReloadRollback, Rollback, Use
  <2> QED
    BY <1>23, <2>1, <2>2 DEF ReloadRollback
<1>24. ASSUME ReloadClose PROVE TypeOK'
  <2>1. mq' \in [at : {"idle", "xpl_stat", "clear", "open", "sensors", "devices", "exit",
                    "rollback", "close", "reset", "commands"}, raised : BOOLEAN]
    BY <1>24, MqMoves DEF ReloadClose
  <2>2. added' \subseteq Items /\ session' \in {"none", "open", "closed"} /\ abandoned' \in Nat
    BY <1>24 DEF ReloadClose, Close
  <2> QED
    BY <1>24, <2>1, <2>2 DEF ReloadClose
<1>25. ASSUME ReloadReset PROVE TypeOK'
  <2>1. mq' \in [at : {"idle", "xpl_stat", "clear", "open", "sensors", "devices", "exit",
                    "rollback", "close", "reset", "commands"}, raised : BOOLEAN]
    BY <1>25, MqMoves DEF ReloadReset
  <2>2. added' \subseteq Items /\ session' \in {"none", "open", "closed"} /\ abandoned' \in Nat
    BY <1>25 DEF ReloadReset, Reset, Replace
  <2> QED
    BY <1>25, <2>1, <2>2 DEF ReloadReset
<1>26. ASSUME ReloadCommands PROVE TypeOK'
  <2>1. mq' \in [at : {"idle", "xpl_stat", "clear", "open", "sensors", "devices", "exit",
                    "rollback", "close", "reset", "commands"}, raised : BOOLEAN]
    BY <1>26, MqMoves DEF ReloadCommands
  <2>2. all_commands' \subseteq Devices
    BY <1>26 DEF ReloadCommands
  <2>3. failures' \in 0..MaxFailures
    BY <1>26 DEF ReloadCommands, Fails
  <2>4. reloaded' \in BOOLEAN
    BY <1>26 DEF ReloadCommands
  <2> QED
    BY <1>26, <2>1, <2>2, <2>3, <2>4 DEF ReloadCommands
<1>27. ASSUME UNCHANGED vars PROVE TypeOK'
  BY <1>27 DEF vars
<1> QED
  BY <1>1, <1>2, <1>3, <1>4, <1>5, <1>6, <1>7, <1>8, <1>9, <1>10, <1>11, <1>12, <1>13, <1>14, <1>15, <1>16, <1>17, <1>18, <1>19, <1>20, <1>21, <1>22, <1>23, <1>24, <1>25, <1>26, <1>27
  DEF Next, Environment, SensorThread, StoreThread, Reload

\* Every step keeps the tables as the reload has loaded them.
LEMMA ReloadInvStep == IInv /\ [Next]_vars => ReloadInv'
<1> SUFFICES ASSUME IInv, [Next]_vars
             PROVE  ReloadInv'
  OBVIOUS
<1> USE DEF IInv, TypeOK, ReloadInv, GoodReloadIsComplete, Idle, database, queues, tables, scope
<1>1. ASSUME UpdateDevice PROVE ReloadInv'
  BY <1>1 DEF UpdateDevice, Change
<1>2. ASSUME NEW d \in Devices, CreateDevice(d) PROVE ReloadInv'
  BY <1>2 DEF CreateDevice, Change
<1>3. ASSUME NEW d \in Devices, DeleteDevice(d) PROVE ReloadInv'
  BY <1>3 DEF DeleteDevice, Change
<1>4. ASSUME NEW d \in Devices, HandleMqSensor(d) PROVE ReloadInv'
  BY <1>4 DEF HandleMqSensor, Item, Items
<1>5. ASSUME NEW d \in Devices, XplCallback(d) PROVE ReloadInv'
  BY <1>5 DEF XplCallback, Item, Items
<1>6. ASSUME NEW g \in BOOLEAN, FindStoreParam(g) PROVE ReloadInv'
  BY <1>6 DEF FindStoreParam
<1>7. ASSUME TakeItem PROVE ReloadInv'
  BY <1>7 DEF TakeItem, Open, Replace
<1>8. ASSUME Lookup PROVE ReloadInv'
  BY <1>8 DEF Lookup, StoreTo, StoreGivesUp
<1>9. ASSUME AddHistory PROVE ReloadInv'
  BY <1>9 DEF AddHistory, StoreTo, StoreGivesUp, Use, Fails
<1>10. ASSUME CommitHistory PROVE ReloadInv'
  BY <1>10 DEF CommitHistory, StoreTo, Commits, CommitRaises, Use, Fails, CanCommit
<1>11. ASSUME Publish PROVE ReloadInv'
  BY <1>11 DEF Publish, StoreTo, Use, Fails
<1>12. ASSUME StoreCommit PROVE ReloadInv'
  BY <1>12 DEF StoreCommit, StoreTo, Commits, CommitRaises, Use, Fails, CanCommit
<1>13. ASSUME StoreRollback PROVE ReloadInv'
  BY <1>13 DEF StoreRollback, StoreTo, Rollback, Use
<1>14. ASSUME StoreClose PROVE ReloadInv'
  BY <1>14 DEF StoreClose, StoreTo, StoreDone, Close
<1>15. ASSUME StoreReset PROVE ReloadInv'
  BY <1>15 DEF StoreReset, StoreDone, Reset, Replace
<1>16. ASSUME TakeUpdate PROVE ReloadInv'
  BY <1>16 DEF TakeUpdate, MqTo
<1>17. ASSUME LoadXplStat PROVE ReloadInv'
  BY <1>17 DEF LoadXplStat, MqTo, Fails
<1>18. ASSUME ClearTables PROVE ReloadInv'
  BY <1>18 DEF ClearTables, MqTo
<1>19. ASSUME OpenReload PROVE ReloadInv'
  BY <1>19 DEF OpenReload, MqTo, Open, Replace
<1>20. ASSUME LoadSensors PROVE ReloadInv'
  BY <1>20 DEF LoadSensors, MqTo, MqRaises, Use, Fails
<1>21. ASSUME LoadDevices PROVE ReloadInv'
  BY <1>21 DEF LoadDevices, MqTo, MqRaises, Use, Fails
<1>22. ASSUME ReloadCommit PROVE ReloadInv'
  BY <1>22 DEF ReloadCommit, MqTo, MqRaises, Commits, CommitRaises, Use, Fails, CanCommit
<1>23. ASSUME ReloadRollback PROVE ReloadInv'
  BY <1>23 DEF ReloadRollback, MqTo, Rollback, Use
<1>24. ASSUME ReloadClose PROVE ReloadInv'
  BY <1>24 DEF ReloadClose, MqTo, Close
<1>25. ASSUME ReloadReset PROVE ReloadInv'
  BY <1>25 DEF ReloadReset, Reset, Replace
<1>26. ASSUME ReloadCommands PROVE ReloadInv'
  BY <1>26 DEF ReloadCommands, Fails
<1>27. ASSUME UNCHANGED vars PROVE ReloadInv'
  BY <1>27 DEF vars
<1> QED
  BY <1>1, <1>2, <1>3, <1>4, <1>5, <1>6, <1>7, <1>8, <1>9, <1>10, <1>11, <1>12, <1>13, <1>14, <1>15, <1>16, <1>17, <1>18, <1>19, <1>20, <1>21, <1>22, <1>23, <1>24, <1>25, <1>26, <1>27
  DEF Next, Environment, SensorThread, StoreThread, Reload

\* Every step keeps what is published in the history while no device changes.
LEMMA QuietInvStep == IInv /\ [Next]_vars => QuietInv'
<1> SUFFICES ASSUME IInv, [Next]_vars
             PROVE  QuietInv'
  OBVIOUS
<1> USE DEF IInv, TypeOK, ReloadInv, PendingInv, QuietInv, PublishedIsStored, Waits, Idle, database, queues, tables, scope
<1>1. ASSUME UpdateDevice PROVE QuietInv'
  BY <1>1 DEF UpdateDevice, Change
<1>2. ASSUME NEW d \in Devices, CreateDevice(d) PROVE QuietInv'
  BY <1>2 DEF CreateDevice, Change
<1>3. ASSUME NEW d \in Devices, DeleteDevice(d) PROVE QuietInv'
  BY <1>3 DEF DeleteDevice, Change
<1>4. ASSUME NEW d \in Devices, HandleMqSensor(d) PROVE QuietInv'
  BY <1>4 DEF HandleMqSensor, Item, Items
<1>5. ASSUME NEW d \in Devices, XplCallback(d) PROVE QuietInv'
  BY <1>5 DEF XplCallback, Item, Items
<1>6. ASSUME NEW g \in BOOLEAN, FindStoreParam(g) PROVE QuietInv'
  BY <1>6 DEF FindStoreParam
<1>7. ASSUME TakeItem PROVE QuietInv'
  BY <1>7 DEF TakeItem, Open, Replace
<1>8. ASSUME Lookup PROVE QuietInv'
  BY <1>8 DEF Lookup, StoreTo, StoreGivesUp
<1>9. ASSUME AddHistory PROVE QuietInv'
  BY <1>9 DEF AddHistory, StoreTo, StoreGivesUp, Use, Fails
<1>10. ASSUME CommitHistory PROVE QuietInv'
  BY <1>10 DEF CommitHistory, StoreTo, Commits, CommitRaises, Use, Fails, CanCommit
<1>11. ASSUME Publish PROVE QuietInv'
  BY <1>11 DEF Publish, StoreTo, Use, Fails
<1>12. ASSUME StoreCommit PROVE QuietInv'
  BY <1>12 DEF StoreCommit, StoreTo, Commits, CommitRaises, Use, Fails, CanCommit
<1>13. ASSUME StoreRollback PROVE QuietInv'
  BY <1>13 DEF StoreRollback, StoreTo, Rollback, Use
<1>14. ASSUME StoreClose PROVE QuietInv'
  BY <1>14 DEF StoreClose, StoreTo, StoreDone, Close
<1>15. ASSUME StoreReset PROVE QuietInv'
  BY <1>15 DEF StoreReset, StoreDone, Reset, Replace
<1>16. ASSUME TakeUpdate PROVE QuietInv'
  BY <1>16 DEF TakeUpdate, MqTo
<1>17. ASSUME LoadXplStat PROVE QuietInv'
  BY <1>17 DEF LoadXplStat, MqTo, Fails
<1>18. ASSUME ClearTables PROVE QuietInv'
  BY <1>18 DEF ClearTables, MqTo
<1>19. ASSUME OpenReload PROVE QuietInv'
  BY <1>19 DEF OpenReload, MqTo, Open, Replace
<1>20. ASSUME LoadSensors PROVE QuietInv'
  BY <1>20 DEF LoadSensors, MqTo, MqRaises, Use, Fails
<1>21. ASSUME LoadDevices PROVE QuietInv'
  BY <1>21 DEF LoadDevices, MqTo, MqRaises, Use, Fails
<1>22. ASSUME ReloadCommit PROVE QuietInv'
  BY <1>22 DEF ReloadCommit, MqTo, MqRaises, Commits, CommitRaises, Use, Fails, CanCommit
<1>23. ASSUME ReloadRollback PROVE QuietInv'
  BY <1>23 DEF ReloadRollback, MqTo, Rollback, Use
<1>24. ASSUME ReloadClose PROVE QuietInv'
  BY <1>24 DEF ReloadClose, MqTo, Close
<1>25. ASSUME ReloadReset PROVE QuietInv'
  BY <1>25 DEF ReloadReset, Reset, Replace
<1>26. ASSUME ReloadCommands PROVE QuietInv'
  BY <1>26 DEF ReloadCommands, Fails
<1>27. ASSUME UNCHANGED vars PROVE QuietInv'
  BY <1>27 DEF vars
<1> QED
  BY <1>1, <1>2, <1>3, <1>4, <1>5, <1>6, <1>7, <1>8, <1>9, <1>10, <1>11, <1>12, <1>13, <1>14, <1>15, <1>16, <1>17, <1>18, <1>19, <1>20, <1>21, <1>22, <1>23, <1>24, <1>25, <1>26, <1>27
  DEF Next, Environment, SensorThread, StoreThread, Reload

\* Every step keeps what is pending in the session.
LEMMA PendingInvStep == IInv /\ [Next]_vars => PendingInv'
<1> SUFFICES ASSUME IInv, [Next]_vars
             PROVE  PendingInv'
  OBVIOUS
<1> USE DEF IInv, TypeOK, PendingInv, Waits, database, queues, tables, scope
<1>1. ASSUME UpdateDevice PROVE PendingInv'
  BY <1>1 DEF UpdateDevice, Change
<1>2. ASSUME NEW d \in Devices, CreateDevice(d) PROVE PendingInv'
  BY <1>2 DEF CreateDevice, Change
<1>3. ASSUME NEW d \in Devices, DeleteDevice(d) PROVE PendingInv'
  BY <1>3 DEF DeleteDevice, Change
<1>4. ASSUME NEW d \in Devices, HandleMqSensor(d) PROVE PendingInv'
  BY <1>4 DEF HandleMqSensor, Item, Items
<1>5. ASSUME NEW d \in Devices, XplCallback(d) PROVE PendingInv'
  BY <1>5 DEF XplCallback, Item, Items
<1>6. ASSUME NEW g \in BOOLEAN, FindStoreParam(g) PROVE PendingInv'
  BY <1>6 DEF FindStoreParam
<1>7. ASSUME TakeItem PROVE PendingInv'
  BY <1>7 DEF TakeItem, Open, Replace
<1>8. ASSUME Lookup PROVE PendingInv'
  BY <1>8 DEF Lookup, StoreTo, StoreGivesUp
<1>9. ASSUME AddHistory PROVE PendingInv'
  BY <1>9 DEF AddHistory, StoreTo, StoreGivesUp, Use, Fails
<1>10. ASSUME CommitHistory PROVE PendingInv'
  BY <1>10 DEF CommitHistory, StoreTo, Commits, CommitRaises, Use, Fails, CanCommit
<1>11. ASSUME Publish PROVE PendingInv'
  BY <1>11 DEF Publish, StoreTo, Use, Fails
<1>12. ASSUME StoreCommit PROVE PendingInv'
  BY <1>12 DEF StoreCommit, StoreTo, Commits, CommitRaises, Use, Fails, CanCommit
<1>13. ASSUME StoreRollback PROVE PendingInv'
  BY <1>13 DEF StoreRollback, StoreTo, Rollback, Use
<1>14. ASSUME StoreClose PROVE PendingInv'
  BY <1>14 DEF StoreClose, StoreTo, StoreDone, Close
<1>15. ASSUME StoreReset PROVE PendingInv'
  BY <1>15 DEF StoreReset, StoreDone, Reset, Replace
<1>16. ASSUME TakeUpdate PROVE PendingInv'
  BY <1>16 DEF TakeUpdate, MqTo
<1>17. ASSUME LoadXplStat PROVE PendingInv'
  BY <1>17 DEF LoadXplStat, MqTo, Fails
<1>18. ASSUME ClearTables PROVE PendingInv'
  BY <1>18 DEF ClearTables, MqTo
<1>19. ASSUME OpenReload PROVE PendingInv'
  BY <1>19 DEF OpenReload, MqTo, Open, Replace
<1>20. ASSUME LoadSensors PROVE PendingInv'
  BY <1>20 DEF LoadSensors, MqTo, MqRaises, Use, Fails
<1>21. ASSUME LoadDevices PROVE PendingInv'
  BY <1>21 DEF LoadDevices, MqTo, MqRaises, Use, Fails
<1>22. ASSUME ReloadCommit PROVE PendingInv'
  BY <1>22 DEF ReloadCommit, MqTo, MqRaises, Commits, CommitRaises, Use, Fails, CanCommit
<1>23. ASSUME ReloadRollback PROVE PendingInv'
  BY <1>23 DEF ReloadRollback, MqTo, Rollback, Use
<1>24. ASSUME ReloadClose PROVE PendingInv'
  BY <1>24 DEF ReloadClose, MqTo, Close
<1>25. ASSUME ReloadReset PROVE PendingInv'
  BY <1>25 DEF ReloadReset, Reset, Replace
<1>26. ASSUME ReloadCommands PROVE PendingInv'
  BY <1>26 DEF ReloadCommands, Fails
<1>27. ASSUME UNCHANGED vars PROVE PendingInv'
  BY <1>27 DEF vars
<1> QED
  BY <1>1, <1>2, <1>3, <1>4, <1>5, <1>6, <1>7, <1>8, <1>9, <1>10, <1>11, <1>12, <1>13, <1>14, <1>15, <1>16, <1>17, <1>18, <1>19, <1>20, <1>21, <1>22, <1>23, <1>24, <1>25, <1>26, <1>27
  DEF Next, Environment, SensorThread, StoreThread, Reload

\* A value that is put into a queue, or taken from it.
LEMMA AppendSeen ==
  ASSUME NEW s \in Seq(Items), NEW i \in Items, NEW U,
         \A k \in 1..Len(s) : s[k].sensor \notin U, i.sensor \notin U
  PROVE  \A k \in 1..Len(Append(s, i)) : Append(s, i)[k].sensor \notin U
OBVIOUS

LEMMA TailSeen ==
  ASSUME NEW s \in Seq(Items), s # <<>>, NEW U, \A k \in 1..Len(s) : s[k].sensor \notin U
  PROVE  /\ Head(s) \in Items /\ Head(s).sensor \notin U /\ Tail(s) \in Seq(Items)
         /\ \A k \in 1..Len(Tail(s)) : Tail(s)[k].sensor \notin U
OBVIOUS

\* Every step keeps it that only values of devices that were created are on their way.
LEMMA SeenInvStep == IInv /\ [Next]_vars => SeenInv'
<1> SUFFICES ASSUME IInv, [Next]_vars
             PROVE  SeenInv'
  OBVIOUS
<1>1. TypeOK /\ SeenInv
  BY DEF IInv
<1>2. ASSUME unused' \subseteq unused, UNCHANGED <<sensor_queue, store_queue>>,
             store' = Waits \/ (store # Waits /\ store'.item = store.item)
      PROVE  SeenInv'
  BY <1>1, <1>2 DEF SeenInv
<1>3. CASE UNCHANGED <<unused, sensor_queue, store_queue, store>>
  BY <1>2, <1>3 DEF SeenInv
<1>4. CASE UpdateDevice
  BY <1>3, <1>4 DEF UpdateDevice, Change
<1>5. ASSUME NEW d \in Devices, CreateDevice(d) \/ DeleteDevice(d) PROVE SeenInv'
  BY <1>1, <1>5 DEF CreateDevice, DeleteDevice, Change, SeenInv
<1>6. ASSUME NEW d \in Devices, HandleMqSensor(d) PROVE SeenInv'
  <2>1. Item(d) \in Items /\ Item(d).sensor \notin unused
    BY <1>1, <1>6, StoreAssumption DEF HandleMqSensor, Item, Items, TypeOK
  <2>2. store_queue' = Append(store_queue, Item(d)) /\ UNCHANGED <<unused, sensor_queue, store>>
    BY <1>6 DEF HandleMqSensor, database
  <2>3. \A k \in 1..Len(store_queue') : store_queue'[k].sensor \notin unused
    BY <1>1, <2>1, <2>2, AppendSeen DEF SeenInv, TypeOK
  <2> QED
    BY <1>1, <2>2, <2>3 DEF SeenInv
<1>7. ASSUME NEW d \in Devices, XplCallback(d) PROVE SeenInv'
  <2>1. Item(d) \in Items /\ Item(d).sensor \notin unused
    BY <1>1, <1>7, StoreAssumption DEF XplCallback, Item, Items, TypeOK
  <2>2. sensor_queue' = Append(sensor_queue, Item(d)) /\ UNCHANGED <<unused, store_queue, store>>
    BY <1>7 DEF XplCallback, database
  <2>3. \A k \in 1..Len(sensor_queue') : sensor_queue'[k].sensor \notin unused
    BY <1>1, <2>1, <2>2, AppendSeen DEF SeenInv, TypeOK
  <2> QED
    BY <1>1, <2>2, <2>3 DEF SeenInv
<1>8. ASSUME NEW g \in BOOLEAN, FindStoreParam(g) PROVE SeenInv'
  <2>1. sensor_queue' = Tail(sensor_queue) /\ sensor_queue # <<>> /\ UNCHANGED <<unused, store>>
    BY <1>8 DEF FindStoreParam, database
  <2>2. /\ Head(sensor_queue) \in Items /\ Head(sensor_queue).sensor \notin unused
        /\ \A k \in 1..Len(sensor_queue') : sensor_queue'[k].sensor \notin unused
    BY <1>1, <2>1, TailSeen DEF SeenInv, TypeOK
  <2>3. store_queue' = store_queue \/ store_queue' = Append(store_queue, Head(sensor_queue))
    BY <1>8 DEF FindStoreParam
  <2>4. \A k \in 1..Len(store_queue') : store_queue'[k].sensor \notin unused
    BY <1>1, <2>2, <2>3, AppendSeen DEF SeenInv, TypeOK
  <2> QED
    BY <1>1, <2>1, <2>2, <2>4 DEF SeenInv
<1>9. CASE TakeItem
  <2>1. /\ store_queue' = Tail(store_queue) /\ store_queue # <<>>
        /\ store'.item = Head(store_queue) /\ UNCHANGED <<unused, sensor_queue>>
    BY <1>9 DEF TakeItem, database
  <2>2. /\ Head(store_queue).sensor \notin unused
        /\ \A k \in 1..Len(store_queue') : store_queue'[k].sensor \notin unused
    BY <1>1, <2>1, TailSeen DEF SeenInv, TypeOK
  <2> QED
    BY <1>1, <2>1, <2>2 DEF SeenInv
<1>10. CASE Lookup \/ AddHistory \/ CommitHistory \/ Publish \/ StoreCommit \/ StoreRollback
  <2>1. store # Waits
    BY <1>10 DEF Lookup, AddHistory, CommitHistory, Publish, StoreCommit, StoreRollback, Waits
  <2>2. store'.item = store.item
    BY <1>1, <1>10, <2>1, StoreMoves
    DEF Lookup, AddHistory, CommitHistory, Publish, StoreCommit, StoreRollback
  <2> QED
    BY <1>2, <1>10, <2>1, <2>2
    DEF Lookup, AddHistory, CommitHistory, Publish, StoreCommit, StoreRollback, database, queues
<1>11. CASE StoreClose \/ StoreReset
  <2>1. store # Waits
    BY <1>11 DEF StoreClose, StoreReset, Waits
  <2>2. store' = Waits \/ store'.item = store.item
    BY <1>1, <1>11, <2>1, StoreMoves DEF StoreClose, StoreReset, StoreDone
  <2> QED
    BY <1>2, <1>11, <2>1, <2>2 DEF StoreClose, StoreReset, database, queues
<1>12. CASE TakeUpdate
  <2>1. store' = Waits \/ (store # Waits /\ store'.item = store.item)
    BY <1>1, <1>12, NotDue DEF TakeUpdate
  <2> QED
    BY <1>2, <1>12, <2>1 DEF TakeUpdate, database
<1>13. CASE Reload \/ UNCHANGED vars
  BY <1>3, <1>13 DEF Reload, LoadXplStat, ClearTables, OpenReload, LoadSensors, LoadDevices, ReloadCommit,
     ReloadRollback, ReloadClose, ReloadReset, ReloadCommands, database, queues, vars
<1> QED
  BY <1>4, <1>5, <1>6, <1>7, <1>8, <1>9, <1>10, <1>11, <1>12, <1>13
  DEF Next, Environment, SensorThread, StoreThread

\* Every step leaves the session to a value that is due.
LEMMA DueInvStep == IInv /\ [Next]_vars => DueInv'
<1> SUFFICES ASSUME IInv, [Next]_vars
             PROVE  DueInv'
  OBVIOUS
<1> USE DEF IInv, TypeOK, PendingInv, SeenInv, DueInv, Waits, Idle, database, queues, tables, scope
<1>1. ASSUME UpdateDevice PROVE DueInv'
  BY <1>1 DEF UpdateDevice, Change
<1>2. ASSUME NEW d \in Devices, CreateDevice(d) PROVE DueInv'
  BY <1>2 DEF CreateDevice, Change
<1>3. ASSUME NEW d \in Devices, DeleteDevice(d) PROVE DueInv'
  BY <1>3 DEF DeleteDevice, Change
<1>4. ASSUME NEW d \in Devices, HandleMqSensor(d) PROVE DueInv'
  BY <1>4 DEF HandleMqSensor, Item, Items
<1>5. ASSUME NEW d \in Devices, XplCallback(d) PROVE DueInv'
  BY <1>5 DEF XplCallback, Item, Items
<1>6. ASSUME NEW g \in BOOLEAN, FindStoreParam(g) PROVE DueInv'
  BY <1>6 DEF FindStoreParam
<1>7. ASSUME TakeItem PROVE DueInv'
  BY <1>7 DEF TakeItem, Open, Replace
<1>8. ASSUME Lookup PROVE DueInv'
  BY <1>8 DEF Lookup, StoreTo, StoreGivesUp
<1>9. ASSUME AddHistory PROVE DueInv'
  <2>1. /\ store.at = "add" /\ added = {} /\ store # Waits
        /\ session' = IF session = "none" THEN "none" ELSE "open"
        /\ UNCHANGED <<mq, rows, devices>>
    BY <1>9 DEF AddHistory, Use
  <2>2. CASE added' = added \cup {store.item} /\ StoreTo("commit")
    BY <2>1, <2>2 DEF StoreTo
  <2>3. CASE StoreTo("exit")
    BY <2>1, <2>3 DEF StoreTo
  <2>4. CASE StoreGivesUp("exit")
    BY <2>1, <2>4 DEF StoreGivesUp
  <2> QED
    BY <1>9, <2>2, <2>3, <2>4 DEF AddHistory
<1>10. ASSUME CommitHistory PROVE DueInv'
  BY <1>10 DEF CommitHistory, StoreTo, Commits, CommitRaises, Use, Fails, CanCommit
<1>11. ASSUME Publish PROVE DueInv'
  BY <1>11 DEF Publish, StoreTo, Use, Fails
<1>12. ASSUME StoreCommit PROVE DueInv'
  BY <1>12 DEF StoreCommit, StoreTo, Commits, CommitRaises, Use, Fails, CanCommit
<1>13. ASSUME StoreRollback PROVE DueInv'
  BY <1>13 DEF StoreRollback, StoreTo, Rollback, Use
<1>14. ASSUME StoreClose PROVE DueInv'
  BY <1>14 DEF StoreClose, StoreTo, StoreDone, Close
<1>15. ASSUME StoreReset PROVE DueInv'
  BY <1>15 DEF StoreReset, StoreDone, Reset, Replace
<1>16. ASSUME TakeUpdate PROVE DueInv'
  BY <1>16 DEF TakeUpdate, MqTo
<1>17. ASSUME LoadXplStat PROVE DueInv'
  BY <1>17 DEF LoadXplStat, MqTo, Fails
<1>18. ASSUME ClearTables PROVE DueInv'
  BY <1>18 DEF ClearTables, MqTo
<1>19. ASSUME OpenReload PROVE DueInv'
  BY <1>19 DEF OpenReload, MqTo, Open, Replace
<1>20. ASSUME LoadSensors PROVE DueInv'
  BY <1>20 DEF LoadSensors, MqTo, MqRaises, Use, Fails
<1>21. ASSUME LoadDevices PROVE DueInv'
  BY <1>21 DEF LoadDevices, MqTo, MqRaises, Use, Fails
<1>22. ASSUME ReloadCommit PROVE DueInv'
  BY <1>22 DEF ReloadCommit, MqTo, MqRaises, Commits, CommitRaises, Use, Fails, CanCommit
<1>23. ASSUME ReloadRollback PROVE DueInv'
  BY <1>23 DEF ReloadRollback, MqTo, Rollback, Use
<1>24. ASSUME ReloadClose PROVE DueInv'
  BY <1>24 DEF ReloadClose, MqTo, Close
<1>25. ASSUME ReloadReset PROVE DueInv'
  BY <1>25 DEF ReloadReset, Reset, Replace
<1>26. ASSUME ReloadCommands PROVE DueInv'
  BY <1>26 DEF ReloadCommands, Fails
<1>27. ASSUME UNCHANGED vars PROVE DueInv'
  BY <1>27 DEF vars
<1> QED
  BY <1>1, <1>2, <1>3, <1>4, <1>5, <1>6, <1>7, <1>8, <1>9, <1>10, <1>11, <1>12, <1>13, <1>14, <1>15, <1>16, <1>17, <1>18, <1>19, <1>20, <1>21, <1>22, <1>23, <1>24, <1>25, <1>26, <1>27
  DEF Next, Environment, SensorThread, StoreThread, Reload

\* Every step keeps the account of what is lost: a failure pays for each value.
LEMMA LostInvStep == IInv /\ [Next]_vars => LostInv'
<1> SUFFICES ASSUME IInv, [Next]_vars
             PROVE  LostInv'
  OBVIOUS
<1>1. /\ IsFiniteSet(lost) /\ Cardinality(lost) + Losing <= failures
      /\ Cardinality(lost) \in Nat /\ failures \in Nat /\ TypeOK
  BY FS_CardinalityType DEF IInv, LostInv, TypeOK
<1>2. Losing \in Nat /\ Losing' \in Nat
  BY DEF Losing
<1>3. ASSUME lost' = lost, Losing' + failures <= Losing + failures', failures' \in Nat
      PROVE  LostInv'
  <2>1. IsFiniteSet(lost') /\ Cardinality(lost') = Cardinality(lost)
    BY <1>1, <1>3
  <2>2. Cardinality(lost') + Losing' <= failures'
    BY <1>1, <1>2, <1>3, <2>1, Account
  <2> QED
    BY <2>1, <2>2 DEF LostInv
<1>4. ASSUME lost' = lost, failures' = failures \/ failures' = failures + 1,
             Losing' = 0 \/ Losing' = Losing
      PROVE  LostInv'
  <2>1. Losing' + failures <= Losing + failures' /\ failures' \in Nat
    BY <1>1, <1>2, <1>4
  <2> QED
    BY <1>3, <1>4, <2>1
<1>5. ASSUME lost' = lost, failures' = failures + 1, Losing = 0
      PROVE  LostInv'
  <2>1. Losing' \in {0, 1}
    BY DEF Losing
  <2>2. Losing' + failures <= Losing + failures' /\ failures' \in Nat
    <3> HIDE DEF Losing
    <3>1. \A f, g \in Nat, a, b \in {0, 1} : g = f + 1 /\ a = 0 => b + f <= a + g /\ f + 1 \in Nat
      OBVIOUS
    <3>2. failures + 1 \in Nat
      BY <1>1
    <3> QED
      BY <1>1, <1>5, <2>1, <3>1, <3>2
  <2> QED
    BY <1>3, <1>5, <2>2
<1>6. ASSUME StoreDone, failures' = failures, store # Waits,
             store.at \in {"close", "reset"}
      PROVE  LostInv'
  <2>1. Losing' = 0
    BY <1>6 DEF StoreDone, Waits, Losing
  <2>2. CASE lost' = lost
    BY <1>4, <1>6, <2>1, <2>2
  <2>3. CASE lost' # lost
    <3>1. lost' \subseteq lost \cup {store.item} /\ Losing = 1
      BY <1>6, <2>3 DEF StoreDone, Losing
    <3>2. /\ IsFiniteSet(lost \cup {store.item})
          /\ Cardinality(lost \cup {store.item}) <= Cardinality(lost) + 1
      BY <1>1, FS_AddElement
    <3>3. IsFiniteSet(lost') /\ Cardinality(lost') <= Cardinality(lost \cup {store.item})
      BY <3>1, <3>2, FS_Subset
    <3>4. Cardinality(lost') \in Nat /\ Cardinality(lost \cup {store.item}) \in Nat
      BY <3>2, <3>3, FS_CardinalityType
    <3>5. Cardinality(lost') + Losing' <= failures'
      BY <1>1, <1>6, <2>1, <3>1, <3>2, <3>3, <3>4
    <3> QED
      BY <3>3, <3>5 DEF LostInv
  <2> QED
    BY <2>2, <2>3
<1>7. CASE UNCHANGED <<lost, rows, store, devices, failures>>
  <2>1. Losing' = Losing
    BY <1>7 DEF Losing
  <2> QED
    BY <1>4, <1>7, <2>1
<1>8. ASSUME NEW D, NEW R, Change(D, R),
             store.item.sensor \in D /\ store # Waits
               => store.item.sensor \in devices /\ (store.item \in rows => store.item \in R)
      PROVE  LostInv'
  <2>1. Losing' = 0 \/ Losing' = Losing
    BY <1>8 DEF Change, Losing, Waits
  <2> QED
    BY <1>4, <1>8, <2>1 DEF Change
<1>9. CASE UpdateDevice
  BY <1>8, <1>9 DEF UpdateDevice
<1>10. ASSUME NEW d \in Devices, CreateDevice(d) PROVE LostInv'
  BY <1>8, <1>10 DEF CreateDevice, IInv, SeenInv
<1>11. ASSUME NEW d \in Devices, DeleteDevice(d) PROVE LostInv'
  BY <1>8, <1>11 DEF DeleteDevice
<1>12. ASSUME NEW d \in Devices, HandleMqSensor(d) \/ XplCallback(d) PROVE LostInv'
  BY <1>7, <1>12 DEF HandleMqSensor, XplCallback, database
<1>13. CASE SensorThread \/ UNCHANGED vars
  BY <1>7, <1>13 DEF SensorThread, FindStoreParam, database, vars
<1>14. CASE TakeItem \/ TakeUpdate
  <2>1. Losing' = 0
    BY <1>1, <1>14 DEF TakeItem, TakeUpdate, Losing, TypeOK, Waits
  <2> QED
    BY <1>4, <1>14, <2>1 DEF TakeItem, TakeUpdate
<1>15. CASE Lookup
  <2>1. store # Waits
    BY <1>15 DEF Lookup, Waits
  <2>2. store'.at = "add" \/ ~ store'.due
    BY <1>1, <1>15, <2>1 DEF Lookup, StoreTo, StoreGivesUp, TypeOK
  <2>3. Losing' = 0
    BY <2>2 DEF Losing
  <2> QED
    BY <1>4, <1>15, <2>3 DEF Lookup
<1>16. CASE AddHistory
  <2>1. store # Waits /\ Losing = 0
    BY <1>16 DEF AddHistory, Waits, Losing
  <2>2. store.due => session # "none"
    BY DEF IInv, DueInv
  <2>3. CASE failures' = failures
    <3>1. \/ StoreTo("commit")
          \/ session = "none" /\ StoreTo("exit")
          \/ StoreGivesUp("exit")
      BY <1>1, <1>16, <2>3 DEF AddHistory, Fails
    <3>2. store'.at = "commit" \/ ~ store'.due
      BY <1>1, <2>1, <2>2, <3>1, StoreMoves
    <3>3. Losing' = 0
      BY <3>2 DEF Losing
    <3> QED
      BY <1>4, <1>16, <2>3, <3>3 DEF AddHistory
  <2>4. CASE failures' = failures + 1
    BY <1>5, <1>16, <2>1, <2>4 DEF AddHistory
  <2> QED
    BY <1>16, <2>3, <2>4 DEF AddHistory, Fails
<1>17. CASE CommitHistory
  <2>1. store # Waits /\ Losing = 0
    BY <1>17 DEF CommitHistory, Waits, Losing
  <2>2. store.due => session # "none" /\ added = {store.item}
    BY <1>17 DEF IInv, DueInv, CommitHistory
  <2>3. CASE Commits /\ StoreTo("publish")
    <3>1. store'.at = "publish" /\ failures' = failures
      BY <2>1, <2>3, <1>1, StoreMoves DEF Commits
    <3>2. Losing' = 0
      BY <3>1 DEF Losing
    <3> QED
      BY <1>4, <1>17, <3>1, <3>2 DEF CommitHistory
  <2>4. CASE ~ CanCommit /\ CommitRaises /\ StoreTo("exit")
    <3>1. /\ store'.item = store.item /\ (store'.due => store.due) /\ failures' = failures
          /\ devices' = devices
      BY <1>1, <1>17, <2>1, <2>4, StoreMoves DEF CommitRaises, CommitHistory, database
    <3>2. store.due => store.item.sensor \notin devices
      BY <2>2, <2>4 DEF CanCommit
    <3>3. Losing' = 0
      BY <3>1, <3>2 DEF Losing
    <3> QED
      BY <1>4, <1>17, <3>1, <3>3 DEF CommitHistory
  <2>5. CASE failures' = failures + 1
    BY <1>5, <1>17, <2>1, <2>5 DEF CommitHistory
  <2> QED
    BY <1>17, <2>3, <2>4, <2>5 DEF CommitHistory, CommitRaises, Fails
<1>18. CASE Publish
  <2>1. store # Waits /\ Losing = 0
    BY <1>18 DEF Publish, Waits, Losing
  <2>2. store.due => store.item \in rows \/ store.item.sensor \notin devices
    BY <1>18 DEF IInv, DueInv, Publish
  <2>3. /\ store'.item = store.item /\ (store'.due => store.due)
        /\ devices' = devices /\ rows' = rows /\ lost' = lost
    BY <1>1, <1>18, <2>1, StoreMoves DEF Publish, database
  <2>4. Losing' = 0
    BY <2>2, <2>3 DEF Losing
  <2> QED
    BY <1>4, <1>18, <2>3, <2>4 DEF Publish, Fails
<1>19. CASE StoreCommit \/ StoreRollback
  <2>1. store # Waits /\ store.at \in {"exit", "rollback"}
    BY <1>19 DEF StoreCommit, StoreRollback, Waits
  <2>2. /\ store'.item = store.item /\ (store'.due => store.due)
        /\ devices' = devices /\ rows \subseteq rows' /\ lost' = lost
        /\ failures' = failures \/ failures' = failures + 1
    BY <1>1, <1>19, <2>1, StoreMoves
    DEF StoreCommit, StoreRollback, Commits, CommitRaises, Fails, database
  <2>3. Losing' = 0 \/ Losing' = Losing
    BY <2>1, <2>2 DEF Losing
  <2> QED
    BY <1>4, <2>2, <2>3
<1>20. CASE StoreClose
  <2>1. store # Waits /\ store.at = "close" /\ UNCHANGED <<devices, rows, failures>>
    BY <1>20 DEF StoreClose, Waits, database
  <2>2. CASE StoreTo("reset") /\ lost' = lost
    <3>1. store'.item = store.item /\ (store'.due => store.due)
      BY <1>1, <2>1, <2>2, StoreMoves
    <3>2. Losing' = 0 \/ Losing' = Losing
      BY <2>1, <3>1 DEF Losing
    <3> QED
      BY <1>4, <2>1, <2>2, <3>2
  <2> QED
    BY <1>6, <1>20, <2>1, <2>2 DEF StoreClose
<1>21. CASE StoreReset
  <2>1. store # Waits
    BY <1>21 DEF StoreReset, Waits
  <2> QED
    BY <1>6, <1>21, <2>1 DEF StoreReset
<1>22. CASE Reload
  <2>1. /\ store' = store /\ devices' = devices /\ rows \subseteq rows' /\ lost' = lost
        /\ failures' = failures \/ failures' = failures + 1
    BY <1>22 DEF Reload, LoadXplStat, ClearTables, OpenReload, LoadSensors, LoadDevices, ReloadCommit,
       ReloadRollback, ReloadClose, ReloadReset, ReloadCommands, Commits, CommitRaises, Fails, database
  <2>2. Losing' = 0 \/ Losing' = Losing
    BY <2>1 DEF Losing
  <2> QED
    BY <1>4, <2>1, <2>2
<1> QED
  BY <1>9, <1>10, <1>11, <1>12, <1>13, <1>14, <1>15, <1>16, <1>17, <1>18, <1>19, <1>20, <1>21, <1>22
  DEF Next, Environment, StoreThread

\* Every step keeps the account of the sessions that are abandoned.
LEMMA SessionInvStep == IInv /\ [Next]_vars => SessionInv'
<1> SUFFICES ASSUME IInv, [Next]_vars
             PROVE  SessionInv'
  OBVIOUS
<1>1. /\ TypeOK /\ SessionInv /\ abandoned \in Nat
      /\ changes \in Nat /\ updates \in Nat /\ failures \in Nat
  BY DEF IInv, TypeOK
<1>2. /\ Stray \in Nat /\ Stray' \in Nat /\ StepsLeft \in Nat /\ StepsLeft' \in Nat
      /\ Stray \in {0, 1} /\ Stray' \in {0, 1}
      /\ StepsLeft \in 0..6 /\ StepsLeft' \in 0..6
  BY DEF Stray, StepsLeft
<1>3. ASSUME UNCHANGED <<changes, updates>>, abandoned' \in Nat,
             abandoned' + Stray' + StepsLeft' <= abandoned + Stray + StepsLeft
      PROVE  SessionInv'
  <2>1. changes \in Nat /\ updates \in Nat /\ abandoned \in Nat /\ abandoned' \in Nat
    BY <1>1, <1>3
  <2>2. Stray \in Nat /\ StepsLeft \in Nat /\ Stray' \in Nat /\ StepsLeft' \in Nat
    BY <1>2
  <2>3. abandoned' + Stray' + StepsLeft' <= 6 * (changes - updates)
    <3>1. abandoned + Stray + StepsLeft <= 6 * (changes - updates)
      BY <1>1 DEF SessionInv
    <3>2. abandoned' + Stray' + StepsLeft' <= abandoned + Stray + StepsLeft
      BY <1>3
    <3>3. /\ abandoned + Stray + StepsLeft \in Int /\ abandoned' + Stray' + StepsLeft' \in Int
          /\ 6 * (changes - updates) \in Int
      BY ONLY <2>1, <2>2
    <3> QED
      BY ONLY <3>1, <3>2, <3>3, SameAccount
  <2> QED
    BY <1>3, <2>3 DEF SessionInv
<1>4. ASSUME UNCHANGED <<changes, updates, scope, mq>>, Stray' <= Stray
      PROVE  SessionInv'
  <2>1. abandoned' = abandoned /\ StepsLeft' = StepsLeft
    BY <1>4 DEF scope, StepsLeft
  <2> QED
    <3>1. StepsLeft' <= StepsLeft
      BY <1>2, <2>1
    <3>2. abandoned' + Stray' + StepsLeft' <= abandoned + Stray + StepsLeft
      BY <1>1, <1>2, <1>4, <2>1, <3>1, LessStray
    <3> QED
      BY <1>1, <1>3, <1>4, <2>1, <3>2
<1>5. ASSUME UNCHANGED <<changes, updates, scope, mq, store>>
      PROVE  SessionInv'
  BY <1>2, <1>4, <1>5 DEF scope, Stray
<1>6. ASSUME NEW D, NEW R, Change(D, R) PROVE SessionInv'
  <2>1. changes' = changes + 1 /\ updates' = updates + 1
    BY <1>6 DEF Change
  <2>2. abandoned' = abandoned /\ StepsLeft' = StepsLeft /\ Stray' = Stray
    BY <1>6 DEF Change, scope, StepsLeft, Stray
  <2> QED
    BY <1>1, <1>2, <2>1, <2>2 DEF SessionInv
<1>7. CASE Environment \/ SensorThread \/ UNCHANGED vars
  BY <1>5, <1>6, <1>7 DEF Environment, UpdateDevice, CreateDevice, DeleteDevice, HandleMqSensor,
     XplCallback, SensorThread, FindStoreParam, database, queues, vars
<1>8. CASE TakeUpdate
  <2>1. /\ changes' = changes /\ updates' = updates - 1 /\ abandoned' = abandoned /\ updates > 0
        /\ mq = Idle /\ mq' = [Idle EXCEPT !.at = "xpl_stat"]
    BY <1>8 DEF TakeUpdate, MqTo, database, scope
  <2>2. StepsLeft = 0 /\ StepsLeft' <= 6
    BY <1>2, <2>1 DEF StepsLeft, Idle
  <2>3. store'.at = store.at /\ session' = session
    BY <1>1, <1>8, NotDue DEF TakeUpdate, scope
  <2>4. Stray' = Stray
    BY <2>3 DEF Stray
  <2> QED
    BY <1>1, <1>2, <2>1, <2>2, <2>4 DEF SessionInv
<1>9. ASSUME Replace(IF store.at = "get" THEN "open" ELSE "none"), store.at \in {"get", "reset"},
             UNCHANGED <<changes, updates, mq>>, store'.at \in {"get", "lookup"},
             store.at = "get" => store'.at = "lookup"
      PROVE  SessionInv'
  <2>1. abandoned' + Stray' = abandoned + Stray /\ StepsLeft' = StepsLeft /\ abandoned' \in Nat
    BY <1>1, <1>9 DEF Replace, Stray, StepsLeft
  <2> QED
    BY <1>1, <1>2, <1>3, <1>9, <2>1, MovedStray
<1>10. CASE TakeItem
  BY <1>9, <1>10 DEF TakeItem, Open, database
<1>11. CASE StoreReset
  BY <1>9, <1>11 DEF StoreReset, Reset, StoreDone, Waits, database, queues
<1>12. CASE Lookup \/ AddHistory \/ CommitHistory \/ Publish \/ StoreCommit \/ StoreRollback
  <2>1. store # Waits
    BY <1>12 DEF Lookup, AddHistory, CommitHistory, Publish, StoreCommit, StoreRollback, Waits
  <2>2. store'.at \notin {"get", "reset"}
    BY <1>1, <1>12, <2>1, StoreMoves
    DEF Lookup, AddHistory, CommitHistory, Publish, StoreCommit, StoreRollback
  <2>3. Stray' = 0
    BY <2>2 DEF Stray
  <2>4. UNCHANGED <<changes, updates, mq, abandoned>>
    BY <1>12 DEF Lookup, AddHistory, CommitHistory, Publish, StoreCommit, StoreRollback, Commits,
       CommitRaises, Rollback, Use, database, queues, scope
  <2>5. StepsLeft' = StepsLeft
    BY <2>4 DEF StepsLeft
  <2> QED
    BY <1>1, <1>2, <1>3, <2>3, <2>4, <2>5
<1>13. CASE StoreClose
  <2>1. session' # "open" /\ UNCHANGED <<changes, updates, mq, abandoned>>
    BY <1>13 DEF StoreClose, Close, database, queues, scope
  <2>2. Stray' = 0 /\ StepsLeft' = StepsLeft
    BY <2>1 DEF Stray, StepsLeft
  <2> QED
    BY <1>1, <1>2, <1>3, <2>1, <2>2
<1>14. CASE Reload
  <2>1. UNCHANGED <<changes, updates, store>> /\ abandoned' \in Nat
    BY <1>1, <1>14 DEF Reload, LoadXplStat, ClearTables, OpenReload, LoadSensors, LoadDevices, ReloadCommit,
       ReloadRollback, ReloadClose, ReloadReset, ReloadCommands, Commits, CommitRaises, Open, Reset,
       Close, Rollback, Replace, Use, database, queues, scope
  <2>2. CASE UNCHANGED <<session, abandoned>> /\ StepsLeft' <= StepsLeft
    <3>1. Stray' = Stray
      BY <2>1, <2>2 DEF Stray
    <3>2. Stray' <= Stray /\ StepsLeft' <= StepsLeft /\ abandoned' = abandoned
      BY <1>2, <2>2, <3>1
    <3>3. abandoned' + Stray' + StepsLeft' <= abandoned + Stray + StepsLeft
      BY <1>1, <1>2, <3>2, LessStray
    <3> QED
      BY <1>3, <2>1, <3>3
  <2>3. CASE abandoned' = abandoned /\ StepsLeft' + 1 <= StepsLeft
    <3>1. Stray' <= 1
      BY <1>2
    <3>2. abandoned' + Stray' + StepsLeft' <= abandoned + Stray + StepsLeft
      BY <1>1, <1>2, <2>1, <2>3, <3>1, StepPays
    <3> QED
      BY <1>3, <2>1, <3>2
  <2>4. CASE LoadXplStat \/ ClearTables \/ ReloadCommands
    <3>1. UNCHANGED <<session, abandoned>>
      BY <2>4 DEF LoadXplStat, ClearTables, ReloadCommands, scope
    <3>2. StepsLeft' <= StepsLeft
      BY <1>1, <2>4 DEF LoadXplStat, ClearTables, ReloadCommands, StepsLeft, MqTo, Idle, TypeOK
    <3> QED
      BY <2>2, <3>1, <3>2
  <2>5. CASE LoadSensors \/ LoadDevices \/ ReloadCommit \/ ReloadRollback
    <3>1. abandoned' = abandoned
      BY <2>5 DEF LoadSensors, LoadDevices, ReloadCommit, ReloadRollback, Commits, CommitRaises, Rollback, Use
    <3>2. StepsLeft' + 1 <= StepsLeft
      BY <1>1, <2>5 DEF LoadSensors, LoadDevices, ReloadCommit, ReloadRollback, StepsLeft, MqTo, MqRaises, TypeOK
    <3> QED
      BY <2>3, <3>1, <3>2
  <2>6. CASE ReloadClose
    <3>1. session' # "open" /\ abandoned' = abandoned
      BY <2>6 DEF ReloadClose, Close, scope
    <3>2. Stray' = 0
      BY <3>1 DEF Stray
    <3>3. StepsLeft' <= StepsLeft
      BY <1>1, <2>6 DEF ReloadClose, StepsLeft, MqTo, Idle, TypeOK
    <3>4. Stray' <= Stray /\ abandoned' = abandoned
      BY <1>2, <3>1, <3>2
    <3>5. abandoned' + Stray' + StepsLeft' <= abandoned + Stray + StepsLeft
      BY <1>1, <1>2, <3>3, <3>4, LessStray
    <3> QED
      BY <1>3, <2>1, <3>5
  <2>7. CASE OpenReload \/ ReloadReset
    <3>1. StepsLeft' + 1 <= StepsLeft
      BY <1>1, <2>7 DEF OpenReload, ReloadReset, StepsLeft, MqTo, Idle, TypeOK
    <3>2. abandoned' + Stray' <= abandoned + Stray + 1
      BY <1>1, <2>1, <2>7 DEF OpenReload, ReloadReset, Open, Reset, Replace, Stray
    <3> QED
      BY <1>1, <1>2, <1>3, <2>1, <3>1, <3>2, StepPays
  <2> QED
    BY <1>14, <2>4, <2>5, <2>6, <2>7 DEF Reload
<1> QED
  BY <1>7, <1>8, <1>10, <1>11, <1>12, <1>13, <1>14 DEF Next, StoreThread

-----------------------------------------------------------------------------
\* The inductive invariant.
LEMMA Invariance == Spec => []IInv
<1>1. IInv /\ [Next]_vars => IInv'
  BY TypeOKStep, ReloadInvStep, QuietInvStep, PendingInvStep, SeenInvStep, DueInvStep, LostInvStep,
     SessionInvStep DEF IInv
<1> QED
  BY <1>1, InitInv, PTL DEF Spec

\* The threads, the tables and the queues keep their types.
THEOREM TypeCorrect == Spec => []TypeOK
<1>1. IInv => TypeOK
  BY DEF IInv
<1> QED
  BY <1>1, Invariance, PTL

\* However the two threads overtake each other in session_scope, and whatever raises:
\* the sessions that are replaced and that nobody closes are at most six for each
\* reload, and the values that are stored cost none.
THEOREM SessionsStayFew == Spec => []SessionsAreFew
<1>1. IInv => SessionsAreFew
  <2> SUFFICES ASSUME IInv PROVE SessionsAreFew
    OBVIOUS
  <2>1. /\ abandoned \in Nat /\ changes \in Nat /\ updates \in Nat
        /\ abandoned + Stray + StepsLeft <= 6 * (changes - updates)
    BY DEF IInv, TypeOK, SessionInv
  <2>2. Stray \in Nat /\ StepsLeft \in Nat
    BY DEF Stray, StepsLeft
  <2> QED
    BY <2>1, <2>2 DEF SessionsAreFew
<1> QED
  BY <1>1, Invariance, PTL

\* A reload that raised nothing has loaded every table with the devices of the
\* database, whatever values are stored meanwhile.
THEOREM GoodReloadsAreComplete == Spec => []GoodReloadIsComplete
<1>1. IInv => GoodReloadIsComplete
  BY DEF IInv, ReloadInv
<1> QED
  BY <1>1, Invariance, PTL

\* As long as no device changes what is published is in the history.
THEOREM PublishedStays == Spec => []PublishedIsStored
<1>1. IInv => PublishedIsStored
  BY DEF IInv, QuietInv, PublishedIsStored
<1> QED
  BY <1>1, Invariance, PTL

\* Each value that is lost though nothing was wrong with it and no reload ran has
\* cost a failure of the database of its own, whatever the reloads before it did.
THEOREM FailuresPayForLosses == Spec => []FailureLosesOne
<1>1. IInv => FailureLosesOne
  <2> SUFFICES ASSUME IInv PROVE Cardinality(lost) <= failures
    BY DEF FailureLosesOne
  <2>1. IsFiniteSet(lost) /\ Cardinality(lost) + Losing <= failures /\ failures \in Nat
    BY DEF IInv, LostInv, TypeOK
  <2>2. Cardinality(lost) \in Nat /\ Losing \in Nat
    BY <2>1, FS_CardinalityType DEF Losing
  <2> QED
    BY <2>1, <2>2
<1> QED
  BY <1>1, Invariance, PTL

\* A value gets into the history while the store thread has it, and never by a later
\* commit, whatever the reloads do to the session.
THEOREM LateValuesAreRefused == Spec => NothingIsStoredLate
<1>1. IInv /\ [Next]_vars => rows' \ rows \subseteq {store.item}
  <2> SUFFICES ASSUME IInv, [Next]_vars
               PROVE  rows' \ rows \subseteq {store.item}
    OBVIOUS
  <2>1. rows' \subseteq rows \cup added
    BY DEF Next, Environment, UpdateDevice, CreateDevice, DeleteDevice, HandleMqSensor, XplCallback, Change,
       SensorThread, FindStoreParam, StoreThread, TakeItem, Lookup, AddHistory, CommitHistory, Publish,
       StoreCommit, StoreRollback, StoreClose, StoreReset, Commits, CommitRaises, TakeUpdate, Reload,
       LoadXplStat, ClearTables, OpenReload, LoadSensors, LoadDevices, ReloadCommit, ReloadRollback,
       ReloadClose, ReloadReset, ReloadCommands, vars
  <2>2. added \subseteq {store.item}
    BY DEF IInv, PendingInv
  <2> QED
    BY <2>1, <2>2
<1> QED
  BY <1>1, Invariance, PTL DEF Spec, NothingIsStoredLate

=============================================================================
