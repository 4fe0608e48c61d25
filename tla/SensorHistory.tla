---------------------------- MODULE SensorHistory ----------------------------
(***************************************************************************)
(* The history of one sensor: DbHelper.add_sensor_history                  *)
(* (common/database.py), called by the sensor store thread of the xPL      *)
(* gateway with the settings of the sensor that it has loaded.             *)
(*                                                                         *)
(* The date of a value is the second at which its message was received, or *)
(* what the message says (atTimestamp), so that values may have the same   *)
(* date or come with an older one than a value before.  Of rows with the   *)
(* same date the database takes any first.  Values are numbers, equal ones *)
(* are written alike, and no formula is set.  (The 0 that an incremental   *)
(* sensor begins with is written otherwise than the 0.0 of a difference,   *)
(* so that the code may keep one row more than Duplicated does here.)      *)
(***************************************************************************)
EXTENDS Integers, Sequences, FiniteSets

CONSTANTS
  Values,    \* values that may be received
  Dates,     \* dates that they may have
  Lags,      \* how much later than its date a value may be stored
  Settings,  \* settings that a user may give to the sensor
  Tolerance, \* what no history_round exceeds
  MaxItems,  \* bound: values received
  MaxLate,   \* bound: values whose date is not newer than all before
  MaxUpdates, \* bound: changes of the settings
  None       \* NULL in the database, and no row

Row == [n : Nat \ {0}, date : Nat, value : Int, orig : Int]

ASSUME HistoryAssumption ==
  /\ Values \subseteq Int
  /\ Dates \subseteq Nat
  /\ Lags \subseteq Int
  /\ Settings \subseteq [incremental : BOOLEAN, round : Nat, store : BOOLEAN,
                         duplicate : BOOLEAN, max : Nat, expire : Nat]
  /\ Settings # {}
  /\ Tolerance \in Nat \ {0}
  /\ \A s \in Settings : s.round <= Tolerance
  /\ MaxItems \in Nat /\ MaxLate \in Nat /\ MaxUpdates \in Nat
  /\ None \notin Int /\ None \notin Row

VARIABLES
  rows,       \* rows of sensor_history
  sensor,     \* settings the store thread has loaded
  loaded,     \* value_min and value_max it has loaded with them
  value_min, value_max, \* columns of the sensor in the database
  used,       \* settings with which a value was received
  received,   \* values received, with their dates
  values,     \* values after the incremental step, which should be kept
  updates,    \* changes of the settings
  late,       \* values whose date was not newer than all before
  clock       \* time at which the last value was stored

vars == <<rows, sensor, loaded, value_min, value_max, used, received, values, updates, late, clock>>

-----------------------------------------------------------------------------
Abs(n) == IF n < 0 THEN -n ELSE n

\* Rows that ORDER BY date DESC may put first.
Newest(R) == IF R = {} THEN {None} ELSE {r \in R : \A q \in R : q.date <= r.date}

\* Mutant: the difference with what was stored, not with what was received.
IncrementStored(last, s, v) ==
  IF ~ s.incremental THEN v ELSE IF last = None THEN 0 ELSE v - last.value

\* value after the incremental step.
Increment(last, s, v) ==
  IF ~ s.incremental THEN v ELSE IF last = None THEN 0 ELSE v - last.orig

Near(a, b, s) == Abs(a - b) < s.round

\* Rows that history_round deletes: the last one, when it, the one before and
\* the new value are near to each other.
Rounded(last, prev, s, x) ==
  IF prev # None /\ Near(prev.value, last.value, s)
     /\ Near(x, prev.value, s) /\ Near(x, last.value, s)
  THEN {last} ELSE {}

\* The last two rows have the value.
Repeats(last, prev, x) == prev # None /\ prev.value = x /\ last.value = x

\* Mutant: the first of the three rows is deleted.
DuplicatedFirst(last, prev, s, x) ==
  IF s.store /\ ~ s.duplicate /\ Repeats(last, prev, x) THEN {prev} ELSE {}

\* Mutant: the flag is read the wrong way round.
DuplicatedKept(last, prev, s, x) ==
  IF s.store /\ s.duplicate /\ Repeats(last, prev, x) THEN {last} ELSE {}

\* Rows that history_duplicate deletes: vals[0], when the last two rows have
\* the new value.  The list was reversed when history_round is set.
Duplicated(last, prev, s, x) ==
  IF s.store /\ ~ s.duplicate /\ Repeats(last, prev, x)
  THEN {IF s.round > 0 THEN prev ELSE last} ELSE {}

\* The rows K are the first ones of ORDER BY date DESC LIMIT n.
First(K, R, n) == Cardinality(K) = n /\ \A k \in K, q \in R \ K : q.date <= k.date

\* Mutant: one row too many is kept.
KeptMore(R, s) ==
  IF s.max = 0 \/ Cardinality(R) <= s.max + 1 THEN {R}
  ELSE {K \in SUBSET R : First(K, R, s.max + 1)}

\* Mutant: ORDER BY date without DESC.
KeptOldest(R, s) ==
  IF s.max = 0 \/ Cardinality(R) <= s.max THEN {R}
  ELSE {K \in SUBSET R : First(R \ K, R, Cardinality(R) - s.max)}

\* What history_max may leave.
Kept(R, s) ==
  IF s.max = 0 \/ Cardinality(R) <= s.max THEN {R} ELSE {K \in SUBSET R : First(K, R, s.max)}

\* history_expire.
NotExpired(R, s, now) == {r \in R : s.expire > 0 => r.date > now - s.expire}

\* Mutant: the row has no original value of its own.
InsertValue(R, s, date, x, v) ==
  IF s.store THEN R \cup {[n |-> Len(received) + 1, date |-> date, value |-> x, orig |-> None]}
  ELSE R

\* SensorHistory(...): the row that is inserted.
Insert(R, s, date, x, v) ==
  IF s.store THEN R \cup {[n |-> Len(received) + 1, date |-> date, value |-> x, orig |-> v]} ELSE R

\* Comparisons with None as Python 2 makes them.
Lower(old, x) == IF old # None /\ old > x THEN x ELSE old
Upper(old, x) == IF old = None \/ old < x THEN x ELSE old

Init ==
  /\ rows = {}
  /\ sensor \in Settings
  /\ loaded = [min |-> None, max |-> None]
  /\ value_min = None
  /\ value_max = None
  /\ used = {}
  /\ received = <<>>
  /\ values = <<>>
  /\ updates = 0
  /\ late = 0
  /\ clock = 0

\* The date of the next value is not newer than all before.
Late(date) == \E k \in 1..Len(received) : date <= received[k].date

\* add_sensor_history, at the time now.
Add(v, date, now) ==
  /\ Len(received) < MaxItems
  /\ late' = IF Late(date) THEN late + 1 ELSE late
  /\ late' <= MaxLate
  /\ clock' = now
  /\ received' = Append(received, [date |-> date, value |-> v])
  /\ used' = used \cup {sensor}
  /\ \E last \in Newest(rows) : \E prev \in Newest(rows \ {last}) :
       LET x == Increment(last, sensor, v)
           left == rows \ (Rounded(last, prev, sensor, x) \cup Duplicated(last, prev, sensor, x))
       IN /\ \E kept \in Kept(Insert(left, sensor, date, x, v), sensor) :
               rows' = NotExpired(kept, sensor, now)
          /\ value_min' = Lower(loaded.min, x)
          /\ value_max' = Upper(loaded.max, x)
          /\ values' = Append(values, x)
  /\ UNCHANGED <<sensor, loaded, updates>>

\* A device.update: the settings and the columns of the sensor are loaded again.
DeviceUpdate(s) ==
  /\ updates < MaxUpdates
  /\ updates' = updates + 1
  /\ sensor' = s
  /\ loaded' = [min |-> value_min, max |-> value_max]
  /\ UNCHANGED <<rows, value_min, value_max, used, received, values, late, clock>>

Next ==
  \/ \E v \in Values, date \in Dates, lag \in Lags : Add(v, date, date + lag)
  \/ \E s \in Settings : DeviceUpdate(s)

Spec == Init /\ [][Next]_vars

-----------------------------------------------------------------------------
(* Properties.                                                             *)

\* The table, the settings and the lists have their types.
TypeOK ==
  /\ rows \subseteq Row
  /\ sensor \in Settings
  /\ loaded \in [min : Int \cup {None}, max : Int \cup {None}]
  /\ value_min \in Int \cup {None}
  /\ value_max \in Int \cup {None}
  /\ used \subseteq Settings
  /\ received \in Seq([date : Nat, value : Int])
  /\ values \in Seq(Int)
  /\ Len(values) = Len(received)
  /\ updates \in 0..MaxUpdates
  /\ late \in 0..MaxLate
  /\ clock \in Int

\* The row that tells the value of the sensor at a date: the last one up to it.
Tells(r, d) == r.date <= d /\ \A q \in rows : q.date <= d => q.date <= r.date

\* The settings for which nothing but history_round or history_duplicate, and
\* not both, deletes rows.
Lossless(s) == s.store /\ s.max = 0 /\ s.expire = 0 /\ (s.duplicate \/ s.round = 0)

\* As long as values come in the order of their dates, and no two in the same second:
\* whatever is deleted to save room, the history still tells the value of the sensor
\* at every date, within history_round (add_sensor_history without history_max and
\* history_expire, and never with history_round and history_duplicate at once).
HistoryIsClose ==
  late = 0 /\ (\A s \in used : Lossless(s))
    => \A d \in 1..Len(values) :
         \E r \in rows : Tells(r, received[d].date) /\ Abs(r.value - values[d]) < Tolerance

\* The last value is newer than every value before, and than history_expire.
LastIsNew ==
  LET n == Len(received)
  IN /\ n > 0
     /\ \A k \in 1..n : received[k].date >= received[n].date => k = n
     /\ \A s \in used : s.expire > 0 => received[n].date > clock - s.expire

\* A value that is newer than all before and not yet expired is in the history, as it
\* was received and as it was stored, whatever the settings delete and however the
\* values before it were dated (add_sensor_history).
LastIsKept ==
  LastIsNew /\ (\A s \in used : s.store)
    => \E r \in rows : /\ r.n = Len(values)
                      /\ r.value = values[Len(values)]
                      /\ r.orig = received[Len(received)].value

\* history_max bounds the history after every value, also when it was changed
\* to a smaller number, and whatever the dates (the clause after "handle the history
\* size in number of items").
HistoryIsBounded ==
  [][received' # received /\ sensor.max > 0 => Cardinality(rows') <= sensor.max]_vars

\* Two rows that follow each other.
Follow(p, r) == p.date < r.date /\ ~ \E q \in rows : p.date < q.date /\ q.date < r.date

\* When it is not incremental, without history_duplicate and history_round, and as long
\* as values come in the order of their dates, a value is kept at most twice in a row,
\* for its first and its last date (the clause on history_duplicate).
NoThreeEqual ==
  late = 0 /\ (\A s \in used : ~ s.incremental /\ ~ s.duplicate /\ s.round = 0)
    => \A p, q, r \in rows :
         Follow(p, q) /\ Follow(q, r) => ~ (p.value = q.value /\ q.value = r.value)

\* As long as values come in the order of their dates an incremental sensor with a
\* history that does not expire stores the difference of the last two values received,
\* although rows are rounded, deduplicated and cut (sensors.txt, "Incremental
\* explanation").
IncrementIsDifference ==
  late = 0 /\ (\A s \in used : s.incremental /\ s.store /\ s.expire = 0)
    => \A d \in 2..Len(values) : values[d] = received[d].value - received[d - 1].value

=============================================================================
