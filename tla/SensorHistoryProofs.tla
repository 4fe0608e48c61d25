------------------------- MODULE SensorHistoryProofs -------------------------
(***************************************************************************)
(* What the history keeps, for any values, dates and settings.             *)
(*                                                                         *)
(* The properties are inductive together, with two more facts: each row    *)
(* has the date of the message it came with, and as long as no date was    *)
(* late the messages are in the order of their dates.  The newest row is   *)
(* then the one of the last value, the only one that a new value can       *)
(* delete, and the row before tells the date of the deleted one.           *)
(***************************************************************************)
EXTENDS SensorHistory, FiniteSetTheorems, TLAPS

\* Each row is the one of a message.
RowsInv ==
  /\ IsFiniteSet(rows)
  /\ \A r \in rows : r.n \in 1..Len(values) /\ r.date = received[r.n].date
  /\ \A q, r \in rows : q.n = r.n => q = r

\* As long as no date was late the messages are in the order of their dates.
OrderInv ==
  late = 0 => \A i, j \in 1..Len(received) : i < j => received[i].date < received[j].date

IInv ==
  /\ TypeOK /\ RowsInv /\ OrderInv
  /\ LastIsKept /\ HistoryIsClose /\ IncrementIsDifference /\ NoThreeEqual

\* The value to store, the rows that it deletes, its row, and the table before it is cut.
X(v, last) == Increment(last, sensor, v)
Gone(v, last, prev) ==
  Rounded(last, prev, sensor, X(v, last)) \cup Duplicated(last, prev, sensor, X(v, last))
NewRow(v, date, last) ==
  [n |-> Len(received) + 1, date |-> date, value |-> X(v, last), orig |-> v]
All(v, date, last, prev) ==
  IF sensor.store THEN (rows \ Gone(v, last, prev)) \cup {NewRow(v, date, last)}
  ELSE rows \ Gone(v, last, prev)

\* What add_sensor_history does once the database has chosen the rows.
Picked(v, date, now, last, prev, kept) ==
  /\ last \in Newest(rows) /\ prev \in Newest(rows \ {last})
  /\ kept \in Kept(All(v, date, last, prev), sensor)
  /\ rows' = NotExpired(kept, sensor, now)
  /\ value_min' = Lower(loaded.min, X(v, last))
  /\ value_max' = Upper(loaded.max, X(v, last))
  /\ values' = Append(values, X(v, last))

-----------------------------------------------------------------------------
\* Arithmetic.
LEMMA NotLess == \A a, b \in Nat : (~ (a <= b) <=> b < a) /\ (a < b => ~ (b <= a) /\ a # b)
OBVIOUS

LEMMA OneMore ==
  ASSUME NEW n \in Nat, NEW i \in 1..(n + 1), NEW j \in 1..(n + 1), i < j
  PROVE  i \in 1..n /\ (j = n + 1 \/ j \in 1..n)
OBVIOUS

LEMMA LastOne ==
  ASSUME NEW n \in Nat, NEW d \in 1..n, ~ (d < n)
  PROVE  d = n
OBVIOUS

\* An element of a sequence.
LEMMA ElementType ==
  ASSUME NEW S, NEW s \in Seq(S), NEW k \in 1..Len(s)
  PROVE  s[k] \in S
OBVIOUS

\* A message has a date.
LEMMA MessageType ==
  ASSUME NEW s \in Seq([date : Nat, value : Int]), NEW k \in 1..Len(s)
  PROVE  s[k].date \in Nat /\ s[k].value \in Int
<1>1. s[k] \in [date : Nat, value : Int]
  BY ElementType
<1> QED
  BY <1>1

\* The choices of the database.
LEMMA AddPicks ==
  ASSUME NEW v, NEW date, NEW now, Add(v, date, now)
  PROVE  \E last, prev, kept : Picked(v, date, now, last, prev, kept)
BY Zenon DEF Add, Picked, X, Gone, NewRow, All, Insert

\* A newest row, if there is one.
LEMMA NewestIs ==
  ASSUME NEW R, NEW r \in Newest(R)
  PROVE  /\ R = {} => r = None
         /\ R # {} => r \in R /\ \A q \in R : q.date <= r.date
BY DEF Newest

\* What follows for the messages and the table from the choices of the database.
AddFactsOf(v, date, now, last, prev, kept) ==
  /\ v \in Int /\ date \in Nat /\ X(v, last) \in Int
  /\ Len(received) = Len(values) /\ Len(values) \in Nat /\ Len(values) + 1 \in Nat
  /\ sensor \in Settings /\ used' = used \cup {sensor} /\ sensor' = sensor /\ clock' = now
  /\ Len(received') = Len(values) + 1 /\ Len(values') = Len(values) + 1
  /\ received'[Len(values) + 1] = [date |-> date, value |-> v]
  /\ values'[Len(values) + 1] = X(v, last)
  /\ \A d \in 1..Len(values) : received'[d] = received[d] /\ values'[d] = values[d]
  /\ rows' \subseteq kept /\ kept \subseteq All(v, date, last, prev)
  /\ \A z \in All(v, date, last, prev) :
       \/ z = NewRow(v, date, last) /\ sensor.store
       \/ z \in rows /\ z \notin Gone(v, last, prev)
  /\ rows # {} => last \in rows /\ \A q \in rows : q.date <= last.date
  /\ rows = {} => last = None /\ prev = None
  /\ prev # None => /\ prev \in rows \ {last} /\ last \in rows
                    /\ \A q \in rows \ {last} : q.date <= prev.date
  /\ rows \ {last} # {} => prev # None
  /\ late' = 0 => late = 0 /\ \A k \in 1..Len(values) : received[k].date < date

LEMMA AddFacts ==
  ASSUME IInv, HistoryAssumption, NEW v \in Values, NEW date \in Dates, NEW now \in Int,
         Add(v, date, now), NEW last, NEW prev, NEW kept,
         Picked(v, date, now, last, prev, kept)
  PROVE  AddFactsOf(v, date, now, last, prev, kept)
<1>1. /\ v \in Int /\ date \in Nat /\ Len(received) = Len(values) /\ Len(values) \in Nat
      /\ sensor \in Settings /\ rows \subseteq Row /\ None \notin Row
      /\ received \in Seq([date : Nat, value : Int]) /\ values \in Seq(Int)
  BY DEF IInv, TypeOK, HistoryAssumption
<1>2. /\ rows # {} => last \in rows /\ \A q \in rows : q.date <= last.date
      /\ rows = {} => last = None
      /\ rows \ {last} # {} => prev \in rows \ {last} /\ \A q \in rows \ {last} : q.date <= prev.date
      /\ rows \ {last} = {} => prev = None
  <2>1. last \in Newest(rows) /\ prev \in Newest(rows \ {last})
    BY DEF Picked
  <2> QED
    BY <2>1, NewestIs
<1>3. X(v, last) \in Int
  <2>1. CASE rows = {}
    BY <1>1, <1>2, <2>1 DEF X, Increment
  <2>2. CASE rows # {}
    <3>1. last.orig \in Int
      BY <1>1, <1>2, <2>2 DEF Row
    <3> QED
      BY <1>1, <3>1 DEF X, Increment
  <2> QED
    BY <2>1, <2>2
<1>4. /\ Len(received') = Len(values) + 1 /\ Len(values') = Len(values) + 1
      /\ received'[Len(values) + 1] = [date |-> date, value |-> v]
      /\ values'[Len(values) + 1] = X(v, last)
      /\ \A d \in 1..Len(values) : received'[d] = received[d] /\ values'[d] = values[d]
  <2>1. received' = Append(received, [date |-> date, value |-> v]) /\ values' = Append(values, X(v, last))
    BY DEF Add, Picked
  <2>2. [date |-> date, value |-> v] \in [date : Nat, value : Int]
    BY <1>1
  <2> DEFINE m == [date |-> date, value |-> v]
             x == X(v, last)
  <2> HIDE DEF m, x
  <2>3. /\ received' = Append(received, m) /\ values' = Append(values, x)
        /\ m \in [date : Nat, value : Int] /\ x \in Int
    BY <1>3, <2>1, <2>2 DEF m, x
  <2>4. /\ Len(received') = Len(values) + 1 /\ Len(values') = Len(values) + 1
        /\ received'[Len(values) + 1] = m /\ values'[Len(values) + 1] = x
        /\ \A d \in 1..Len(values) : received'[d] = received[d] /\ values'[d] = values[d]
    BY ONLY <1>1, <2>3
  <2> QED
    BY <2>4 DEF m, x
<1>5. rows' \subseteq kept /\ kept \subseteq All(v, date, last, prev)
  BY DEF Picked, NotExpired, Kept
<1>6. \A z \in All(v, date, last, prev) :
        \/ z = NewRow(v, date, last) /\ sensor.store
        \/ z \in rows /\ z \notin Gone(v, last, prev)
  BY DEF All
<1>7. late' = 0 => late = 0 /\ \A k \in 1..Len(values) : received[k].date < date
  <2> SUFFICES ASSUME late' = 0
               PROVE  late = 0 /\ \A k \in 1..Len(values) : received[k].date < date
    OBVIOUS
  <2>1. late \in Nat
    BY HistoryAssumption DEF IInv, TypeOK
  <2>2. ~ Late(date) /\ late = 0
    BY <2>1 DEF Add
  <2>3. \A k \in 1..Len(values) : received[k].date \in Nat
    BY <1>1, MessageType
  <2>4. ASSUME NEW k \in 1..Len(values) PROVE received[k].date < date
    <3>1. ~ (date <= received[k].date)
      BY <1>1, <2>2 DEF Late
    <3> QED
      BY <1>1, <2>3, <3>1, NotLess
  <2> QED
    BY <2>2, <2>4
<1>8. used' = used \cup {sensor} /\ sensor' = sensor /\ clock' = now
  BY DEF Add
<1> QED
  BY <1>1, <1>2, <1>3, <1>4, <1>5, <1>6, <1>7, <1>8 DEF AddFactsOf

\* As long as no date was late the rows are in the order of their messages.
LEMMA RowOrder ==
  ASSUME IInv, late = 0, NEW q \in rows, NEW r \in rows
  PROVE  /\ q.date < r.date <=> q.n < r.n
         /\ q.date = r.date <=> q = r
<1>1. /\ q.n \in 1..Len(received) /\ r.n \in 1..Len(received)
      /\ q.date = received[q.n].date /\ r.date = received[r.n].date
      /\ q.n = r.n => q = r
      /\ q.date \in Nat /\ r.date \in Nat
  BY DEF IInv, RowsInv, TypeOK, Row
<1>2. /\ q.n < r.n => q.date < r.date
      /\ r.n < q.n => r.date < q.date
  BY <1>1 DEF IInv, OrderInv
<1>3. q.n \in Int /\ r.n \in Int
  BY <1>1
<1> QED
  BY <1>1, <1>2, <1>3

\* The newest row is then the row of the last value.
LEMMA LastRow ==
  ASSUME IInv, late = 0, Len(values) > 0, \A s \in used : s.store /\ s.expire = 0
  PROVE  \E l \in rows : /\ l.n = Len(values) /\ l.value = values[Len(values)]
                         /\ l.orig = received[Len(values)].value
                         /\ l.date = received[Len(values)].date
                         /\ \A r \in rows : l.date <= r.date => r = l
<1>1. Len(values) \in Nat /\ Len(values) > 0 /\ Len(received) = Len(values)
  BY DEF IInv, TypeOK
<1>2. LastIsNew
  <2>1. \A k \in 1..Len(received) : received[k].date >= received[Len(received)].date => k = Len(received)
    <3> SUFFICES ASSUME NEW k \in 1..Len(received), k # Len(received)
                 PROVE  ~ (received[k].date >= received[Len(received)].date)
      OBVIOUS
    <3>1. k < Len(received) /\ Len(received) \in 1..Len(received)
      BY <1>1
    <3>2. received[k].date \in Nat /\ received[Len(received)].date \in Nat
      BY <3>1, MessageType DEF IInv, TypeOK
    <3> QED
      BY <3>1, <3>2 DEF IInv, OrderInv
  <2> QED
    BY <1>1, <2>1 DEF LastIsNew
<1>3. PICK l \in rows : /\ l.n = Len(values) /\ l.value = values[Len(values)]
                        /\ l.orig = received[Len(received)].value
  BY <1>2 DEF IInv, LastIsKept
<1>4. \A r \in rows : l.date <= r.date => r = l
  <2> SUFFICES ASSUME NEW r \in rows, l.date <= r.date PROVE r = l
    OBVIOUS
  <2>1. r.n \in 1..Len(values) /\ r.date \in Nat /\ l.date \in Nat
    BY DEF IInv, RowsInv, TypeOK, Row
  <2>2. ~ (l.n < r.n)
    BY <1>1, <1>3, <2>1
  <2>3. ~ (l.date < r.date) /\ (l.date = r.date => l = r)
    BY <2>2, RowOrder
  <2> QED
    BY <2>1, <2>3
<1>5. l.date = received[Len(values)].date
  BY <1>3 DEF IInv, RowsInv
<1> QED
  BY <1>1, <1>3, <1>4, <1>5

\* A value deletes the newest row at most, and only when the row before is near to it.
LEMMA OnlyTheLast ==
  ASSUME IInv, HistoryAssumption, NEW v \in Values, NEW last, NEW prev,
         last \in rows, prev # None => prev \in rows,
         Gone(v, last, prev) # {}, Lossless(sensor)
  PROVE  /\ prev # None /\ Gone(v, last, prev) = {last}
         /\ Abs(prev.value - last.value) < Tolerance
<1>1. prev # None /\ Gone(v, last, prev) = {last}
  BY DEF Gone, Rounded, Duplicated, Repeats, Lossless, HistoryAssumption, IInv, TypeOK
<1>2. prev.value \in Int /\ last.value \in Int
  BY <1>1 DEF IInv, TypeOK, Row
<1>3. sensor.round \in Nat /\ sensor.round <= Tolerance /\ Tolerance \in Nat \ {0}
  BY DEF IInv, TypeOK, HistoryAssumption
<1>4. CASE Near(prev.value, last.value, sensor)
  BY <1>1, <1>2, <1>3, <1>4 DEF Near, Abs
<1>5. CASE prev.value = last.value
  BY <1>1, <1>2, <1>3, <1>5 DEF Abs
<1> QED
  BY <1>1, <1>4, <1>5 DEF Gone, Rounded, Duplicated, Repeats

\* When the table is cut a row stays if an older one stays.
LEMMA CutFromTheOldest ==
  ASSUME NEW R, \A r \in R : r.date \in Nat, NEW s \in Settings, HistoryAssumption, NEW now \in Int,
         NEW K \in Kept(R, s), NEW p \in NotExpired(K, s, now), NEW q \in R, p.date < q.date
  PROVE  q \in NotExpired(K, s, now)
<1>1. K \subseteq R /\ p \in K /\ s.expire \in Nat
  BY DEF Kept, NotExpired, HistoryAssumption
<1>2. q \in K
  <2>1. K = R \/ \A k \in K, z \in R \ K : z.date <= k.date
    BY DEF Kept, First
  <2>2. p.date \in Nat /\ q.date \in Nat
    BY <1>1
  <2> QED
    BY <1>1, <2>1, <2>2
<1>3. s.expire > 0 => q.date > now - s.expire
  <2>1. p.date \in Nat /\ q.date \in Nat /\ (s.expire > 0 => p.date > now - s.expire)
    BY <1>1 DEF NotExpired
  <2> QED
    BY <1>1, <2>1
<1> QED
  BY <1>2, <1>3 DEF NotExpired

\* A row that is newer than all the others, and not expired, stays.
LEMMA NewestStays ==
  ASSUME NEW R, NEW row \in R, IsFiniteSet(R), \A r \in R : r.date \in Nat,
         \A r \in R : row.date <= r.date => r = row,
         NEW s \in Settings, HistoryAssumption, NEW now \in Int,
         s.expire > 0 => row.date > now - s.expire,
         NEW K \in Kept(R, s)
  PROVE  row \in NotExpired(K, s, now)
<1>1. CASE K = R
  BY <1>1 DEF NotExpired
<1>2. CASE K # R
  <2>1. s.max \in Nat /\ s.max # 0 /\ Cardinality(K) = s.max /\ K \subseteq R
    BY <1>2 DEF Kept, First, HistoryAssumption
  <2>2. PICK k \in K : TRUE
    BY <2>1, FS_EmptySet
  <2>3. row \in K
    <3>1. row \notin K => row.date <= k.date
      BY <1>2, <2>2 DEF Kept, First
    <3>2. k \in R
      BY <2>1, <2>2
    <3> QED
      BY <2>2, <3>1, <3>2
  <2> QED
    BY <2>3 DEF NotExpired
<1> QED
  BY <1>1, <1>2

\* The next value adds no third equal row.
LEMMA NoThird ==
  ASSUME IInv, HistoryAssumption, NEW v \in Values, NEW date \in Dates, NEW now \in Int,
         Add(v, date, now), NEW last, NEW prev, NEW kept,
         Picked(v, date, now, last, prev, kept)
  PROVE  NoThreeEqual'
<1>a. AddFactsOf(v, date, now, last, prev, kept)
  BY AddFacts
<1>b. \A z \in All(v, date, last, prev) :
        \/ z = NewRow(v, date, last) /\ sensor.store
        \/ z \in rows /\ z \notin Gone(v, last, prev)
  BY <1>a DEF AddFactsOf
<1> DEFINE x == X(v, last)
           D == Gone(v, last, prev)
           row == NewRow(v, date, last)
           all == All(v, date, last, prev)
           Next2(R, a, b) == a.date < b.date /\ ~ \E z \in R : a.date < z.date /\ z.date < b.date
<1> SUFFICES ASSUME late' = 0, \A s \in used \cup {sensor} : ~ s.incremental /\ ~ s.duplicate /\ s.round = 0,
                    NEW p \in rows', NEW q \in rows', NEW r \in rows',
                    Next2(rows', p, q), Next2(rows', q, r), p.value = q.value, q.value = r.value
             PROVE  FALSE
  <2>1. used' = used \cup {sensor}
    BY DEF Add
  <2> QED
    BY <2>1, Zenon DEF NoThreeEqual, Follow
<1>1. /\ late = 0 /\ x \in Int /\ date \in Nat /\ sensor \in Settings /\ row.date = date
      /\ row.value = x
  BY <1>a DEF AddFactsOf, NewRow
<1>2. rows' = NotExpired(kept, sensor, now) /\ kept \in Kept(all, sensor)
  BY DEF Picked
<1>3. \A z \in rows : z.date \in Nat /\ z.value \in Int /\ z.date < date
  <2> SUFFICES ASSUME NEW z \in rows PROVE z.date \in Nat /\ z.value \in Int /\ z.date < date
    OBVIOUS
  <2>1. z.n \in 1..Len(values) /\ z.date = received[z.n].date /\ z.date \in Nat /\ z.value \in Int
    BY DEF IInv, RowsInv, TypeOK, Row
  <2>2. \A k \in 1..Len(values) : received[k].date < date
    BY <1>a DEF AddFactsOf
  <2> QED
    BY <2>1, <2>2
<1>4. /\ D \subseteq {last}
      /\ D # {} => prev # None /\ prev.value = x /\ last.value = x
      /\ sensor.store /\ prev # None /\ prev.value = x /\ last.value = x => D # {}
      /\ rows # {} => last \in rows /\ \A y \in rows : y.date <= last.date
      /\ rows = {} => prev = None
      /\ prev # None => prev \in rows \ {last} /\ last \in rows
      /\ prev # None => \A y \in rows \ {last} : y.date <= prev.date
      /\ rows \ {last} # {} => prev # None
  <2>1. ~ sensor.duplicate /\ sensor.round = 0
    OBVIOUS
  <2>2. /\ rows # {} => last \in rows /\ \A y \in rows : y.date <= last.date
        /\ prev # None => prev \in rows \ {last} /\ last \in rows
        /\ prev # None => \A y \in rows \ {last} : y.date <= prev.date
        /\ rows \ {last} # {} => prev # None
        /\ rows = {} => prev = None
    BY <1>a DEF AddFactsOf
  <2>3. Rounded(last, prev, sensor, x) = {}
    <3> SUFFICES ASSUME prev # None PROVE ~ Near(x, last.value, sensor)
      BY DEF Rounded
    <3>1. last \in rows
      BY <2>2
    <3> HIDE DEF x
    <3> QED
      BY <1>1, <1>3, <2>1, <3>1 DEF Near, Abs
  <2>4. D = Duplicated(last, prev, sensor, x)
    BY <2>3 DEF Gone
  <2> HIDE DEF x, D
  <2> QED
    BY <2>1, <2>2, <2>4 DEF Duplicated, Repeats
<1>5. /\ \A z \in all : \/ z = row /\ sensor.store
                        \/ z \in rows /\ z \notin D
      /\ \A z \in all : z.date \in Nat /\ z.date <= date
      /\ rows' \subseteq all
  <2>1. \A z \in all : \/ z = row /\ sensor.store
                       \/ z \in rows /\ z \notin D
    BY <1>b, Zenon
  <2>2. rows' \subseteq all
    BY <1>a DEF AddFactsOf
  <2> HIDE DEF all, row, D
  <2> QED
    BY <1>1, <1>3, <2>1, <2>2
<1>6. \A z \in rows : z \notin D => z \in all
  BY DEF All
<1> HIDE DEF x, D, row, all
<1>7. Next2(all, p, q) /\ Next2(all, q, r)
  <2>1. \A a, z \in all : a \in rows' /\ a.date < z.date => z \in rows'
    BY <1>1, <1>2, <1>5, CutFromTheOldest, HistoryAssumption
  <2> QED
    BY <1>5, <2>1
<1>8. /\ p \in rows /\ q \in rows /\ p \notin D /\ q \notin D
      /\ p.date < q.date /\ q.date < r.date
      /\ (r = row /\ sensor.store) \/ (r \in rows /\ r \notin D)
      /\ p.date \in Nat /\ q.date \in Nat /\ r.date \in Nat /\ r.date <= date
  <2>1. p \in all /\ q \in all /\ r \in all /\ p.date < q.date /\ q.date < r.date
    BY <1>5, <1>7
  <2>2. p # row /\ q # row
    BY <1>1, <1>5, <2>1
  <2> QED
    BY <1>5, <2>1, <2>2
<1>9. \A a, b, c \in rows : Follow(a, b) /\ Follow(b, c) => ~ (a.value = b.value /\ b.value = c.value)
  BY <1>1 DEF IInv, NoThreeEqual
<1>10. \A z \in D : z = last /\ z \in rows /\ \A y \in rows : y.date <= z.date
  BY <1>4
<1>11. Follow(p, q)
  <2> SUFFICES ASSUME NEW z \in rows, p.date < z.date, z.date < q.date PROVE FALSE
    BY <1>8 DEF Follow
  <2>1. z \in D
    BY <1>6, <1>7
  <2> QED
    BY <1>3, <1>8, <1>10, <2>1
<1>12. CASE r # row
  <2>1. r \in rows
    BY <1>8, <1>12
  <2>2. Follow(q, r)
    <3> SUFFICES ASSUME NEW z \in rows, q.date < z.date, z.date < r.date PROVE FALSE
      BY <1>8 DEF Follow
    <3>1. z \in D
      BY <1>6, <1>7
    <3> QED
      BY <1>3, <1>8, <1>10, <2>1, <3>1
  <2> QED
    BY <1>8, <1>9, <1>11, <2>1, <2>2
<1>13. CASE r = row
  <2>1. q.value = x /\ p.value = x /\ r.date = date
    BY <1>1, <1>13
  <2>2. sensor.store
    <3>1. row \notin rows
      BY <1>1, <1>3
    <3> QED
      BY <1>8, <1>13, <3>1
  <2>3. \A z \in rows : z \notin D => z.date <= q.date
    <3> SUFFICES ASSUME NEW z \in rows, z \notin D PROVE z.date <= q.date
      OBVIOUS
    <3>1. z \in all /\ z.date \in Nat /\ z.date < date
      BY <1>3, <1>6
    <3> QED
      BY <1>7, <1>8, <2>1, <3>1
  <2>4. CASE D = {}
    <3>1. last = q
      <4>1. last \in rows /\ q.date <= last.date /\ last.date <= q.date /\ last.date \in Nat
        BY <1>3, <1>4, <1>8, <2>3, <2>4
      <4> QED
        BY <1>1, <1>8, <4>1, RowOrder
    <3>2. prev # None /\ prev \in rows /\ prev # q /\ p.date <= prev.date
      BY <1>4, <1>8, <3>1
    <3>3. prev.date < q.date
      <4>1. prev.date <= q.date /\ prev.date # q.date /\ prev.date \in Nat
        BY <1>1, <1>3, <1>8, <2>3, <2>4, <3>2, RowOrder
      <4> QED
        BY <1>8, <4>1
    <3>4. ~ (p.date < prev.date)
      BY <1>11, <3>2, <3>3 DEF Follow
    <3>5. prev = p
      BY <1>1, <1>3, <1>8, <3>2, <3>4, RowOrder
    <3> QED
      BY <1>4, <2>1, <2>2, <2>4, <3>1, <3>2, <3>5
  <2>5. CASE D # {}
    <3>1. last \in D /\ last \in rows /\ last.value = x /\ \A y \in rows : y.date <= last.date
      BY <1>4, <1>10, <2>5
    <3>2. Follow(q, last)
      <4>1. q.date < last.date
        <5>1. q.date <= last.date /\ q.date # last.date /\ last.date \in Nat
          BY <1>1, <1>3, <1>8, <3>1, RowOrder
        <5> QED
          BY <1>8, <5>1
      <4>2. ASSUME NEW z \in rows, q.date < z.date, z.date < last.date PROVE FALSE
        <5>1. z \notin D
          BY <1>3, <1>10, <3>1, <4>2
        <5> QED
          BY <1>3, <1>8, <2>3, <4>2, <5>1
      <4> QED
        BY <4>1, <4>2 DEF Follow
    <3> QED
      BY <1>8, <1>9, <1>11, <2>1, <3>1, <3>2
  <2> QED
    BY <2>4, <2>5
<1> QED
  BY <1>12, <1>13

-----------------------------------------------------------------------------
\* The next value keeps the types, and what is known of the rows and their order.
LEMMA AddKeepsTable ==
  ASSUME IInv, HistoryAssumption, NEW v \in Values, NEW date \in Dates, NEW now \in Int,
         Add(v, date, now), NEW last, NEW prev, NEW kept,
         Picked(v, date, now, last, prev, kept)
  PROVE  TypeOK' /\ RowsInv' /\ OrderInv'
<1> DEFINE n == Len(values)
           row == NewRow(v, date, last)
<1>0. AddFactsOf(v, date, now, last, prev, kept)
  BY AddFacts
<1>1. /\ v \in Int /\ date \in Nat /\ X(v, last) \in Int /\ n \in Nat /\ n + 1 \in Nat
      /\ Len(received) = n /\ Len(received') = n + 1 /\ Len(values') = n + 1
      /\ sensor \in Settings /\ used' = used \cup {sensor} /\ sensor' = sensor /\ clock' = now
      /\ received'[n + 1] = [date |-> date, value |-> v]
      /\ \A d \in 1..n : received'[d] = received[d]
      /\ late' = 0 => late = 0 /\ \A k \in 1..n : received[k].date < date
  BY <1>0 DEF AddFactsOf
<1>2. rows' \subseteq rows \cup {row}
  <2>1. /\ rows' \subseteq kept /\ kept \subseteq All(v, date, last, prev)
        /\ \A z \in All(v, date, last, prev) : z = row \/ z \in rows
    BY <1>0 DEF AddFactsOf
  <2> HIDE DEF row
  <2> QED
    BY <2>1
<1>3. row \in Row /\ row.n = n + 1 /\ row.date = date
  BY <1>1 DEF NewRow, Row
<1> HIDE DEF row
<1>4. TypeOK'
  <2>1. rows' \subseteq Row
    BY <1>2, <1>3 DEF IInv, TypeOK
  <2>2. /\ sensor' \in Settings /\ loaded' \in [min : Int \cup {None}, max : Int \cup {None}]
        /\ used' \subseteq Settings /\ clock' \in Int
    BY <1>1 DEF Add, IInv, TypeOK
  <2>3. value_min' \in Int \cup {None} /\ value_max' \in Int \cup {None}
    BY <1>1 DEF Picked, IInv, TypeOK, Lower, Upper
  <2>4. /\ received' \in Seq([date : Nat, value : Int]) /\ values' \in Seq(Int)
        /\ Len(values') = Len(received')
    <3>1. [date |-> date, value |-> v] \in [date : Nat, value : Int]
      BY <1>1
    <3>2. received' = Append(received, [date |-> date, value |-> v])
      BY DEF Add
    <3>3. values' = Append(values, X(v, last))
      BY DEF Picked
    <3>4. received \in Seq([date : Nat, value : Int]) /\ values \in Seq(Int)
      BY DEF IInv, TypeOK
    <3>5. received' \in Seq([date : Nat, value : Int])
      BY <3>1, <3>2, <3>4
    <3>6. values' \in Seq(Int)
      BY <1>1, <3>3, <3>4
    <3> QED
      BY <1>1, <3>5, <3>6
  <2>5. late' \in 0..MaxLate /\ updates' \in 0..MaxUpdates
    BY HistoryAssumption DEF Add, IInv, TypeOK
  <2> QED
    BY <2>1, <2>2, <2>3, <2>4, <2>5 DEF TypeOK
<1>5. RowsInv'
  <2>1. IsFiniteSet(rows')
    <3>1. IsFiniteSet(rows \cup {row})
      BY FS_AddElement DEF IInv, RowsInv
    <3> QED
      BY <1>2, <3>1, FS_Subset
  <2>2. \A r \in rows : r.n \in 1..n /\ r.date = received[r.n].date
    BY DEF IInv, RowsInv
  <2>3. \A r \in rows' : r.n \in 1..Len(values') /\ r.date = received'[r.n].date
    <3> SUFFICES ASSUME NEW r \in rows'
                 PROVE  r.n \in 1..Len(values') /\ r.date = received'[r.n].date
      OBVIOUS
    <3>1. CASE r \in rows
      <4>1. r.n \in 1..n /\ r.date = received[r.n].date
        BY <2>2, <3>1
      <4>2. \A k \in 1..n : k \in 1..(n + 1)
        BY ONLY <1>1
      <4>3. received'[r.n] = received[r.n] /\ r.n \in 1..(n + 1)
        BY <1>1, <4>1, <4>2, Zenon
      <4> QED
        BY <1>1, <4>1, <4>3
    <3>2. CASE r = row
      BY <1>1, <1>3, <3>2
    <3> QED
      BY <1>2, <3>1, <3>2
  <2>4. \A q, r \in rows' : q.n = r.n => q = r
    <3>1. \A r \in rows : r.n # row.n
      BY <1>1, <1>3, <2>2
    <3> QED
      BY <1>2, <3>1 DEF IInv, RowsInv
  <2> QED
    BY <2>1, <2>3, <2>4 DEF RowsInv
<1>6. OrderInv'
  <2> SUFFICES ASSUME late' = 0, NEW i \in 1..(n + 1), NEW j \in 1..(n + 1), i < j
               PROVE  received'[i].date < received'[j].date
    BY <1>1 DEF OrderInv
  <2>1. i \in 1..n /\ (j = n + 1 \/ j \in 1..n)
    BY <1>1, OneMore
  <2>2. CASE j = n + 1
    <3>1. received[i].date < date /\ received'[i] = received[i]
      BY <1>1, <2>1
    <3>2. received'[j].date = date
      BY <1>1, <2>2
    <3> QED
      BY <3>1, <3>2
  <2>3. CASE j \in 1..n
    BY <1>1, <2>1, <2>3 DEF IInv, OrderInv
  <2> QED
    BY <2>1, <2>2, <2>3
<1> QED
  BY <1>4, <1>5, <1>6

\* The next value, when it is new, is in the table.
LEMMA AddKeepsLast ==
  ASSUME IInv, HistoryAssumption, NEW v \in Values, NEW date \in Dates, NEW now \in Int,
         Add(v, date, now), NEW last, NEW prev, NEW kept,
         Picked(v, date, now, last, prev, kept)
  PROVE  LastIsKept'
<1> DEFINE n == Len(values)
           row == NewRow(v, date, last)
           all == All(v, date, last, prev)
<1>0. AddFactsOf(v, date, now, last, prev, kept)
  BY AddFacts
<1> SUFFICES ASSUME LastIsNew', \A s \in used' : s.store
             PROVE  row \in rows'
  <2>1. /\ Len(values') = n + 1 /\ Len(received') = n + 1
        /\ values'[n + 1] = X(v, last) /\ received'[n + 1] = [date |-> date, value |-> v]
        /\ Len(received) = n
    BY <1>0 DEF AddFactsOf
  <2>2. row.n = n + 1 /\ row.value = values'[n + 1] /\ row.orig = received'[n + 1].value
    BY <2>1 DEF NewRow
  <2> HIDE DEF row
  <2> QED
    BY <2>1, <2>2 DEF LastIsKept
<1>1. /\ n \in Nat /\ n + 1 \in Nat /\ Len(received') = n + 1 /\ date \in Nat
      /\ received'[n + 1] = [date |-> date, value |-> v]
      /\ \A d \in 1..n : received'[d] = received[d]
      /\ sensor \in Settings /\ used' = used \cup {sensor} /\ clock' = now
  BY <1>0 DEF AddFactsOf
<1>2. \A k \in 1..n : received[k].date \in Nat /\ received[k].date < date
  <2> SUFFICES ASSUME NEW k \in 1..n PROVE received[k].date \in Nat /\ received[k].date < date
    OBVIOUS
  <2>1. received[k].date \in Nat
    BY MessageType DEF IInv, TypeOK
  <2>2. received'[k] = received[k] /\ received'[n + 1].date = date
    BY <1>1
  <2>3. k \in 1..(n + 1) /\ k # n + 1
    BY <1>1
  <2>4. ~ (received'[k].date >= received'[n + 1].date)
    BY <1>1, <2>3 DEF LastIsNew
  <2>5. ~ (received[k].date >= date)
    BY <2>2, <2>4
  <2> QED
    BY <1>1, <2>1, <2>5
<1>3. sensor.store /\ (sensor.expire > 0 => date > now - sensor.expire)
  <2>1. sensor \in used' /\ received'[n + 1].date = date
    BY <1>1
  <2> QED
    BY <1>1, <2>1 DEF LastIsNew
<1>4. \A r \in rows : r.date \in Nat /\ r.date < date
  BY <1>2 DEF IInv, RowsInv, TypeOK
<1>5. row.date = date
  BY DEF NewRow
<1>6. all \subseteq rows \cup {row} /\ row \in all
  BY <1>3 DEF All
<1>7. IsFiniteSet(all)
  <2>1. IsFiniteSet(rows \cup {row})
    BY FS_AddElement DEF IInv, RowsInv
  <2> HIDE DEF all, row
  <2> QED
    BY <1>6, <2>1, FS_Subset
<1>8. kept \in Kept(all, sensor) /\ rows' = NotExpired(kept, sensor, now)
  BY DEF Picked
<1> HIDE DEF all, row
<1>9. \A r \in all : r.date \in Nat /\ (row.date <= r.date => r = row)
  BY <1>1, <1>4, <1>5, <1>6
<1> QED
  BY <1>1, <1>3, <1>5, <1>6, <1>7, <1>8, <1>9, NewestStays

\* The history stays close to the values.
LEMMA AddKeepsClose ==
  ASSUME IInv, HistoryAssumption, NEW v \in Values, NEW date \in Dates, NEW now \in Int,
         Add(v, date, now), NEW last, NEW prev, NEW kept,
         Picked(v, date, now, last, prev, kept)
  PROVE  HistoryIsClose'
<1> DEFINE n == Len(values)
           x == X(v, last)
           D == Gone(v, last, prev)
           row == NewRow(v, date, last)
           Good(d) == \E r \in rows' :
                        /\ r.date <= received'[d].date
                        /\ \A q \in rows' : q.date <= received'[d].date => q.date <= r.date
                        /\ Abs(r.value - values'[d]) < Tolerance
<1>0. AddFactsOf(v, date, now, last, prev, kept)
  BY AddFacts
<1>1. /\ n \in Nat /\ n + 1 \in Nat /\ Len(received) = n
      /\ Len(values') = n + 1 /\ date \in Nat /\ x \in Int
      /\ sensor \in Settings /\ used' = used \cup {sensor}
      /\ late' = 0 => late = 0 /\ \A k \in 1..n : received[k].date < date
      /\ values'[n + 1] = x
      /\ \A d \in 1..n : received'[d] = received[d] /\ values'[d] = values[d]
  BY <1>0 DEF AddFactsOf
<1>2. received'[n + 1].date = date
  BY <1>0 DEF AddFactsOf
<1>3. /\ rows # {} => last \in rows /\ \A q \in rows : q.date <= last.date
      /\ prev # None => prev \in rows \ {last} /\ last \in rows
      /\ prev # None => \A q \in rows \ {last} : q.date <= prev.date
      /\ rows = {} => last = None /\ prev = None
  BY <1>0 DEF AddFactsOf
<1> SUFFICES ASSUME late' = 0, \A s \in used' : Lossless(s)
             PROVE  \A d \in 1..(n + 1) : Good(d)
  BY <1>1, Zenon DEF HistoryIsClose, Tells
<1>4. rows' = (rows \ D) \cup {row} /\ row.date = date /\ row.value = x /\ Lossless(sensor)
  <2>1. Lossless(sensor)
    BY <1>1
  <2>2. kept = All(v, date, last, prev)
    BY <2>1 DEF Picked, Kept, Lossless
  <2>3. rows' = kept
    BY <2>1 DEF Picked, NotExpired, Lossless
  <2> QED
    BY <2>1, <2>2, <2>3 DEF All, Lossless, NewRow
<1>5. \A r \in rows : /\ r.n \in 1..n /\ r.date = received[r.n].date
                      /\ r.date \in Nat /\ r.date < date
  <2>1. \A r \in rows : r.n \in 1..n /\ r.date = received[r.n].date
    BY DEF IInv, RowsInv
  <2>2. \A r \in rows : r.date \in Nat
    BY DEF IInv, TypeOK, Row
  <2> HIDE DEF n
  <2> QED
    BY <1>1, <2>1, <2>2, Zenon
<1>6. Good(n + 1)
  <2> HIDE DEF row, x, D
  <2>1. row \in rows'
    BY <1>4
  <2>2. row.date <= received'[n + 1].date
    BY <1>1, <1>2, <1>4
  <2>3. \A q \in rows' : q.date <= received'[n + 1].date => q.date <= row.date
    BY <1>2, <1>4
  <2>4. Abs(row.value - values'[n + 1]) < Tolerance
    <3>1. Abs(x - x) < Tolerance
      BY <1>1, HistoryAssumption DEF Abs
    <3> QED
      BY <1>1, <1>4, <3>1
  <2> QED
    BY <2>1, <2>2, <2>3, <2>4, Zenon
<1>7. ASSUME NEW d \in 1..n PROVE Good(d)
  <2>1. PICK r \in rows : Tells(r, received[d].date) /\ Abs(r.value - values[d]) < Tolerance
    BY <1>1, Zenon DEF IInv, HistoryIsClose
  <2>2. /\ received'[d].date = received[d].date /\ values'[d] = values[d]
        /\ received[d].date < date /\ received[d].date \in Nat
    BY <1>1, MessageType DEF IInv, TypeOK
  <2>3. \A q \in rows' : q.date <= received[d].date => q \in rows \ D
    <3> HIDE DEF row, x, D
    <3> QED
      BY <1>1, <1>4, <2>2, NotLess
  <2>4. CASE r \notin D
    <3>1. r \in rows'
      BY <1>4, <2>4
    <3>2. \A q \in rows' : q.date <= received[d].date => q.date <= r.date
      BY <2>1, <2>3 DEF Tells
    <3> QED
      BY <2>1, <2>2, <3>1, <3>2 DEF Tells
  <2>5. CASE r \in D
    <3>1. prev # None /\ D = {last} /\ Abs(prev.value - last.value) < Tolerance
      BY <1>3, <1>4, <2>1, <2>5, OnlyTheLast
    <3>2. r = last /\ prev \in rows' /\ prev \in rows /\ prev # last
      BY <1>3, <1>4, <2>5, <3>1
    <3>3. PICK l \in rows : /\ l.n = n /\ l.value = values[n] /\ l.date = received[n].date
                            /\ \A z \in rows : l.date <= z.date => z = l
      <4>1. n > 0
        BY <1>1
      <4>2. \A s \in used : s.store /\ s.expire = 0
        BY <1>1 DEF Lossless
      <4> QED
        BY <1>1, <4>1, <4>2, LastRow
    <3>4. last = l
      BY <1>3, <3>3
    <3>5. d = n
      <4>1. received[n].date <= received[d].date
        BY <2>1, <3>2, <3>3, <3>4 DEF Tells
      <4>2. d < n => received[d].date < received[n].date
        <5>1. d < n => d \in 1..Len(received) /\ n \in 1..Len(received)
          BY <1>1
        <5> QED
          BY <1>1, <5>1 DEF IInv, OrderInv
      <4>3. received[n].date \in Nat
        BY <3>3, <1>5
      <4>4. ~ (received[d].date < received[n].date)
        BY <2>2, <4>1, <4>3, NotLess
      <4> QED
        BY <1>1, <4>2, <4>4, LastOne
    <3>6. prev.date <= received[d].date
      BY <1>3, <3>2, <3>3, <3>4, <3>5
    <3>7. \A q \in rows' : q.date <= received[d].date => q.date <= prev.date
      BY <1>3, <2>3, <3>1
    <3>8. Abs(prev.value - values'[d]) < Tolerance
      BY <2>2, <3>1, <3>3, <3>4, <3>5
    <3> QED
      BY <2>2, <3>2, <3>6, <3>7, <3>8
  <2> QED
    BY <2>4, <2>5
<1> QED
  <2> HIDE DEF Good
  <2>1. \A d \in 1..(n + 1) : d = n + 1 \/ d \in 1..n
    BY <1>1
  <2> QED
    BY <1>6, <1>7, <2>1

\* The increment stays the difference of the last two values.
LEMMA AddKeepsDifferences ==
  ASSUME IInv, HistoryAssumption, NEW v \in Values, NEW date \in Dates, NEW now \in Int,
         Add(v, date, now), NEW last, NEW prev, NEW kept,
         Picked(v, date, now, last, prev, kept)
  PROVE  IncrementIsDifference'
<1> DEFINE n == Len(values)
<1>0. AddFactsOf(v, date, now, last, prev, kept)
  BY AddFacts
<1>1. /\ n \in Nat /\ n + 1 \in Nat /\ Len(received) = n
      /\ Len(values') = n + 1 /\ v \in Int
      /\ sensor \in Settings /\ used' = used \cup {sensor}
      /\ late' = 0 => late = 0
      /\ values'[n + 1] = X(v, last)
      /\ \A d \in 1..n : received'[d] = received[d] /\ values'[d] = values[d]
      /\ rows # {} => last \in rows /\ \A q \in rows : q.date <= last.date
  BY <1>0 DEF AddFactsOf
<1>2. received'[n + 1].value = v
  BY <1>0 DEF AddFactsOf
<1> SUFFICES ASSUME late' = 0, \A s \in used' : s.incremental /\ s.store /\ s.expire = 0,
                    NEW d \in 2..(n + 1)
             PROVE  values'[d] = received'[d].value - received'[d - 1].value
  BY <1>1, Zenon DEF IncrementIsDifference
<1>3. CASE d \in 2..n
  <2>1. d \in 1..n /\ d - 1 \in 1..n
    BY <1>1, <1>3
  <2>2. values[d] = received[d].value - received[d - 1].value
    BY <1>1, <1>3 DEF IInv, IncrementIsDifference
  <2>3. received'[d] = received[d] /\ values'[d] = values[d] /\ received'[d - 1] = received[d - 1]
    BY <1>1, <2>1
  <2> QED
    BY <2>2, <2>3
<1>4. CASE d = n + 1
  <2>1. n > 0 /\ n \in 1..n /\ d - 1 = n
    BY <1>1, <1>4
  <2>2. PICK l \in rows : l.orig = received[n].value /\ \A r \in rows : l.date <= r.date => r = l
    <3>1. \A s \in used : s.store /\ s.expire = 0
      BY <1>1
    <3> QED
      BY <1>1, <2>1, <3>1, LastRow
  <2>3. last = l /\ last # None
    BY <1>1, <2>2, HistoryAssumption DEF IInv, TypeOK
  <2>4. sensor.incremental
    BY <1>1
  <2>5. X(v, last) = v - received[n].value
    BY <2>2, <2>3, <2>4 DEF X, Increment
  <2>6. received'[n] = received[n]
    BY <1>1, <2>1
  <2> QED
    BY <1>1, <1>2, <1>4, <2>1, <2>5, <2>6
<1> QED
  BY <1>1, <1>3, <1>4

\* The settings do not touch the history.
LEMMA UpdateKeeps ==
  ASSUME IInv, HistoryAssumption, NEW s \in Settings, DeviceUpdate(s)
  PROVE  IInv'
<1>1. /\ rows' = rows /\ received' = received /\ values' = values /\ used' = used
      /\ late' = late /\ clock' = clock
  BY DEF DeviceUpdate
<1>2. TypeOK'
  <2>1. updates' \in 0..MaxUpdates
    BY HistoryAssumption DEF DeviceUpdate, IInv, TypeOK
  <2>2. loaded' \in [min : Int \cup {None}, max : Int \cup {None}] /\ sensor' \in Settings
    BY DEF DeviceUpdate, IInv, TypeOK
  <2>3. value_min' = value_min /\ value_max' = value_max
    BY DEF DeviceUpdate
  <2> QED
    BY <1>1, <2>1, <2>2, <2>3 DEF IInv, TypeOK
<1>3. RowsInv' /\ OrderInv'
  BY <1>1 DEF IInv, RowsInv, OrderInv
<1>4. LastIsKept' /\ IncrementIsDifference'
  BY <1>1 DEF IInv, LastIsKept, LastIsNew, IncrementIsDifference
<1>5. HistoryIsClose' /\ NoThreeEqual'
  BY <1>1 DEF IInv, HistoryIsClose, Tells, NoThreeEqual, Follow
<1> QED
  BY <1>2, <1>3, <1>4, <1>5 DEF IInv

-----------------------------------------------------------------------------
\* The invariant.
THEOREM Invariance == Spec => []IInv
<1>1. Init => IInv
  <2> SUFFICES ASSUME Init PROVE IInv
    OBVIOUS
  <2>1. TypeOK
    BY HistoryAssumption DEF Init, TypeOK
  <2>2. RowsInv /\ OrderInv
    BY FS_EmptySet DEF Init, RowsInv, OrderInv
  <2>3. LastIsKept /\ HistoryIsClose /\ IncrementIsDifference /\ NoThreeEqual
    BY DEF Init, LastIsKept, LastIsNew, HistoryIsClose, IncrementIsDifference, NoThreeEqual
  <2> QED
    BY <2>1, <2>2, <2>3 DEF IInv
<1>2. IInv /\ [Next]_vars => IInv'
  <2> SUFFICES ASSUME IInv, [Next]_vars PROVE IInv'
    OBVIOUS
  <2>1. ASSUME NEW v \in Values, NEW date \in Dates, NEW lag \in Lags, Add(v, date, date + lag)
        PROVE  IInv'
    <3>1. PICK last, prev, kept : Picked(v, date, date + lag, last, prev, kept)
      BY <2>1, AddPicks
    <3>2. date + lag \in Int
      BY HistoryAssumption
    <3> QED
      BY <2>1, <3>1, <3>2, HistoryAssumption, AddKeepsTable, AddKeepsLast, AddKeepsClose,
         AddKeepsDifferences, NoThird DEF IInv
  <2>2. ASSUME NEW s \in Settings, DeviceUpdate(s) PROVE IInv'
    BY <2>2, UpdateKeeps, HistoryAssumption
  <2>3. CASE UNCHANGED vars
    <3>1. TypeOK'
      BY <2>3 DEF vars, IInv, TypeOK
    <3>2. RowsInv' /\ OrderInv'
      BY <2>3 DEF vars, IInv, RowsInv, OrderInv
    <3>3. LastIsKept' /\ IncrementIsDifference'
      BY <2>3 DEF vars, IInv, LastIsKept, LastIsNew, IncrementIsDifference
    <3>4. HistoryIsClose' /\ NoThreeEqual'
      BY <2>3 DEF vars, IInv, HistoryIsClose, Tells, NoThreeEqual, Follow
    <3> QED
      BY <3>1, <3>2, <3>3, <3>4 DEF IInv
  <2> QED
    BY <2>1, <2>2, <2>3 DEF Next
<1> QED
  BY <1>1, <1>2, PTL DEF Spec

\* The table, the settings and the lists have their types (add_sensor_history).
THEOREM TypeCorrect == Spec => []TypeOK
<1>1. IInv => TypeOK
  BY DEF IInv
<1> QED
  BY <1>1, Invariance, PTL

\* While values come in the order of their dates, and no two in the same second, the
\* history tells the value of the sensor at every date, within history_round
\* (add_sensor_history without history_max and history_expire, and never with
\* history_round and history_duplicate at once).
THEOREM HistoryStaysClose == Spec => []HistoryIsClose
<1>1. IInv => HistoryIsClose
  BY DEF IInv
<1> QED
  BY <1>1, Invariance, PTL

\* When it is not incremental, without history_duplicate and history_round, and while
\* values come in the order of their dates, no three rows in a row have the same value
\* (add_sensor_history).
THEOREM EqualRowsAreFew == Spec => []NoThreeEqual
<1>1. IInv => NoThreeEqual
  BY DEF IInv
<1> QED
  BY <1>1, Invariance, PTL

\* A value newer than all before and not yet expired is in the history, whatever the
\* settings and whatever the dates of the values before (add_sensor_history).
THEOREM LastStays == Spec => []LastIsKept
<1>1. IInv => LastIsKept
  BY DEF IInv
<1> QED
  BY <1>1, Invariance, PTL

\* While values come in the order of their dates the increments are the differences of
\* the values received (the incremental clause of add_sensor_history).
THEOREM IncrementsAreDifferences == Spec => []IncrementIsDifference
<1>1. IInv => IncrementIsDifference
  BY DEF IInv
<1> QED
  BY <1>1, Invariance, PTL

\* history_max bounds the history after every value, whatever the dates (the clause on
\* history_max of add_sensor_history).
THEOREM MaxBoundsTheHistory == Spec => HistoryIsBounded
<1>1. IInv /\ [Next]_vars => (received' # received /\ sensor.max > 0 => Cardinality(rows') <= sensor.max)
  <2> SUFFICES ASSUME IInv, [Next]_vars, received' # received, sensor.max > 0
               PROVE  Cardinality(rows') <= sensor.max
    OBVIOUS
  <2>1. PICK v \in Values, date \in Dates, lag \in Lags : Add(v, date, date + lag)
    BY DEF Next, DeviceUpdate, vars
  <2>2. date + lag \in Int
    BY HistoryAssumption
  <2>3. PICK last, prev, kept : Picked(v, date, date + lag, last, prev, kept)
    BY <2>1, AddPicks
  <2> DEFINE all == All(v, date, last, prev)
  <2>4. /\ rows' \subseteq kept /\ kept \subseteq all /\ sensor \in Settings
        /\ all \subseteq rows \cup {NewRow(v, date, last)}
    <3>1. AddFactsOf(v, date, date + lag, last, prev, kept)
      BY <2>1, <2>2, <2>3, AddFacts, HistoryAssumption
    <3> QED
      BY <3>1 DEF AddFactsOf, All
  <2>5. IsFiniteSet(kept)
    <3>1. IsFiniteSet(rows \cup {NewRow(v, date, last)})
      BY FS_AddElement DEF IInv, RowsInv
    <3> QED
      BY <2>4, <3>1, FS_Subset
  <2>6. Cardinality(kept) <= sensor.max
    <3>1. sensor.max \in Nat
      BY <2>4, HistoryAssumption
    <3>2. kept \in Kept(all, sensor)
      BY <2>3 DEF Picked
    <3> HIDE DEF all
    <3> QED
      BY <3>1, <3>2 DEF Kept, First
  <2>7. /\ Cardinality(rows') <= Cardinality(kept)
        /\ Cardinality(rows') \in Nat /\ Cardinality(kept) \in Nat
    BY <2>4, <2>5, FS_Subset, FS_CardinalityType
  <2>8. sensor.max \in Nat
    BY <2>4, HistoryAssumption
  <2> QED
    BY <2>6, <2>7, <2>8
<1> QED
  BY <1>1, Invariance, PTL DEF Spec, HistoryIsBounded

=============================================================================
