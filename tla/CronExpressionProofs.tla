------------------------- MODULE CronExpressionProofs -------------------------
(***************************************************************************)
(* What CronExpression makes of a rule is what the labels and menus of the *)
(* editor's blocks say of it: for every rule that it does not misread and  *)
(* every date of the calendar.                                             *)
(* First the atoms that depend on the month (aW, aL, a#n), then the ranges *)
(* and increments, then a field, then the rule.  At last, the clock goes   *)
(* from a date of the calendar to the next.                                *)
(***************************************************************************)
EXTENDS CronExpression, TLAPS

\* The day of the week of a day of a month whose first day is a first_dow.
Dow(first_dow, d) == (first_dow + d - 1) % 7

\* a#n is a day a, and the n-th of its month.
LEMMA NthDowIsNth ==
  ASSUME NEW a \in 0..6, NEW n \in 0..9, NEW first_dow \in 0..6
  PROVE  /\ Dow(first_dow, NthDow(a, n, first_dow)) = a
         /\ NthDow(a, n, first_dow) \in (7 * n - 6)..(7 * n)
BY SMT DEF NthDow, Dow

\* aL is a day a, and in the last seven days of the month.
LEMMA LastDowIsLast ==
  ASSUME NEW a \in 0..6, NEW last_dom \in 28..31, NEW first_dow \in 0..6
  PROVE  /\ Dow(first_dow, LastDow(a, last_dom, first_dow)) = a
         /\ LastDow(a, last_dom, first_dow) \in (last_dom - 6)..last_dom
BY SMT DEF LastDow, Dow

\* aW is the weekday of the month that is nearest to the day a, and the only one.
LEMMA NearestWeekdayIsNearest ==
  ASSUME NEW a \in 1..31, NEW last_dom \in 28..31, NEW first_dow \in 0..6
  PROVE  LET t == NearestWeekday(a, last_dom, first_dow) IN
         /\ t \in 1..last_dom
         /\ Dow(first_dow, t) \notin {0, 6}
         /\ \A d \in 1..last_dom : d # t /\ Dow(first_dow, d) \notin {0, 6} =>
              Distance(t, a) < Distance(d, a)
<1> DEFINE target == IF a < last_dom THEN a ELSE last_dom
           t == NearestWeekday(a, last_dom, first_dow)
           on == Dow(first_dow, target)
<1>0. target \in 1..last_dom /\ target <= a /\ (target < a => target = last_dom)
  OBVIOUS
<1>1. t = IF on = 0 THEN target + (IF target < last_dom THEN 1 ELSE -2)
          ELSE IF on = 6 THEN target + (IF target > 1 THEN -1 ELSE 2)
          ELSE target
  BY DEF NearestWeekday, Dow
<1> HIDE DEF target, t
<1>2. /\ t \in 1..last_dom
      /\ Dow(first_dow, t) \notin {0, 6}
  BY <1>0, <1>1, SMT DEF Dow
<1>3. ASSUME NEW d \in 1..last_dom, d # t, Dow(first_dow, d) \notin {0, 6}
      PROVE  Distance(t, a) < Distance(d, a)
  <2>1. CASE on \notin {0, 6}
    BY <2>1, <1>0, <1>1, <1>3, SMT DEF Dow, Distance
  <2>2. CASE on = 0
    BY <2>2, <1>0, <1>1, <1>3, SMT DEF Dow, Distance
  <2>3. CASE on = 6
    BY <2>3, <1>0, <1>1, <1>3, SMT DEF Dow, Distance
  <2> QED
    BY <2>1, <2>2, <2>3
<1> QED
  BY <1>2, <1>3 DEF t

-----------------------------------------------------------------------------
\* The calendar of a date.
LEMMA DateFacts ==
  ASSUME NEW date \in Date
  PROVE  /\ date.Minute \in 0..59 /\ date.Hour \in 0..23 /\ date.Month \in 1..12 /\ date.Year \in Nat
         /\ LastDom(date) \in 28..31 /\ date.DayOfMonth \in 1..LastDom(date)
         /\ DayOfWeek(date) \in 0..6
         /\ FirstDow(date) \in 0..6
         /\ DayOfWeek(date) = Dow(FirstDow(date), date.DayOfMonth)
<1>0. date \in [Minute : 0..59, Hour : 0..23, DayOfMonth : 1..31, Month : 1..12, Year : Nat]
      /\ date.DayOfMonth <= LastDom(date)
  BY DEF Date
<1>1. DayNumber(date.Year, date.Month, date.DayOfMonth) \in Int
  <2> DEFINE y == date.Year
             leap == IF date.Month > 2 /\ IsLeap(y) THEN 1 ELSE 0
  <2>1. DaysBefore[date.Month] \in Int
    BY <1>0, SMT DEF DaysBefore
  <2>2. y \in Int /\ date.DayOfMonth \in Int /\ leap \in Int
    BY <1>0
  <2>3. DayNumber(y, date.Month, date.DayOfMonth) =
          365 * (y - 1970) + ((y - 1969) \div 4) - ((y - 1901) \div 100) + ((y - 1601) \div 400)
            + DaysBefore[date.Month] + leap + date.DayOfMonth - 1
    BY DEF DayNumber
  <2> HIDE DEF y, leap
  <2> QED
    BY <2>1, <2>2, <2>3, SMT DEF y
<1>2. LastDom(date) \in 28..31
  BY SMT DEF LastDom, LastDay
<1>3. DayOfWeek(date) \in 0..6
  BY <1>1, SMT DEF DayOfWeek
<1>4. date.DayOfMonth \in 1..31
  BY <1>0
<1>5. /\ FirstDow(date) \in 0..6
      /\ DayOfWeek(date) = Dow(FirstDow(date), date.DayOfMonth)
  BY <1>3, <1>4, SMT DEF FirstDow, Dow
<1> QED
  BY <1>0, <1>2, <1>3, <1>4, <1>5

\* aW is found true of the weekday nearest to a.
LEMMA WeekdayIsRight ==
  ASSUME NEW date \in Date, NEW x, x.kind = "weekday", x.a \in 1..31
  PROVE  Hits("DayOfMonth", x, date) <=> AtomMeans("DayOfMonth", x, date)
<1> DEFINE first == FirstDow(date)
           last == LastDom(date)
           day == date.DayOfMonth
           a == x.a
           t == NearestWeekday(a, last, first)
           work(d) == Dow(first, d) \notin {0, 6}
<1>1. last \in 28..31 /\ first \in 0..6 /\ day \in 1..last /\ a \in 1..31
  BY DateFacts
<1>2. /\ t \in 1..last /\ work(t)
      /\ \A d \in 1..last : d # t /\ work(d) => Distance(t, a) < Distance(d, a)
  <2> HIDE DEF first, last, a
  <2> QED
    BY <1>1, NearestWeekdayIsNearest
<1>3. Hits("DayOfMonth", x, date) <=> t = day /\ (first + t - 7) % 7 > 1
  BY DEF Hits
<1>4. (first + t - 7) % 7 > 1
  <2>1. first \in Int /\ t \in Int /\ (first + t - 1) % 7 \notin {0, 6}
    BY <1>1, <1>2 DEF Dow
  <2> HIDE DEF first, t
  <2> QED
    BY <2>1, SMT
<1>5. AtomMeans("DayOfMonth", x, date) <=>
        work(day) /\ \A d \in 1..last : work(d) => Distance(day, a) <= Distance(d, a)
  BY <1>1 DEF AtomMeans, IsNearestWeekday, IsWeekday, Dow
<1>6. \A d \in 1..last : Distance(d, a) \in Int
  BY <1>1, SMT DEF Distance
<1> HIDE DEF t, work, last, day, a
<1>7. ASSUME t = day
      PROVE  work(day) /\ \A d \in 1..last : work(d) => Distance(day, a) <= Distance(d, a)
  BY <1>2, <1>6, <1>7, SMT
<1>8. ASSUME work(day), \A d \in 1..last : work(d) => Distance(day, a) <= Distance(d, a)
      PROVE  t = day
  BY <1>1, <1>2, <1>6, <1>8, SMT
<1> QED
  BY <1>3, <1>4, <1>5, <1>7, <1>8

\* aL is found true of the last day a of the month.
LEMMA LastOfIsRight ==
  ASSUME NEW date \in Date, NEW x, x.kind = "lastof", x.a \in 0..6
  PROVE  Hits("DayOfWeek", x, date) <=> AtomMeans("DayOfWeek", x, date)
<1> DEFINE first == FirstDow(date)
           last == LastDom(date)
           day == date.DayOfMonth
           a == x.a
           t == LastDow(a, last, first)
<1>1. /\ last \in 28..31 /\ first \in 0..6 /\ DayOfWeek(date) = Dow(first, day) /\ day \in 1..last
      /\ a \in 0..6
  BY DateFacts
<1>2. Hits("DayOfWeek", x, date) <=> t = day
  BY DEF Hits
<1>3. AtomMeans("DayOfWeek", x, date) <=> Dow(first, day) = a /\ day + 7 > last
  BY <1>1 DEF AtomMeans, ValueOf
<1> HIDE DEF last, day, first, a
<1>4. Dow(first, t) = a /\ t \in (last - 6)..last
  BY <1>1, LastDowIsLast
<1> HIDE DEF t
<1>5. t = day <=> Dow(first, day) = a /\ day + 7 > last
  BY <1>1, <1>4, SMT DEF Dow
<1> QED
  BY <1>2, <1>3, <1>5

\* a#n is found true of the n-th day a of the month.
LEMMA NthIsRight ==
  ASSUME NEW date \in Date, NEW x, x.kind = "nth", x.a \in 0..6, x.b \in 0..9
  PROVE  Hits("DayOfWeek", x, date) <=> AtomMeans("DayOfWeek", x, date)
<1> DEFINE first == FirstDow(date)
           last == LastDom(date)
           day == date.DayOfMonth
           a == x.a
           n == x.b
           t == NthDow(a, n, first)
<1>1. /\ last \in 28..31 /\ first \in 0..6 /\ DayOfWeek(date) = Dow(first, day) /\ day \in 1..last
      /\ a \in 0..6 /\ n \in 0..9
  BY DateFacts
<1>2. Hits("DayOfWeek", x, date) <=> t = day
  BY DEF Hits
<1>3. AtomMeans("DayOfWeek", x, date) <=> Dow(first, day) = a /\ (day + 6) \div 7 = n
  BY <1>1 DEF AtomMeans, ValueOf
<1> HIDE DEF last, day, first, a, n
<1>4. Dow(first, t) = a /\ t \in (7 * n - 6)..(7 * n)
  BY <1>1, NthDowIsNth
<1> HIDE DEF t
<1>5. t = day <=> Dow(first, day) = a /\ (day + 6) \div 7 = n
  BY <1>1, <1>4, SMT DEF Dow
<1> QED
  BY <1>2, <1>3, <1>5

\* For every date of a month, an atom aW, aL or a#n is found true exactly on the days
\* that its block names with its label and the menu of the days of the week: "the
\* nearest weekday to the", "the last", "the 3rd" (_check_trigger_normal and
\* blockly_cron_edit.js).
THEOREM SpecialDaysAreRight ==
  ASSUME NEW date \in Date
  PROVE  /\ \A a \in 1..31 :
              Hits("DayOfMonth", Weekday(a), date) <=> AtomMeans("DayOfMonth", Weekday(a), date)
         /\ \A a \in 0..6 :
              Hits("DayOfWeek", LastOf(a), date) <=> AtomMeans("DayOfWeek", LastOf(a), date)
         /\ \A a \in 0..6, n \in 1..5 :
              Hits("DayOfWeek", Nth(a, n), date) <=> AtomMeans("DayOfWeek", Nth(a, n), date)
<1>1. ASSUME NEW a \in 1..31
      PROVE  Hits("DayOfMonth", Weekday(a), date) <=> AtomMeans("DayOfMonth", Weekday(a), date)
  BY WeekdayIsRight DEF Weekday, Atom
<1>2. ASSUME NEW a \in 0..6
      PROVE  Hits("DayOfWeek", LastOf(a), date) <=> AtomMeans("DayOfWeek", LastOf(a), date)
  BY LastOfIsRight DEF LastOf, Atom
<1>3. ASSUME NEW a \in 0..6, NEW n \in 1..5
      PROVE  Hits("DayOfWeek", Nth(a, n), date) <=> AtomMeans("DayOfWeek", Nth(a, n), date)
  BY NthIsRight DEF Nth, Atom
<1> QED
  BY <1>1, <1>2, <1>3

-----------------------------------------------------------------------------
\* The six fields, and their positions in a text.
LEMMA SixFields ==
  /\ Fields = {"Minute", "Hour", "DayOfMonth", "Month", "DayOfWeek", "Year"}
  /\ \A i \in 1..6 : FieldNames[i] \in Fields /\ (CHOOSE j \in 1..6 : FieldNames[j] = FieldNames[i]) = i
  /\ \A f \in Fields : \E i \in 1..6 : FieldNames[i] = f /\ (CHOOSE j \in 1..6 : FieldNames[j] = f) = i
<1>1. /\ FieldNames[1] = "Minute" /\ FieldNames[2] = "Hour" /\ FieldNames[3] = "DayOfMonth"
      /\ FieldNames[4] = "Month" /\ FieldNames[5] = "DayOfWeek" /\ FieldNames[6] = "Year"
  BY DEF FieldNames
<1>2. \A i \in 1..6 : i \in {1, 2, 3, 4, 5, 6}
  OBVIOUS
<1>3. \A i, j \in 1..6 : FieldNames[i] = FieldNames[j] => i = j
  BY <1>1, <1>2
<1>4. \A i \in 1..6 : (CHOOSE j \in 1..6 : FieldNames[j] = FieldNames[i]) = i
  BY <1>3
<1>5. \A f \in Fields : \E i \in 1..6 : FieldNames[i] = f
  BY DEF Fields
<1>6. Fields = {"Minute", "Hour", "DayOfMonth", "Month", "DayOfWeek", "Year"}
  BY <1>1, <1>2 DEF Fields
<1> QED
  BY <1>4, <1>5, <1>6 DEF Fields

\* The values of a field go round.
LEMMA Ranges ==
  ASSUME NEW f \in Fields
  PROVE  /\ Low[f] \in Nat /\ High[f] \in Nat /\ Low[f] < High[f]
         /\ \A w \in (Low[f] - High[f])..(High[f] - Low[f]) :
              w % (High[f] - Low[f] + 1) = IF w < 0 THEN w + (High[f] - Low[f] + 1) ELSE w
<1>1. CASE f = "Minute"
  BY <1>1 DEF Low, High
<1>2. CASE f = "Hour"
  BY <1>2 DEF Low, High
<1>3. CASE f = "DayOfMonth"
  BY <1>3 DEF Low, High
<1>4. CASE f = "Month"
  BY <1>4 DEF Low, High
<1>5. CASE f = "DayOfWeek"
  BY <1>5 DEF Low, High
<1>6. CASE f = "Year"
  BY <1>6 DEF Low, High
<1> QED
  BY SixFields, <1>1, <1>2, <1>3, <1>4, <1>5, <1>6

\* A range that does not end where it begins has the values that the editor says.
LEMMA RangeIsRight ==
  ASSUME NEW f \in Fields, NEW a \in Low[f]..High[f], NEW b \in Low[f]..High[f], a # b,
         NEW inc \in Nat, NEW v \in Int
  PROVE  v \in RangeValues(f, a, b, inc) <=> Around(f, v, a, b, inc)
<1> DEFINE lo == Low[f]
           hi == High[f]
           span == hi - lo + 1
           way == IF v < a THEN v - a + span ELSE v - a
           turns(w) == w % inc = 0
<1>1. lo \in Nat /\ hi \in Nat /\ lo < hi
  BY Ranges
<1>2. Around(f, v, a, b, inc) <=>
        v \in lo..hi /\ way <= (IF b < a THEN b - a + span ELSE b - a) /\ inc > 0 /\ turns(way)
  <2>1. ASSUME v \in lo..hi
        PROVE  (v - a) % span = way /\ (b - a) % span = IF b < a THEN b - a + span ELSE b - a
    <3>1. v - a \in (lo - hi)..(hi - lo) /\ b - a \in (lo - hi)..(hi - lo)
      BY <1>1, <2>1
    <3> HIDE DEF lo, hi
    <3> QED
      BY <3>1, <2>1, <1>1, Ranges DEF lo, hi
  <2> QED
    BY <2>1 DEF Around
<1>3. CASE inc = 0
  BY <1>2, <1>3 DEF RangeValues
<1>4. CASE inc # 0 /\ a < b
  <2>1. RangeValues(f, a, b, inc) = {u \in a..b : turns(u - a)}
    BY <1>4 DEF RangeValues
  <2> HIDE DEF turns, lo, hi
  <2> QED
    BY <1>1, <1>2, <1>4, <2>1 DEF lo, hi
<1>5. CASE inc # 0 /\ b < a
  <2>1. RangeValues(f, a, b, inc) =
          {u \in a..hi : turns(u - a)} \cup {lo + k : k \in {j \in 0..(b - lo) : turns((hi - a + 1) + j)}}
    BY <1>1, <1>5 DEF RangeValues
  <2>2. v \in {lo + k : k \in {j \in 0..(b - lo) : turns((hi - a + 1) + j)}} <=>
          v \in lo..b /\ turns((hi - a + 1) + (v - lo))
    <3> HIDE DEF turns, lo, hi
    <3>1. b \in Int /\ lo \in Int
      BY <1>1 DEF lo, hi
    <3>2. ASSUME NEW j \in 0..(b - lo), v = lo + j PROVE j = v - lo
      BY <3>1, <3>2
    <3>3. v \in lo..b => v - lo \in 0..(b - lo) /\ lo + (v - lo) = v
      BY <3>1
    <3> QED
      BY <3>1, <3>2, <3>3
  <2>3. (hi - a + 1) + (v - lo) = v - a + span
    BY <1>1
  <2> HIDE DEF turns, lo, hi
  <2> QED
    BY <1>1, <1>2, <1>5, <2>1, <2>2, <2>3 DEF lo, hi
<1> QED
  BY <1>3, <1>4, <1>5, <1>1

\* An increment without an end goes round from where it begins.
LEMMA EachIsRight ==
  ASSUME NEW f \in Fields, NEW a \in Low[f]..High[f], NEW inc \in Nat, NEW v \in Int
  PROVE  v \in RangeValues(f, a, a, inc) <=> Around(f, v, a, a - 1, inc)
<1> DEFINE lo == Low[f]
           hi == High[f]
           span == hi - lo + 1
           way == IF v < a THEN v - a + span ELSE v - a
           turns(w) == w % inc = 0
<1>1. lo \in Nat /\ hi \in Nat /\ lo < hi
  BY Ranges
<1>2. Around(f, v, a, a - 1, inc) <=> v \in lo..hi /\ inc > 0 /\ turns(way)
  <2>1. ASSUME v \in lo..hi
        PROVE  (v - a) % span = way /\ ((a - 1) - a) % span = span - 1 /\ way <= span - 1
    <3>1. v - a \in (lo - hi)..(hi - lo) /\ (a - 1) - a \in (lo - hi)..(hi - lo) /\ (a - 1) - a = -1
      BY <1>1, <2>1
    <3> HIDE DEF lo, hi
    <3> QED
      BY <3>1, <2>1, <1>1, Ranges DEF lo, hi
  <2> QED
    BY <2>1 DEF Around
<1>3. CASE inc = 0
  BY <1>2, <1>3 DEF RangeValues
<1>4. CASE inc # 0
  <2>1. RangeValues(f, a, a, inc) =
          {u \in a..hi : turns(u - a)} \cup {lo + k : k \in {j \in 0..(a - lo) : turns((hi - a + 1) + j)}}
    BY <1>1, <1>4 DEF RangeValues
  <2>2. v \in {lo + k : k \in {j \in 0..(a - lo) : turns((hi - a + 1) + j)}} <=>
          v \in lo..a /\ turns((hi - a + 1) + (v - lo))
    <3> HIDE DEF turns, lo, hi
    <3>1. a \in Int /\ lo \in Int
      BY <1>1 DEF lo, hi
    <3>2. ASSUME NEW j \in 0..(a - lo), v = lo + j PROVE j = v - lo
      BY <3>1, <3>2
    <3>3. v \in lo..a => v - lo \in 0..(a - lo) /\ lo + (v - lo) = v
      BY <3>1
    <3> QED
      BY <3>1, <3>2, <3>3
  <2>3. (hi - a + 1) + (v - lo) = v - a + span
    BY <1>1
  <2>4. turns(0) /\ a - a = 0
    BY <1>4
  <2> HIDE DEF turns, lo, hi
  <2> QED
    BY <1>1, <1>2, <1>4, <2>1, <2>2, <2>3, <2>4 DEF lo, hi
<1> QED
  BY <1>3, <1>4

\* The numbers of an atom.
LEMMA NumbersAreNat ==
  /\ \A n \in Numbers : n \in Nat
  /\ 0 \in Numbers /\ 1 \in Numbers /\ 6 \in Numbers
  /\ \A n \in Nat, k \in Numbers : n <= k => n \in Numbers
<1>1. Largest \in Nat /\ 6 <= Largest
  BY DEF Largest
<1> QED
  BY <1>1 DEF Numbers

AnyAtom == [kind : Kinds, a : Numbers, b : Numbers, inc : Numbers]

LEMMA AtomType ==
  ASSUME NEW x \in Atoms
  PROVE  /\ x \in AnyAtom /\ Written(x)
         /\ x.kind \in Kinds /\ x.a \in Numbers /\ x.b \in Numbers /\ x.inc \in Numbers
         /\ x.a \in Nat /\ x.b \in Nat /\ x.inc \in Nat
<1>1. x \in AnyAtom /\ Written(x)
  BY DEF Atoms, AnyAtom
<1> QED
  BY <1>1, NumbersAreNat DEF AnyAtom

\* What the static values of an atom and its test on the month find, the editor says.
Static(x) == x.kind \in {"all", "num", "range", "each", "alleach"}

LEMMA StaticIsRight ==
  ASSUME NEW f \in Fields, NEW x \in Atoms, Static(x), ~ OutOfBounds(f, x), ~ MisreadAtom(f, x),
         NEW date, ValueOf(date, f) \in Int, x.kind = "all" => ValueOf(date, f) \in Low[f]..High[f]
  PROVE  ValueOf(date, f) \in ParseAtom(f, x) <=> AtomMeans(f, x, date)
<1> DEFINE v == ValueOf(date, f)
<1>1. Low[f] \in Nat /\ High[f] \in Nat /\ Low[f] < High[f] /\ x.a \in Nat /\ x.b \in Nat /\ x.inc \in Nat
  BY Ranges, AtomType
<1> HIDE DEF v
<1>2. CASE x.kind = "all"
  BY <1>2 DEF ParseAtom, AtomMeans, OutOfBounds, v
<1>3. CASE x.kind = "num"
  BY <1>3 DEF ParseAtom, AtomMeans, OutOfBounds, v
<1>4. CASE x.kind = "range"
  <2>1. x.a \in Low[f]..High[f] /\ x.b \in Low[f]..High[f] /\ x.a # x.b
    BY <1>4 DEF MisreadAtom
  <2>2. v \in RangeValues(f, x.a, x.b, x.inc) <=> Around(f, v, x.a, x.b, x.inc)
    BY <1>1, <2>1, RangeIsRight DEF v
  <2> QED
    BY <1>4, <2>2 DEF ParseAtom, AtomMeans, v
<1>5. CASE x.kind = "each"
  <2>1. x.a \in Low[f]..High[f]
    BY <1>5 DEF MisreadAtom
  <2>2. v \in RangeValues(f, x.a, x.a, x.inc) <=> Around(f, v, x.a, x.a - 1, x.inc)
    BY <1>1, <2>1, EachIsRight DEF v
  <2>3. f \in {"DayOfMonth", "Year"} => x.a = Low[f]
    BY <1>5 DEF MisreadAtom
  <2>4. Around(f, v, x.a, x.a - 1, x.inc) => v \in Low[f]..High[f]
    BY DEF Around
  <2>5. Around(f, v, x.a, x.a - 1, x.inc) /\ f \in {"DayOfMonth", "Year"} => x.a <= v
    BY <1>1, <2>3, <2>4
  <2>6. AtomMeans(f, x, date) <=> Around(f, v, x.a, x.a - 1, x.inc)
    BY <1>5, <2>5 DEF AtomMeans, v
  <2> QED
    BY <1>5, <2>2, <2>6 DEF ParseAtom, OutOfBounds, v
<1>6. CASE x.kind = "alleach"
  <2>1. v \in RangeValues(f, Low[f], High[f], x.inc) <=> Around(f, v, Low[f], High[f], x.inc)
    BY <1>1, RangeIsRight DEF v
  <2> QED
    BY <1>6, <2>1 DEF ParseAtom, AtomMeans, OutOfBounds, v
<1> QED
  BY <1>2, <1>3, <1>4, <1>5, <1>6 DEF Static, v

-----------------------------------------------------------------------------
\* The atoms that the editor and CronExpression write themselves.
LEMMA AtomIsAtom ==
  /\ All \in Atoms
  /\ \A kind \in Kinds, a, b, inc \in Numbers :
       kind \notin {"all", "nth"} => Atom(kind, a, b, inc) \in Atoms
<1>1. 0 \in Numbers /\ 1 \in Numbers /\ "all" \in Kinds
  BY NumbersAreNat DEF Kinds
<1>2. \A kind \in Kinds, a, b, inc \in Numbers :
        Atom(kind, a, b, inc) \in AnyAtom /\ Atom(kind, a, b, inc).kind = kind
  BY DEF Atom, AnyAtom
<1>3. All \in AnyAtom /\ All.kind = "all"
  BY <1>1, <1>2 DEF All
<1>4. Written(All)
  BY <1>3 DEF Written
<1>5. ASSUME NEW x \in AnyAtom, x.kind \notin {"all", "nth"}
      PROVE  x \in Atoms
  <2>1. Written(x)
    BY <1>5 DEF Written
  <2> QED
    BY <2>1 DEF Atoms, AnyAtom
<1> QED
  BY <1>2, <1>3, <1>4, <1>5 DEF Atoms, AnyAtom

\* The values of a date, but for its year, are in the ranges of their fields.
LEMMA ValuesInRange ==
  ASSUME NEW f \in Fields, NEW date \in Date
  PROVE  ValueOf(date, f) \in Int /\ (f # "Year" => ValueOf(date, f) \in Low[f]..High[f])
<1> USE DateFacts DEF ValueOf, Low, High
<1>1. CASE f = "Minute"
  BY <1>1
<1>2. CASE f = "Hour"
  BY <1>2
<1>3. CASE f = "DayOfMonth"
  BY <1>3
<1>4. CASE f = "Month"
  BY <1>4
<1>5. CASE f = "DayOfWeek"
  BY <1>5
<1>6. CASE f = "Year"
  BY <1>6
<1> QED
  BY ONLY SixFields, <1>1, <1>2, <1>3, <1>4, <1>5, <1>6

\* An atom that CronExpression reads is found true when the editor says so.
LEMMA AtomIsRight ==
  ASSUME NEW f \in Fields, NEW x \in Atoms, NEW date \in Date,
         Special(x) \/ ~ OutOfBounds(f, x), ~ MisreadAtom(f, x),
         x.kind # "any", x.kind = "all" => f # "Year"
  PROVE  /\ ~ HitRaises(f, x)
         /\ AtomMeans(f, x, date) <=> ValueOf(date, f) \in ParseAtom(f, x) \/ Hits(f, x, date)
<1>1. ~ HitRaises(f, x)
  BY DEF HitRaises, MisreadAtom
<1>2. CASE Static(x)
  <2>1. ~ Hits(f, x, date)
    BY <1>2 DEF Static, Hits
  <2>2. ~ Special(x)
    BY <1>2 DEF Static, Special
  <2> QED
    BY <1>1, <1>2, <2>1, <2>2, ValuesInRange, StaticIsRight
<1>3. CASE ~ Static(x)
  <2>1. ParseAtom(f, x) = {}
    BY <1>3 DEF ParseAtom, Static
  <2>2. CASE f = "DayOfMonth" /\ x.kind = "weekday"
    <3>1. x.a \in 1..31
      BY <2>2 DEF MisreadAtom, Low, High
    <3> QED
      BY <1>1, <2>1, <2>2, <3>1, WeekdayIsRight
  <2>3. CASE f = "DayOfWeek" /\ x.kind = "lastof"
    <3>1. x.a \in 0..6
      BY <2>3 DEF MisreadAtom, Low, High
    <3> QED
      BY <1>1, <2>1, <2>3, <3>1, LastOfIsRight
  <2>4. CASE f = "DayOfWeek" /\ x.kind = "nth"
    <3>1. x.a \in 0..6
      BY <2>4 DEF MisreadAtom, Low, High
    <3>2. x.b \in 0..9
      BY <2>4, AtomType, NumbersAreNat DEF Written
    <3> QED
      BY <1>1, <2>1, <2>4, <3>1, <3>2, NthIsRight
  <2>5. CASE f = "DayOfMonth" /\ x.kind = "last"
    BY <1>1, <2>1, <2>5 DEF Hits, AtomMeans, ValueOf
  <2>6. CASE ~ (f = "DayOfMonth" /\ x.kind \in {"weekday", "last"})
             /\ ~ (f = "DayOfWeek" /\ x.kind \in {"lastof", "nth"})
    <3>1. ~ Hits(f, x, date)
      BY <2>6 DEF Hits, MisreadAtom
    <3>2. ~ AtomMeans(f, x, date)
      BY <1>3, <2>6 DEF AtomMeans, Static
    <3> QED
      BY <1>1, <2>1, <3>1, <3>2
  <2> QED
    BY <2>2, <2>3, <2>4, <2>5, <2>6
<1> QED
  BY <1>2, <1>3

\* The field of a rule that CronExpression reads.
Reads(tab, f) ==
  \A k \in DOMAIN tab[f] :
    LET x == tab[f][k] IN
    /\ Special(x) \/ ~ OutOfBounds(f, x)
    /\ ~ MisreadAtom(f, x)
    /\ x.kind \notin {"word", "any", "empty"}
    /\ Len(tab[f]) > 1 => x # All

Says(tab, f, date) == \E k \in DOMAIN tab[f] : AtomMeans(f, tab[f][k], date)

\* A field is found true when the editor says so.  Not compared are every year, and
\* every day of the month when there is a day of the week.
LEMMA FieldIsRight ==
  ASSUME NEW tab \in [Fields -> Field], NEW f \in Fields, NEW date \in Date, Reads(tab, f),
         ~ (f = "Year" /\ tab[f] = <<All>>),
         ~ (f = "DayOfMonth" /\ tab[f] = <<All>> /\ tab["DayOfWeek"] # <<All>>)
  PROVE  FieldMatches(tab, f, date) = IF Says(tab, f, date) THEN "yes" ELSE "no"
<1> DEFINE field == tab[f]
           hits == {k \in DOMAIN field : Hits(f, field[k], date)}
           v == ValueOf(date, f)
<1>1. field \in Seq(Atoms) /\ Len(field) \in Nat /\ DOMAIN field = 1..Len(field)
      /\ \A k \in DOMAIN field : field[k] \in Atoms
  <2>1. field \in Seq(Atoms)
    BY DEF Field
  <2> HIDE DEF field
  <2> QED
    BY <2>1
<1>2. \A k \in DOMAIN field : field[k].kind = "all" => f # "Year"
  <2> SUFFICES ASSUME NEW k \in DOMAIN field, field[k].kind = "all", f = "Year"
               PROVE  FALSE
    OBVIOUS
  <2>1. field[k] = All
    BY <1>1, AtomType DEF Written
  <2>2. Len(field) = 1
    BY <1>1, <2>1 DEF Reads
  <2>3. field = <<All>>
    <3> HIDE DEF field
    <3> QED
      BY <1>1, <2>1, <2>2
  <2> QED
    BY <2>3
<1>3. \A k \in DOMAIN field :
        /\ ~ HitRaises(f, field[k])
        /\ AtomMeans(f, field[k], date) <=> v \in ParseAtom(f, field[k]) \/ Hits(f, field[k], date)
  BY <1>1, <1>2, AtomIsRight DEF Reads
<1>4. NumTab(tab, f) = UNION {ParseAtom(f, field[k]) : k \in DOMAIN field}
  BY DEF NumTab
<1>5. FieldMatches(tab, f, date) = IF v \in NumTab(tab, f) \/ hits # {} THEN "yes" ELSE "no"
  <2>1. {k \in DOMAIN field : HitRaises(f, field[k])} = {}
    BY <1>3
  <2> QED
    BY <2>1, Zenon DEF FieldMatches
<1>6. v \in NumTab(tab, f) \/ hits # {} <=> \E k \in DOMAIN field : AtomMeans(f, field[k], date)
  <2> HIDE DEF field, v
  <2> QED
    BY <1>3, <1>4
<1> QED
  BY <1>5, <1>6 DEF Says

-----------------------------------------------------------------------------
\* dow.replace: no number grows, and the digits stay.
LEMMA SevensIsLess ==
  ASSUME NEW n \in Numbers
  PROVE  Sevens(n) \in Numbers /\ Sevens(n) <= n
<1>1. n \in Nat
  BY NumbersAreNat
<1>2. Sevens(n) \in Nat /\ Sevens(n) <= n
  BY ONLY <1>1, SMTT(30) DEF Sevens
<1> QED
  BY <1>1, <1>2, NumbersAreNat

\* The numbers of an atom may be changed.
Changed(x, a, b, inc) == [x EXCEPT !.a = a, !.b = b, !.inc = inc]

LEMMA ChangedIsAtom ==
  ASSUME NEW x \in AnyAtom, NEW a \in Numbers, NEW b \in Numbers, NEW inc \in Numbers
  PROVE  /\ Changed(x, a, b, inc) \in AnyAtom
         /\ Changed(x, a, b, inc).kind = x.kind
         /\ Changed(x, a, b, inc).a = a
         /\ Changed(x, a, b, inc).b = b
         /\ a = x.a /\ b = x.b /\ inc = x.inc => Changed(x, a, b, inc) = x
BY DEF Changed, AnyAtom

LEMMA NormalIsAtom ==
  ASSUME NEW f \in Fields, NEW x \in Atoms
  PROVE  NormalAtom(f, x) \in Atoms
<1> DEFINE y == Changed(x, Sevens(x.a), Sevens(x.b), Sevens(x.inc))
<1>1. /\ y \in AnyAtom /\ y.kind = x.kind /\ y.a = Sevens(x.a) /\ y.b = Sevens(x.b)
      /\ Sevens(x.a) = x.a /\ Sevens(x.b) = x.b /\ Sevens(x.inc) = x.inc => y = x
  <2>1. x \in AnyAtom /\ Sevens(x.a) \in Numbers /\ Sevens(x.b) \in Numbers /\ Sevens(x.inc) \in Numbers
    BY AtomType, SevensIsLess
  <2> DEFINE a == Sevens(x.a)
             b == Sevens(x.b)
             inc == Sevens(x.inc)
  <2> HIDE DEF a, b, inc
  <2>2. /\ Changed(x, a, b, inc) \in AnyAtom
        /\ Changed(x, a, b, inc).kind = x.kind
        /\ Changed(x, a, b, inc).a = a
        /\ Changed(x, a, b, inc).b = b
        /\ a = x.a /\ b = x.b /\ inc = x.inc => Changed(x, a, b, inc) = x
    <3>1. a \in Numbers /\ b \in Numbers /\ inc \in Numbers
      BY <2>1 DEF a, b, inc
    <3> QED
      BY <2>1, <3>1, ChangedIsAtom
  <2> QED
    BY <2>2 DEF a, b, inc
<1> HIDE DEF y
<1>2. y \in Atoms
  <2>1. CASE x.kind = "all"
    <3>1. x.a = 0 /\ x.b = 0 /\ x.inc = 1
      BY <2>1, AtomType DEF Written, All, Atom
    <3>2. Sevens(0) = 0 /\ Sevens(1) = 1
      BY DEF Sevens
    <3> QED
      BY <3>1, <3>2, <1>1
  <2>2. CASE x.kind # "all"
    <3>1. x.kind = "nth" => x.a <= 9 /\ x.b <= 9
      BY AtomType DEF Written
    <3>2. /\ Sevens(x.a) <= x.a /\ Sevens(x.a) \in Nat /\ x.a \in Nat
          /\ Sevens(x.b) <= x.b /\ Sevens(x.b) \in Nat /\ x.b \in Nat
      BY AtomType, SevensIsLess, NumbersAreNat
    <3>3. x.kind = "nth" => Sevens(x.a) <= 9 /\ Sevens(x.b) <= 9
      BY <3>1, <3>2
    <3>4. Written(y)
      BY <1>1, <2>2, <3>3 DEF Written
    <3> QED
      BY <1>1, <3>4 DEF Atoms, AnyAtom
  <2> QED
    BY <2>1, <2>2
<1> QED
  BY <1>2, AtomIsAtom DEF NormalAtom, Changed, y

\* The fields of an expression are made of atoms.
LEMMA TabType ==
  ASSUME NEW t \in Seq(Field), t # Dawn, ~ Raises(t)
  PROVE  StringTab(t) \in [Fields -> Field]
<1> DEFINE text == Substituted(t)
<1>1. Num(0) \in Atoms /\ All \in Atoms
  BY AtomIsAtom, NumbersAreNat DEF Num, Kinds
<1>2. <<Num(0)>> \in Field /\ <<All>> \in Field
  BY <1>1 DEF Field
<1>3. text \in Seq(Field)
  BY <1>2 DEF Substituted
<1>4. Len(text) \in Nat /\ Len(text) >= 5
  BY <1>3 DEF Raises
<1> HIDE DEF text
<1>5. DOMAIN text = 1..Len(text) /\ \A i \in 1..Len(text) : text[i] \in Field
  BY <1>3
<1> SUFFICES ASSUME NEW f \in Fields PROVE StringTab(t)[f] \in Field
  BY DEF StringTab
<1>6. PICK i \in 1..6 : FieldNames[i] = f /\ (CHOOSE j \in 1..6 : FieldNames[j] = f) = i
  BY SixFields
<1>7. StringTab(t)[f] =
        IF i = 6 /\ (Len(text) < 6 \/ ~ IsYears(text[6])) THEN <<All>>
        ELSE [k \in DOMAIN text[i] |-> NormalAtom(f, text[i][k])]
  BY <1>6 DEF StringTab, text
<1>8. CASE i = 6 /\ (Len(text) < 6 \/ ~ IsYears(text[6]))
  BY <1>2, <1>7, <1>8
<1>9. CASE ~ (i = 6 /\ (Len(text) < 6 \/ ~ IsYears(text[6])))
  <2> DEFINE field == text[i]
             normal == [k \in DOMAIN field |-> NormalAtom(f, field[k])]
  <2>1. field \in Seq(Atoms) /\ field # <<>>
    BY <1>4, <1>5, <1>9 DEF Field
  <2>2. StringTab(t)[f] = normal
    BY <1>7, <1>9
  <2> HIDE DEF field
  <2>3. Len(field) \in Nat \ {0} /\ DOMAIN field = 1..Len(field) /\ \A k \in 1..Len(field) : field[k] \in Atoms
    BY <2>1
  <2>4. normal \in [1..Len(field) -> Atoms]
    BY <2>3, NormalIsAtom
  <2>5. normal \in Seq(Atoms) /\ Len(normal) = Len(field)
    <3> HIDE DEF normal
    <3> QED
      BY <2>3, <2>4
  <2>6. normal # <<>>
    BY <2>3, <2>5
  <2> QED
    BY <2>2, <2>5, <2>6 DEF Field
<1> QED
  BY <1>8, <1>9

-----------------------------------------------------------------------------
\* For every rule that is taken and not misread, and for every date, the rule matches
\* the date (CronExpression.check_trigger) if and only if the labels and menus of its
\* blocks say so (blockly_cron_edit.js).
THEOREM RulesAreRight ==
  ASSUME NEW t \in Seq(Field), t # Dawn, NEW date \in Date,
         ~ Raises(t), IsValidate(t), ~ IsMisread(t)
  PROVE  CheckTrigger(t, date) = IF Means(t, date) THEN "yes" ELSE "no"
<1> DEFINE tab == StringTab(t)
           is(f) == FieldMatches(tab, f, date)
           says(f) == Says(tab, f, date)
<1>1. tab \in [Fields -> Field]
  BY TabType
<1>2. \A f \in Fields : Reads(tab, f)
  <2> SUFFICES ASSUME NEW f \in Fields, NEW k \in DOMAIN tab[f]
               PROVE  LET x == tab[f][k] IN
                      /\ Special(x) \/ ~ OutOfBounds(f, x)
                      /\ ~ MisreadAtom(f, x)
                      /\ x.kind \notin {"word", "any", "empty"}
                      /\ Len(tab[f]) > 1 => x # All
    BY DEF Reads
  <2>1. Special(tab[f][k]) \/ ~ OutOfBounds(f, tab[f][k])
    BY DEF IsValidate
  <2>2. ~ MisreadAtom(f, tab[f][k])
    BY DEF IsMisread
  <2>3. tab[f][k].kind \notin {"word", "any", "empty"} /\ (Len(tab[f]) > 1 => tab[f][k] # All)
    BY DEF Raises
  <2> QED
    BY <2>1, <2>2, <2>3
<1>3. tab["Year"] # <<All>> /\ tab["DayOfMonth"] # <<All>> => tab["DayOfWeek"] = <<All>>
  BY DEF IsMisread
<1>4. CheckTrigger(t, date) =
        IF is("Minute") # "yes" THEN is("Minute")
        ELSE IF is("Hour") # "yes" THEN is("Hour")
        ELSE IF is("DayOfMonth") = "raise" THEN "raise"
        ELSE IF is("DayOfMonth") # "yes" /\ tab["DayOfWeek"] = <<All>> THEN "no"
        ELSE IF is("Month") # "yes" THEN is("Month")
        ELSE IF is("DayOfWeek") = "raise" THEN "raise"
        ELSE IF is("DayOfWeek") = "no"
        THEN IF tab["DayOfMonth"] # <<All>> /\ is("DayOfMonth") = "yes" THEN "yes" ELSE "no"
        ELSE IF tab["Year"] = <<All>> THEN "yes" ELSE is("Year")
  BY DEF CheckTrigger
<1>5. Means(t, date) <=>
        /\ says("Minute") /\ says("Hour") /\ says("Month") /\ says("Year")
        /\ IF tab["DayOfMonth"] = <<All>> \/ tab["DayOfWeek"] = <<All>>
           THEN says("DayOfMonth") /\ says("DayOfWeek")
           ELSE says("DayOfMonth") \/ says("DayOfWeek")
  <2>1. \A f \in Fields : tab[f] # <<NoSpecific>>
    BY <1>2 DEF Reads, NoSpecific, Atom
  <2> QED
    BY <2>1, SixFields DEF Means, Says
<1>6. \A f \in Fields : tab[f] = <<All>> => says(f)
  BY DEF Says, AtomMeans, All, Atom
<1>7. \A f \in Fields \ {"DayOfMonth", "Year"} : is(f) = IF says(f) THEN "yes" ELSE "no"
  BY <1>1, <1>2, FieldIsRight
<1>8. tab["Year"] # <<All>> => is("Year") = IF says("Year") THEN "yes" ELSE "no"
  BY <1>1, <1>2, FieldIsRight, SixFields
<1>9. tab["DayOfMonth"] # <<All>> \/ tab["DayOfWeek"] = <<All>> =>
        is("DayOfMonth") = IF says("DayOfMonth") THEN "yes" ELSE "no"
  BY <1>1, <1>2, FieldIsRight, SixFields
<1>10. tab["DayOfMonth"] = <<All>> /\ tab["DayOfWeek"] # <<All>> => is("DayOfMonth") = "no"
  <2> SUFFICES ASSUME tab["DayOfMonth"] = <<All>>, tab["DayOfWeek"] # <<All>>
               PROVE  is("DayOfMonth") = "no"
    OBVIOUS
  <2>1. NumTab(tab, "DayOfMonth") = {}
    BY DEF NumTab
  <2>2. \A k \in DOMAIN tab["DayOfMonth"] :
          /\ ~ Hits("DayOfMonth", tab["DayOfMonth"][k], date)
          /\ ~ HitRaises("DayOfMonth", tab["DayOfMonth"][k])
    BY DEF Hits, HitRaises, All, Atom
  <2> QED
    BY <2>1, <2>2 DEF FieldMatches
<1>11. \A f \in {"Minute", "Hour", "Month", "DayOfWeek"} : is(f) = IF says(f) THEN "yes" ELSE "no"
  BY <1>7, SixFields
<1> HIDE DEF tab, is, says
<1> QED
  BY <1>3, <1>4, <1>5, <1>6, <1>8, <1>9, <1>10, <1>11, SixFields

-----------------------------------------------------------------------------
\* The dates of the calendar, and others.
AnyDate == [Minute : 0..59, Hour : 0..23, DayOfMonth : 1..31, Month : 1..12, Year : Nat]

LEMMA DateIf ==
  ASSUME NEW d \in AnyDate, d.DayOfMonth <= LastDom(d)
  PROVE  d \in Date
BY DEF Date, AnyDate

LEMMA LastDays == \A y \in Nat, m \in 1..12 : LastDay(y, m) \in 28..31
BY SMT DEF LastDay

LEMMA NextDayIsDate ==
  ASSUME NEW d \in Date
  PROVE  NextDay(d) \in Date
<1>1. /\ d \in AnyDate /\ d.DayOfMonth \in 1..31 /\ d.Month \in 1..12 /\ d.Year \in Nat
      /\ LastDom(d) \in 28..31
  BY LastDays DEF Date, AnyDate, LastDom
<1>2. CASE d.DayOfMonth < LastDom(d)
  <2> DEFINE k == d.DayOfMonth + 1
             e == [d EXCEPT !.DayOfMonth = k]
  <2>1. k \in 1..31 /\ k <= LastDom(d)
    BY <1>1, <1>2
  <2>2. NextDay(d) = e
    BY <1>2 DEF NextDay
  <2> HIDE DEF k
  <2>3. e \in AnyDate /\ e.DayOfMonth = k /\ e.Month = d.Month /\ e.Year = d.Year
    BY <1>1, <2>1 DEF AnyDate
  <2> HIDE DEF e
  <2> QED
    BY <2>1, <2>2, <2>3, DateIf DEF LastDom
<1>3. CASE ~ (d.DayOfMonth < LastDom(d)) /\ d.Month < 12
  <2> DEFINE m == d.Month + 1
             e == [d EXCEPT !.DayOfMonth = 1, !.Month = m]
  <2>1. m \in 1..12
    BY <1>1, <1>3
  <2>2. NextDay(d) = e
    BY <1>3 DEF NextDay
  <2> HIDE DEF m
  <2>3. e \in AnyDate /\ e.DayOfMonth = 1 /\ e.Month = m /\ e.Year = d.Year
    <3>1. \A k \in 1..31 :
            /\ [d EXCEPT !.DayOfMonth = k, !.Month = m] \in AnyDate
            /\ [d EXCEPT !.DayOfMonth = k, !.Month = m].DayOfMonth = k
            /\ [d EXCEPT !.DayOfMonth = k, !.Month = m].Month = m
            /\ [d EXCEPT !.DayOfMonth = k, !.Month = m].Year = d.Year
      BY <1>1, <2>1 DEF AnyDate
    <3> QED
      BY <3>1
  <2> HIDE DEF e
  <2>4. LastDom(e) \in 28..31
    BY <1>1, <2>1, <2>3, LastDays DEF LastDom
  <2> QED
    BY <2>2, <2>3, <2>4, DateIf
<1>4. CASE ~ (d.DayOfMonth < LastDom(d)) /\ ~ (d.Month < 12)
  <2> DEFINE y == d.Year + 1
             e == [d EXCEPT !.DayOfMonth = 1, !.Month = 1, !.Year = y]
  <2>1. y \in Nat
    BY <1>1
  <2>2. NextDay(d) = e
    BY <1>4 DEF NextDay
  <2> HIDE DEF y
  <2>3. e \in AnyDate /\ e.DayOfMonth = 1 /\ e.Month = 1 /\ e.Year = y
    <3>1. \A k \in 1..31, m \in 1..12 :
            /\ [d EXCEPT !.DayOfMonth = k, !.Month = m, !.Year = y] \in AnyDate
            /\ [d EXCEPT !.DayOfMonth = k, !.Month = m, !.Year = y].DayOfMonth = k
            /\ [d EXCEPT !.DayOfMonth = k, !.Month = m, !.Year = y].Month = m
            /\ [d EXCEPT !.DayOfMonth = k, !.Month = m, !.Year = y].Year = y
      BY <1>1, <2>1 DEF AnyDate
    <3> QED
      BY <3>1
  <2> HIDE DEF e
  <2>4. LastDom(e) \in 28..31
    BY <2>1, <2>3, LastDays DEF LastDom
  <2> QED
    BY <2>2, <2>3, <2>4, DateIf
<1> QED
  BY <1>2, <1>3, <1>4

\* The clock goes from a date to a date.
LEMMA NextMinuteIsDate ==
  ASSUME NEW d \in Date
  PROVE  NextMinute(d) \in Date
<1>1. d \in AnyDate /\ d.Minute \in 0..59 /\ d.Hour \in 0..23 /\ d.DayOfMonth <= LastDom(d)
  BY DEF Date, AnyDate
<1>2. ASSUME NEW n \in 0..59, NEW h \in 0..23
      PROVE  [d EXCEPT !.Minute = n, !.Hour = h] \in Date
  <2> DEFINE e == [d EXCEPT !.Minute = n, !.Hour = h]
  <2>1. e \in AnyDate /\ e.DayOfMonth = d.DayOfMonth /\ e.Month = d.Month /\ e.Year = d.Year
    BY <1>1 DEF AnyDate
  <2> HIDE DEF e
  <2>2. e \in Date
    BY <1>1, <2>1, DateIf DEF LastDom
  <2> QED
    BY <2>2 DEF e
<1>3. ASSUME NEW n \in 0..59
      PROVE  [d EXCEPT !.Minute = n] \in Date
  <2> DEFINE e == [d EXCEPT !.Minute = n]
  <2>1. e \in AnyDate /\ e.DayOfMonth = d.DayOfMonth /\ e.Month = d.Month /\ e.Year = d.Year
    BY <1>1 DEF AnyDate
  <2> HIDE DEF e
  <2>2. e \in Date
    BY <1>1, <2>1, DateIf DEF LastDom
  <2> QED
    BY <2>2 DEF e
<1>4. CASE d.Minute < 59
  <2>1. d.Minute + 1 \in 0..59
    BY <1>1, <1>4
  <2> QED
    BY <1>3, <1>4, <2>1 DEF NextMinute
<1>5. CASE ~ (d.Minute < 59) /\ d.Hour < 23
  <2>1. d.Hour + 1 \in 0..23 /\ 0 \in 0..59
    BY <1>1, <1>5
  <2> QED
    BY <1>2, <1>5, <2>1 DEF NextMinute
<1>6. CASE ~ (d.Minute < 59) /\ ~ (d.Hour < 23)
  <2>1. 0 \in 0..23 /\ 0 \in 0..59
    OBVIOUS
  <2> QED
    BY <1>2, <1>6, <2>1, NextDayIsDate DEF NextMinute
<1> QED
  BY <1>4, <1>5, <1>6

=============================================================================
