---------------------------- MODULE CronExpression ----------------------------
(***************************************************************************)
(* Cron expressions (common/cron.py): what an expression means to          *)
(* CronExpression, and what the blocks of the editor on the administration *)
(* pages say with their labels and menus.                                  *)
(*                                                                         *)
(* A text is the sequence of its fields, a field is the sequence of its    *)
(* atoms, and an atom is the form it has with its numbers:                 *)
(*   all "*"   any "?"   num "a"   range "a-b/inc"   each "a/inc"          *)
(*   alleach "*" and "/inc"   last "L"   lastof "aL"   weekday "aW"        *)
(*   nth "a#b"   period "%a"   word letters   empty nothing                *)
(* Names of days and months are their numbers, a number has no leading     *)
(* zeros, and the rules of the menus (@daily, @dawn) stand alone.          *)
(***************************************************************************)
EXTENDS Integers, Sequences

FieldNames == <<"Minute", "Hour", "DayOfMonth", "Month", "DayOfWeek", "Year">>
Fields == {FieldNames[i] : i \in 1..6}

\* FIELD_RANGES.
Low == [Minute |-> 0, Hour |-> 0, DayOfMonth |-> 1, Month |-> 1, DayOfWeek |-> 0, Year |-> 2016]
High == [Minute |-> 59, Hour |-> 23, DayOfMonth |-> 31, Month |-> 12, DayOfWeek |-> 6, Year |-> 2200]

Atom(kind, a, b, inc) == [kind |-> kind, a |-> a, b |-> b, inc |-> inc]
All == Atom("all", 0, 0, 1)
NoSpecific == Atom("any", 0, 0, 1)
LastAtom == Atom("last", 0, 0, 1)
Num(a) == Atom("num", a, 0, 1)
FromTo(a, b) == Atom("range", a, b, 1)
FromToEach(a, b, inc) == Atom("range", a, b, inc)
Each(a, inc) == Atom("each", a, 0, inc)
AllEach(inc) == Atom("alleach", 0, 0, inc)
LastOf(a) == Atom("lastof", a, 0, 1)
Weekday(a) == Atom("weekday", a, 0, 1)
Nth(a, n) == Atom("nth", a, n, 1)
Empty == Atom("empty", 0, 0, 1)
Daily == <<<<Atom("@daily", 0, 0, 1)>>>>
Dawn == <<<<Atom("@dawn", 0, 0, 1)>>>>

\* The forms of atoms, and those of two blocks of the editor that are none.
Kinds == {"all", "any", "num", "range", "each", "alleach", "last", "lastof", "weekday", "nth",
          "period", "word", "empty", "@daily", "@dawn", "hole", "weekend"}

\* The numbers of a text have four digits at most, and those of a#b one.
Largest == 9999
Numbers == 0..Largest
Written(x) == /\ x.kind = "all" => x = All
              /\ x.kind = "nth" => x.a <= 9 /\ x.b <= 9
Atoms == {x \in [kind : Kinds, a : Numbers, b : Numbers, inc : Numbers] : Written(x)}
Field == {field \in Seq(Atoms) : field # <<>>}

-----------------------------------------------------------------------------
(* The calendar (datetime and calendar of Python).                         *)

IsLeap(y) == y % 4 = 0 /\ (y % 100 # 0 \/ y % 400 = 0)

LastDay(y, m) == IF m = 2 THEN (IF IsLeap(y) THEN 29 ELSE 28)
                 ELSE IF m \in {4, 6, 9, 11} THEN 30 ELSE 31

DaysBefore == <<0, 31, 59, 90, 120, 151, 181, 212, 243, 273, 304, 334>>

\* Days since the epoch 1970-1-1, a Thursday.
DayNumber(y, m, d) ==
  365 * (y - 1970) + ((y - 1969) \div 4) - ((y - 1901) \div 100) + ((y - 1601) \div 400)
    + DaysBefore[m] + (IF m > 2 /\ IsLeap(y) THEN 1 ELSE 0) + d - 1

\* A date has the fields of a rule, but for its DayOfWeek, where Sunday is 0.
DayOfWeek(date) == (DayNumber(date.Year, date.Month, date.DayOfMonth) + 4) % 7
ValueOf(date, f) == IF f = "DayOfWeek" THEN DayOfWeek(date) ELSE date[f]

LastDom(date) == LastDay(date.Year, date.Month)

Date == {d \in [Minute : 0..59, Hour : 0..23, DayOfMonth : 1..31, Month : 1..12, Year : Nat] :
           d.DayOfMonth <= LastDom(d)}

\* The day of the week of the first of the month.
FirstDow(date) == (DayOfWeek(date) + 1 - date.DayOfMonth) % 7

NextDay(date) ==
  IF date.DayOfMonth < LastDom(date) THEN [date EXCEPT !.DayOfMonth = @ + 1]
  ELSE IF date.Month < 12 THEN [date EXCEPT !.DayOfMonth = 1, !.Month = @ + 1]
  ELSE [date EXCEPT !.DayOfMonth = 1, !.Month = 1, !.Year = @ + 1]

NextMinute(date) ==
  IF date.Minute < 59 THEN [date EXCEPT !.Minute = @ + 1]
  ELSE IF date.Hour < 23 THEN [date EXCEPT !.Minute = 0, !.Hour = @ + 1]
  ELSE NextDay([date EXCEPT !.Minute = 0, !.Hour = 0])

-----------------------------------------------------------------------------
(* CronExpression.__init__ and compute_numtab.                             *)

\* dow.replace('7', '0'): every digit 7 of the field becomes a 0.
Sevens(n) ==
  LET cut(p) == IF (n \div p) % 10 = 7 THEN 7 * p ELSE 0
  IN n - cut(1) - cut(10) - cut(100) - cut(1000)

NormalAtom(f, x) ==
  IF x.kind = "any" /\ f \in {"DayOfMonth", "DayOfWeek"} THEN All
  ELSE IF f = "DayOfWeek"
  THEN [x EXCEPT !.a = Sevens(@), !.b = Sevens(@), !.inc = Sevens(@)]
  ELSE x

\* SUBSTITUTIONS.
Substituted(text) == IF text = Daily THEN <<<<Num(0)>>, <<Num(0)>>, <<All>>, <<All>>, <<All>>>> ELSE text

\* The sixth field looks like years, right or wrong; anything else, a digit alone
\* among it, begins a comment, and so does what follows the years.
IsYears(field) ==
  \/ field = <<All>>
  \/ /\ \A k \in DOMAIN field : field[k].kind \in {"num", "range", "each"}
     /\ \A a \in 0..9 : field # <<Num(a)>>

\* string_tab: without years, every year.
StringTab(line) ==
  LET text == Substituted(line) IN
  [f \in Fields |->
     LET i == CHOOSE i \in 1..6 : FieldNames[i] = f IN
     IF i = 6 /\ (Len(text) < 6 \/ ~ IsYears(text[6])) THEN <<All>>
     ELSE [k \in DOMAIN text[i] |-> NormalAtom(f, text[i][k])]]

Special(x) == x.kind \in {"last", "lastof", "weekday", "nth", "period"}

\* The values from a to b, or from a on and again from the first value to b when b
\* is not above a, each inc-th of them.  A step of 0 raises, and the error is
\* swallowed.
RangeValues(f, a, b, inc) ==
  IF inc = 0 THEN {}
  ELSE IF a < b THEN {v \in a..b : (v - a) % inc = 0}
  ELSE LET n == IF a <= High[f] THEN High[f] - a + 1 ELSE 0 IN
       {v \in a..High[f] : (v - a) % inc = 0}
         \cup {Low[f] + k : k \in {j \in 0..(b - Low[f]) : (n + j) % inc = 0}}

\* _parse_atom finds the bounds of the atom to be wrong.
OutOfBounds(f, x) ==
  \/ x.kind = "num" /\ x.a \notin Low[f]..High[f]
  \/ x.kind = "range" /\ (x.a < Low[f] \/ x.b > High[f])

\* _parse_atom.
ParseAtom(f, x) ==
  IF OutOfBounds(f, x) THEN {}
  ELSE IF x.kind = "all" THEN Low[f]..High[f]
  ELSE IF x.kind = "num" THEN {x.a}
  ELSE IF x.kind = "range" THEN RangeValues(f, x.a, x.b, x.inc)
  ELSE IF x.kind = "each" THEN RangeValues(f, x.a, x.a, x.inc)
  ELSE IF x.kind = "alleach" THEN RangeValues(f, Low[f], High[f], x.inc)
  ELSE {}

\* numerical_tab of the fields whose values do not depend on the date.
NumTab(tab, f) ==
  IF \/ f = "Year" /\ tab[f] = <<All>>
     \/ f = "DayOfMonth" /\ tab[f] = <<All>> /\ tab["DayOfWeek"] # <<All>>
  THEN {}
  ELSE UNION {ParseAtom(f, tab[f][k]) : k \in DOMAIN tab[f]}

\* The constructor raises: less than five fields, * with other atoms, a word.
Raises(line) ==
  LET text == Substituted(line) IN
  line # Dawn /\ (Len(text) < 5 \/
  \E f \in Fields : LET field == StringTab(line)[f] IN
       \/ Len(field) > 1 /\ \E k \in DOMAIN field : field[k] = All
       \/ \E k \in DOMAIN field : field[k].kind \in {"word", "any", "empty"})

\* isValidate.
IsValidate(text) == text = Dawn \/
  \A f \in Fields : LET field == StringTab(text)[f] IN
    \A k \in DOMAIN field : Special(field[k]) \/ ~ OutOfBounds(f, field[k])

-----------------------------------------------------------------------------
(* _check_trigger_normal.                                                  *)

\* aW: the weekday that is nearest to the day a.
NearestWeekday(a, last_dom, first_dow) ==
  LET target == IF a < last_dom THEN a ELSE last_dom
      lands_on == (first_dow + target - 1) % 7
  IN IF lands_on = 0 THEN target + (IF target < last_dom THEN 1 ELSE -2)
     ELSE IF lands_on = 6 THEN target + (IF target > 1 THEN -1 ELSE 2)
     ELSE target

\* Mutant: the last week of the month may be the fourth one.
LastDowFifth(a, last_dom, first_dow) == ((a - first_dow) % 7) + 29

\* aL: the last day a of the month.
LastDow(a, last_dom, first_dow) ==
  LET target == ((a - first_dow) % 7) + 29
  IN IF target > last_dom THEN target - 7 ELSE target

\* a#n: the n-th day a of the month.
NthDow(a, n, first_dow) == ((a - first_dow) % 7) + 1 + 7 * (n - 1)

\* Time since the epoch in units of the field.
Delta(f, date) ==
  LET days == DayNumber(date.Year, date.Month, date.DayOfMonth)
      hours == days * 24 + date.Hour
  IN CASE f = "Minute" -> hours * 60 + date.Minute
       [] f = "Hour" -> hours
       [] f \in {"DayOfMonth", "DayOfWeek"} -> days
       [] f = "Month" -> (date.Year - 1970) * 12 + date.Month - 1
       [] f = "Year" -> date.Year - 1970

\* An atom of the field is true of the date.
Hits(f, x, date) ==
  \/ x.kind = "period" /\ x.a > 0 /\ Delta(f, date) % x.a = 0
  \/ f = "DayOfWeek" /\ x.kind = "nth" /\ NthDow(x.a, x.b, FirstDow(date)) = date.DayOfMonth
  \/ f = "DayOfMonth" /\ x.kind = "weekday"
       /\ LET target == NearestWeekday(x.a, LastDom(date), FirstDow(date))
          IN target = date.DayOfMonth /\ (FirstDow(date) + target - 7) % 7 > 1
  \/ f = "DayOfMonth" /\ x.kind \in {"last", "lastof"} /\ LastDom(date) = date.DayOfMonth
  \/ f = "DayOfWeek" /\ x.kind = "lastof"
       /\ LastDow(x.a, LastDom(date), FirstDow(date)) = date.DayOfMonth

\* int('') of the L alone in DayOfWeek, and a period of 0.
HitRaises(f, x) == (f = "DayOfWeek" /\ x.kind = "last") \/ (x.kind = "period" /\ x.a = 0)

\* The field matches, does not, or an atom before the first match raises.
FieldMatches(tab, f, date) ==
  LET hits == {k \in DOMAIN tab[f] : Hits(f, tab[f][k], date)}
      first == {k \in DOMAIN tab[f] : HitRaises(f, tab[f][k])}
  IN IF ValueOf(date, f) \in NumTab(tab, f) THEN "yes"
     ELSE IF \E k \in first : \A h \in hits : k < h THEN "raise"
     ELSE IF hits # {} THEN "yes" ELSE "no"

\* check_trigger of a valid expression (not of Dawn).  DayOfMonth and DayOfWeek are
\* alternatives when neither is *: then a day of the week that does not match
\* decides at once.
CheckTrigger(text, date) ==
  LET tab == StringTab(text)
      is(f) == FieldMatches(tab, f, date)
      dom_matched == is("DayOfMonth") = "yes"
  IN IF is("Minute") # "yes" THEN is("Minute")
     ELSE IF is("Hour") # "yes" THEN is("Hour")
     ELSE IF is("DayOfMonth") = "raise" THEN "raise"
     ELSE IF ~ dom_matched /\ tab["DayOfWeek"] = <<All>> THEN "no"
     ELSE IF is("Month") # "yes" THEN is("Month")
     ELSE IF is("DayOfWeek") = "raise" THEN "raise"
     ELSE IF is("DayOfWeek") = "no"
     THEN IF tab["DayOfMonth"] # <<All>> /\ dom_matched THEN "yes" ELSE "no"
     ELSE IF tab["Year"] = <<All>> THEN "yes" ELSE is("Year")

-----------------------------------------------------------------------------
(* What the editor says: the labels and menus of its blocks, in which the  *)
(* days of the week are those of the menu WEEKDAYS, from Sunday, 0, to     *)
(* Saturday, 6.  (The examples in the tooltips of L, aL, a#n and a/inc     *)
(* count from Sunday, 1, those of a and a-b as the menu does.)             *)

\* From a to b going round from the highest value to the lowest, each inc-th.
Around(f, v, a, b, inc) ==
  LET span == High[f] - Low[f] + 1 IN
  /\ v \in Low[f]..High[f]
  /\ (v - a) % span <= (b - a) % span
  /\ inc > 0 /\ ((v - a) % span) % inc = 0

IsWeekday(date, d) == (FirstDow(date) + d - 1) % 7 \notin {0, 6}

Distance(d, a) == IF d < a THEN a - d ELSE d - a

\* The weekday of the month nearest to the day a.
IsNearestWeekday(date, a) ==
  LET weekdays == {d \in 1..LastDom(date) : IsWeekday(date, d)} IN
  /\ date.DayOfMonth \in weekdays
  /\ \A d \in weekdays : Distance(date.DayOfMonth, a) <= Distance(d, a)

\* The block says that the field of the date is right.  "Starting from" a day of the
\* month and "Start in" a year name the first one; the others go round.  The special
\* atoms have blocks for the day of the month or of the week only.
AtomMeans(f, x, date) ==
  LET v == ValueOf(date, f) IN
  \/ x.kind \in {"all", "any"}
  \/ x.kind = "num" /\ v = x.a
  \/ x.kind = "range" /\ Around(f, v, x.a, x.b, x.inc)
  \/ x.kind = "each" /\ Around(f, v, x.a, x.a - 1, x.inc)
       /\ (f \in {"DayOfMonth", "Year"} => x.a <= v)
  \/ x.kind = "alleach" /\ Around(f, v, Low[f], High[f], x.inc)
  \/ f = "DayOfMonth" /\ x.kind = "last" /\ v = LastDom(date)
  \/ f = "DayOfMonth" /\ x.kind = "weekday" /\ IsNearestWeekday(date, x.a)
  \/ f = "DayOfWeek" /\ x.kind = "lastof" /\ v = x.a /\ date.DayOfMonth + 7 > LastDom(date)
  \/ f = "DayOfWeek" /\ x.kind = "nth" /\ v = x.a /\ (date.DayOfMonth + 6) \div 7 = x.b

\* The rule says that it triggers at the date: when both a day of the month and
\* a day of the week are given, on either.
Means(text, date) ==
  LET tab == StringTab(text)
      is(f) == \E k \in DOMAIN tab[f] : AtomMeans(f, tab[f][k], date)
      open(f) == tab[f] \in {<<All>>, <<NoSpecific>>}
  IN /\ is("Minute") /\ is("Hour") /\ is("Month") /\ is("Year")
     /\ IF open("DayOfMonth") \/ open("DayOfWeek") THEN is("DayOfMonth") /\ is("DayOfWeek")
        ELSE is("DayOfMonth") \/ is("DayOfWeek")

\* The atoms that CronExpression does not take for what the editor says they are: a
\* range that ends where it begins is the whole round, increments of days of the month
\* and of years go on before their start, and ranges of years before their end,
\* nobody compares the numbers of the special atoms nor the inner bounds of a range with
\* the values of the field, L is no day of the week and aL the last day of the month,
\* whatever a is.  The editor says nothing of periods.
MisreadAtom(f, x) ==
  LET out(v) == v \notin Low[f]..High[f] IN
  \/ x.kind = "range" /\ (x.a = x.b \/ out(x.a) \/ out(x.b))
  \/ x.kind = "each" /\ f \in {"DayOfMonth", "Year"} /\ x.a # Low[f]
  \/ x.kind = "range" /\ f = "Year" /\ x.a > x.b
  \/ x.kind \in {"each", "weekday", "lastof", "nth"} /\ out(x.a)
  \/ x.kind = "last" /\ f = "DayOfWeek"
  \/ x.kind = "lastof" /\ f = "DayOfMonth"
  \/ x.kind = "period"

\* ... and the years do not count when a day of the month and a day of the week are given.
IsMisread(t) ==
  LET tab == StringTab(t) IN
  \/ \E f \in Fields : \E k \in DOMAIN tab[f] : MisreadAtom(f, tab[f][k])
  \/ tab["Year"] # <<All>> /\ tab["DayOfMonth"] # <<All>> /\ tab["DayOfWeek"] # <<All>>

=============================================================================
