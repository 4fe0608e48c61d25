-------------------------------- MODULE MCCron --------------------------------
(* A small instance of CronRule: texts with atoms of every form, the days  *)
(* around the ends of months where the special days fall, and two edits    *)
(* after the first text.                                                   *)
EXTENDS CronRule

\* A rule of which one field is f.
With(i, field) == [j \in 1..(IF i = 6 THEN 6 ELSE 5) |-> IF j = i THEN field ELSE <<All>>]

Days(dom, dow) == <<<<All>>, <<All>>, dom, <<All>>, dow>>

MCTexts ==
  {With(1, <<Num(0), Num(59)>>), With(1, <<FromTo(58, 0)>>), With(1, <<Each(45, 7)>>),
   With(1, <<FromToEach(57, 2, 2)>>), With(1, <<AllEach(4)>>), With(3, <<LastAtom>>),
   With(3, <<Weekday(1)>>), With(3, <<Weekday(31), Num(1)>>), With(3, <<FromToEach(27, 31, 2)>>), With(4, <<Num(1), FromTo(11, 2)>>), With(5, <<Nth(6, 4)>>),
   With(5, <<LastOf(5)>>), With(5, <<LastAtom>>), With(5, <<Num(7)>>), With(5, <<FromTo(5, 1)>>),
   With(6, <<Num(2024)>>), With(6, <<Each(2016, 4)>>), With(6, <<Num(5)>>), With(3, <<Num(0)>>),
   Days(<<LastAtom>>, <<LastOf(0)>>), Days(<<NoSpecific>>, <<Each(1, 2)>>), Days(<<Weekday(31)>>, <<Num(1)>>),
   Days(<<Num(31)>>, <<LastAtom>>), Days(<<All, Num(1)>>, <<NoSpecific>>), <<<<Num(0)>>, <<Num(0)>>>>}

MCOptions ==
  [f \in Fields |->
     CASE f = "Minute" -> {<<>>, <<All>>, <<Hole, Num(0)>>}
       [] f = "DayOfMonth" -> {<<Weekday(30)>>, <<Num(29), Hole>>}
       [] f = "DayOfWeek" -> {<<Weekend>>, <<Nth(0, 5)>>, <<LastAtom>>}
       [] f = "Year" -> {<<>>, <<Num(2024)>>, <<Num(2025), Hole>>}
       [] OTHER -> {}]

At(y, m, d, h, n) == [Year |-> y, Month |-> m, DayOfMonth |-> d, Hour |-> h, Minute |-> n]

\* Late in the evening before the first and the last days of months that begin or end
\* on Saturdays, Sundays and Mondays, of leap years and others.
MCDates ==
  {At(2024, 2, 28, 23, 58), At(2024, 2, 29, 23, 58), At(2024, 8, 31, 23, 58),
   At(2024, 6, 1, 23, 59), At(2024, 6, 29, 23, 58), At(2024, 12, 31, 23, 58), At(2025, 1, 31, 23, 59),
   At(2025, 3, 2, 23, 58), At(2025, 2, 27, 23, 58), At(2026, 10, 30, 20, 19)}

=============================================================================
