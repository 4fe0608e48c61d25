------------------------------- MODULE CronRule -------------------------------
(***************************************************************************)
(* A cron rule from the editor to its triggers: the saved text becomes the *)
(* CronExpression of a CronParameter (scenario/parameters/cron.py), whose  *)
(* thread compares it with the clock, then waits for a minute, and so on.  *)
(* When it matches, a thread is started that evaluates the condition of    *)
(* the scenario, and may run its actions; the one before is joined first,  *)
(* however long that takes.                                                *)
(*                                                                         *)
(* The clock moves in thirds of a minute.  The thread may also wake late.  *)
(***************************************************************************)
EXTENDS CronEditor

CONSTANTS
  MaxLate,    \* thirds of a minute that the thread may wake late
  MaxTicks,   \* bound on the thirds of a minute that pass
  None        \* no text

\* Whatever the lateness is, it has a bound: the machine runs the thread some time.
ASSUME RuleAssumption == MaxLate \in Nat

VARIABLES
  rule,       \* the text that was saved, or None
  thread,     \* "none", "running", "joining", "ended"
  busy,       \* the thread that the last trigger started runs
  date,       \* the clock, to the minute
  third,      \* the third of the minute
  due,        \* thirds until the thread checks the rule; negative when it is late
  result,     \* what the last check found, or None
  passed,     \* history: minutes that began since the last check
  held,       \* history: those of them that began while it joined
  ticks       \* number of ticks

clockVars == <<date, third, due, passed, held, ticks>>
ruleVars == <<rule, thread, busy, result>>
vars == <<editorVars, clockVars, ruleVars>>

\* Mutant: a third of a minute.
WaitLess == 1

\* self._event.wait(60), in thirds of a minute.
Wait == 3

Init ==
  /\ EditorInit
  /\ rule = None
  /\ thread = "none"
  /\ busy = FALSE
  /\ date = CHOOSE d \in Dates : TRUE
  /\ third = 0
  /\ due = 0
  /\ result = None
  /\ passed = 0
  /\ held = 0
  /\ ticks = 0

Editing == EditorNext /\ rule = None /\ UNCHANGED <<clockVars, ruleVars>>

\* The scenario is saved, and the page is left.
Save ==
  /\ save
  /\ rule = None
  /\ rule' = text
  /\ mode' = "txt" /\ text' = <<>> /\ slots' = NoSlots /\ told' = FALSE /\ old' = <<>>
  /\ checks' = <<>> /\ save' = FALSE /\ disordered' = FALSE /\ edits' = MaxEdits
  /\ UNCHANGED <<clockVars, thread, busy, result>>

\* CronParameter.__init__ and fill, at any time: the thread is started before the
\* expression is there, and its first check may miss it.
Start ==
  /\ rule # None
  /\ thread = "none"
  /\ thread' = "running"
  /\ date' \in Dates
  /\ third' \in 0..2
  /\ due' \in {0, Wait}
  /\ UNCHANGED <<editorVars, rule, busy, result, passed, held, ticks>>

\* What check_trigger says: a rule that is not valid never triggers, and the rules of
\* the sun and the moon are calculated by a library.
Checked(found) ==
  IF rule = Dawn THEN found \in {"yes", "no"}
  ELSE found = IF IsValidate(rule) THEN CheckTrigger(rule, date) ELSE "no"

\* CronParameter._check, one turn of the loop.  A text that is no expression raises
\* in fill, and the thread goes on without one.
Check ==
  /\ thread = "running"
  /\ due <= 0
  /\ IF Raises(rule) THEN UNCHANGED result ELSE Checked(result')
  /\ thread' = CASE result' = "raise" -> "ended"
                 [] result' = "yes" /\ busy -> "joining"
                 [] OTHER -> "running"
  /\ busy' = (busy \/ result' = "yes")
  /\ due' = Wait
  /\ passed' = 0 /\ held' = 0
  /\ UNCHANGED <<editorVars, rule, date, third, ticks>>

\* call_trigger has joined the last thread that it started, and starts the next one.
Join ==
  /\ thread = "joining" /\ ~ busy
  /\ thread' = "running" /\ busy' = TRUE
  /\ UNCHANGED <<editorVars, clockVars, rule, result>>

\* generic_trigger returns, some time or never.
EndTrigger ==
  /\ busy
  /\ busy' = FALSE
  /\ UNCHANGED <<editorVars, clockVars, rule, thread, result>>

\* A third of a minute passes.
Tick ==
  /\ ticks < MaxTicks
  /\ ticks' = ticks + 1
  /\ \/ thread = "running" /\ due > - MaxLate /\ due' = due - 1
     \/ thread = "joining" /\ UNCHANGED due
  /\ third' = (third + 1) % 3
  /\ IF third = 2
     THEN /\ date' = NextMinute(date)
          /\ passed' = passed + 1
          /\ held' = IF thread = "joining" THEN held + 1 ELSE held
     ELSE UNCHANGED <<date, passed, held>>
  /\ UNCHANGED <<editorVars, ruleVars>>

\* destroy: the scenario is removed.  A thread that joins is waited for.
Destroy ==
  /\ thread = "running"
  /\ thread' = "ended"
  /\ UNCHANGED <<editorVars, clockVars, rule, busy, result>>

Next == Editing \/ Save \/ Start \/ Check \/ Join \/ EndTrigger \/ Tick \/ Destroy

Spec == Init /\ [][Next]_vars

-----------------------------------------------------------------------------
\* The checks of a saved rule find it true at the minutes the editor says, and at no
\* other.
TriggersAsItSays ==
  [][Check /\ rule # Dawn /\ ~ Raises(rule) =>
       ~ IsValidate(rule) \/ IsMisread(rule) \/ (result' = "yes") = Means(rule, date)]_vars

\* A rule is never checked twice in a minute, although its thread waits by itself and
\* does not look at the clock.  Minutes are missed, but no more than the thread wakes
\* late and one, besides those in which it joins (CronParameter._check).
MinuteByMinute ==
  [][Check /\ result # None => passed - held \in 1..(1 + (MaxLate + 2) \div 3)]_vars

=============================================================================
