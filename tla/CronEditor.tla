------------------------------ MODULE CronEditor ------------------------------
(***************************************************************************)
(* The block of a cron rule in the scenario editor                         *)
(* (admin/static/js/blockly_cron_edit.js).  The rule is written as a text, *)
(* with one block for each field, or chosen from a menu; the text is what  *)
(* is saved.  Each new text is sent to the server, which says whether it   *)
(* is a rule (/scenario/cronruletest/checkdate): the answers come in any   *)
(* order, or not at all, and the last to come decides whether the button   *)
(* that saves the scenario can be used.                                    *)
(***************************************************************************)
EXTENDS CronExpression, SequencesExt

CONSTANTS
  Texts,      \* texts a user may type
  Options,    \* Options[f]: what a user may connect to the input of field f
  Dates,      \* dates that the server may read on its clock
  MaxEdits    \* bound on the number of edits

\* Texts are made of atoms, inputs are lists of blocks, and dates are in the calendar.
ASSUME EditorAssumption ==
  /\ Texts \subseteq Seq(Field)
  /\ Options \in [Fields -> SUBSET Seq(Atoms)]
  /\ Dates \subseteq Date /\ Dates # {}

VARIABLES
  mode,       \* crontype; "stuck" when a change of mode failed half way
  text,       \* cron.cron
  slots,      \* slots[f]: the blocks connected to field f
  told,       \* the last change of mode showed an error
  old,        \* cron_old
  checks,     \* the texts that wait for an answer, oldest first
  save,       \* the button is enabled
  disordered, \* history: an answer was lost or came before an older one
  edits       \* number of edits

editorVars == <<mode, text, slots, told, old, checks, save, disordered, edits>>

Modes == {"txt", "blockly", "ephem", "predef", "stuck"}

\* An input of a list that has no block.
Hole == Atom("hole", 0, 0, 1)

\* The block of Saturday and Sunday.
Weekend == Atom("weekend", 0, 0, 1)

NoSlots == [f \in Fields |-> <<>>]

\* CRON_FIELD_DATA.inc.
RInc == [Minute |-> 1..30, Hour |-> 1..6, DayOfMonth |-> 1..15, Month |-> 1..6,
         DayOfWeek |-> 1..3, Year |-> 1..100]

-----------------------------------------------------------------------------
(* From blocks to text.                                                    *)

\* formatValue_ of the blocks.
FormatValue(x) == IF x = Weekend THEN <<Num(0), Num(6)>> ELSE <<x>>

\* The text of an input up to its first hole.
FormatInput(items) ==
  LET holes == {k \in DOMAIN items : items[k] = Hole}
      cut == {k \in DOMAIN items : \E h \in holes : k >= h}
      upTo == SubSeq(items, 1, Len(items) - Cardinality(cut))
  IN FlattenSeq([k \in DOMAIN upTo |-> FormatValue(upTo[k])])
       \o (IF cut # {} /\ upTo # <<>> THEN <<Empty>> ELSE <<>>)

IsFull(items) == items # <<>> /\ \A k \in DOMAIN items : items[k] # Hole

\* generateCronExp_: the text ends at the first input that is not filled.
GenerateCronExp(s) ==
  LET open == {i \in 1..5 : ~ IsFull(s[FieldNames[i]])}
      end == IF open = {} THEN 6 ELSE Min(open)
      all == [i \in 1..end |-> FormatInput(s[FieldNames[i]])]
  IN IF all[end] = <<>> THEN Front(all) ELSE all

-----------------------------------------------------------------------------
(* From text to blocks.                                                    *)

\* cronPart_Parse knows the form.
Parses(f, x) ==
  \/ x.kind \in {"all", "num", "each", "range"}
  \/ x.kind \in {"any", "last"} /\ f \in {"DayOfMonth", "DayOfWeek"}
  \/ x.kind = "nth" /\ f = "DayOfWeek"

\* The numbers are in their ranges.  A single year is compared with nothing.
InRange(f, x) ==
  LET range == Low[f]..High[f] IN
  CASE x.kind = "num" -> x.a \in range /\ f # "Year"
    [] x.kind = "range" -> x.a \in range /\ x.b \in range
    [] x.kind = "each" -> x.a \in range /\ x.inc \in RInc[f]
    [] x.kind = "nth" -> x.a \in range /\ x.b \in RInc[f]
    [] OTHER -> TRUE

\* Mutant: an atom that cannot be shown becomes All.
ToBlockOrAll(f, x) ==
  IF ~ Parses(f, x) \/ ~ InRange(f, x) THEN All
  ELSE IF x.kind = "range" THEN FromTo(x.a, x.b) ELSE x

\* MinuteToBlock_ ... YearToBlock_: the block, or none and an error.  A range has no
\* block with an increment.
ToBlock(f, x) ==
  IF ~ Parses(f, x) \/ ~ InRange(f, x) THEN Hole
  ELSE IF x.kind = "range" THEN FromTo(x.a, x.b) ELSE x

\* DayOfWeekToBlock_ reads the length of the values of L, which has none.
Throws(f, x) == f = "DayOfWeek" /\ x.kind = "last"

\* generateCronInput_: an atom alone that has no block leaves the input empty.
GenerateCronInput(f, field) ==
  LET items == [k \in DOMAIN field |-> ToBlock(f, field[k])]
  IN IF items = <<Hole>> THEN <<>> ELSE items

\* generateCronBlock_.
GenerateCronBlock(t) ==
  [f \in Fields |->
     LET i == CHOOSE i \in 1..6 : FieldNames[i] = f IN
     IF Len(t) \in 5..6 /\ i <= Len(t) THEN GenerateCronInput(f, t[i]) ELSE <<>>]

\* The atoms of the text that are turned into blocks, each with its field.
AtomsOf(t) ==
  IF Len(t) \notin 5..6 THEN {}
  ELSE UNION {{<<FieldNames[i], t[i][k]>> : k \in DOMAIN t[i]} : i \in DOMAIN t}

ShowsError(t) == \E at \in AtomsOf(t) : ToBlock(at[1], at[2]) = Hole

-----------------------------------------------------------------------------
EditorInit ==
  /\ mode = "txt"
  /\ text \in {<<>>} \cup Texts
  /\ slots = NoSlots
  /\ told = FALSE
  /\ old = text
  /\ checks = IF text = <<>> THEN <<>> ELSE <<text>>
  /\ save = TRUE
  /\ disordered = FALSE
  /\ edits = 0

\* Mutant: cron_old is not kept.
OnchangeOnce(t) ==
  /\ text' = t
  /\ checks' = IF old = <<>> /\ t # old THEN Append(checks, t) ELSE checks
  /\ old' = t

\* onchange: every event of the workspace ends with it.
Onchange(t) ==
  /\ text' = t
  /\ checks' = IF t # old THEN Append(checks, t) ELSE checks
  /\ old' = t

Edit == edits < MaxEdits /\ edits' = edits + 1 /\ UNCHANGED <<save, disordered>>

\* The user types a text.
TypeText ==
  /\ Edit
  /\ mode = "txt"
  /\ \E t \in Texts : Onchange(t)
  /\ UNCHANGED <<mode, slots, told>>

\* The user connects other blocks to an input.
Connect ==
  /\ Edit
  /\ mode = "blockly"
  /\ \E f \in Fields : \E items \in Options[f] :
       /\ slots' = [slots EXCEPT ![f] = items]
       /\ Onchange(GenerateCronExp(slots'))
  /\ UNCHANGED <<mode, told>>

\* updateShape_ to the blocks.
ToBlocks ==
  /\ Edit
  /\ mode \in {"txt", "ephem", "predef"}
  /\ IF \E at \in AtomsOf(text) : Throws(at[1], at[2])
     THEN /\ mode' = "stuck"
          /\ told' = FALSE
          /\ UNCHANGED <<text, slots, old, checks>>
     ELSE /\ mode' = "blockly"
          /\ slots' = GenerateCronBlock(text)
          /\ told' = ShowsError(text)
          /\ Onchange(GenerateCronExp(slots'))

\* updateShape_ to a text or to a menu, which begins with its first entry.
ToOther ==
  /\ Edit
  /\ mode # "stuck"
  /\ \E m \in {"txt", "ephem", "predef"} \ {mode} :
       /\ mode' = m
       /\ Onchange([txt |-> text, ephem |-> Dawn, predef |-> Daily][m])
  /\ slots' = NoSlots
  /\ told' = FALSE

\* scenario_croncheckdate: the expression raises, is not valid, or raises when it is
\* compared with the date.
Refuses(t, date) ==
  \/ Raises(t)
  \/ ~ IsValidate(t)
  \/ t # Dawn /\ CheckTrigger(t, date) = "raise"

\* An answer comes.
Answer ==
  \E i \in DOMAIN checks :
    /\ \E date \in Dates : save' = ~ Refuses(checks[i], date)
    /\ checks' = RemoveAt(checks, i)
    /\ disordered' = (disordered \/ i # 1)
    /\ UNCHANGED <<mode, text, slots, told, old, edits>>

\* An answer does not come: nobody handles the failure of the request.
Lose ==
  \E i \in DOMAIN checks :
    /\ checks' = RemoveAt(checks, i)
    /\ disordered' = TRUE
    /\ UNCHANGED <<mode, text, slots, told, old, save, edits>>

EditorNext == TypeText \/ Connect \/ ToBlocks \/ ToOther \/ Answer \/ Lose

-----------------------------------------------------------------------------
\* The warning on the block: an input other than Year has no block.
Warned(s) == \E f \in Fields \ {"Year"} : s[f] = <<>>

WithoutIncrements(t) ==
  [i \in DOMAIN t |-> [k \in DOMAIN t[i] |->
     IF t[i][k].kind = "range" THEN FromTo(t[i][k].a, t[i][k].b) ELSE t[i][k]]]

\* A change to the blocks keeps the rule, or the user sees an error or the warning
\* that a block is missing.  One thing is lost unseen: the increment of a range.
SwitchIsHonest ==
  [][ToBlocks => text' \in {text, WithoutIncrements(text)} \/ told' \/ Warned(slots')]_editorVars

\* When every answer came, in order, the rule that is shown can be saved if and only
\* if the server takes it, which depends on the date for some rules.  (Not so for
\* a new rule, which nobody checks, and not when answers are lost or overtake
\* each other.)
SaveFollowsTheText ==
  checks = <<>> /\ ~ disordered /\ text # <<>> =>
    \E date \in Dates : save = ~ Refuses(text, date)

=============================================================================
