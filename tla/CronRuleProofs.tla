---------------------------- MODULE CronRuleProofs ----------------------------
(***************************************************************************)
(* What a cron rule does from the editor to its triggers, for any texts,   *)
(* any blocks, any dates, any lateness and triggers of any length.         *)
(*                                                                         *)
(* MinuteByMinute: while the thread waits the clock is a sum, in which the *)
(* minutes that began, the third of the minute and what is left of the     *)
(* wait make up the wait and the third of the minute in which it began.    *)
(*                                                                         *)
(* The others rest on what the texts are made of when they are turned into *)
(* blocks and back (EditorType), on the text that the last answer is about *)
(* (AnswerInv), and on CronExpressionProofs for what a rule means.         *)
(***************************************************************************)
EXTENDS CronRule, CronExpressionProofs, WellFoundedInduction, SequenceTheorems, FiniteSetTheorems

-----------------------------------------------------------------------------
(* The clock of the thread.                                                *)

\* The thirds of a minute that the clock has gone since the minute in which the wait
\* began.
Elapsed == 3 * (passed - held) + third

ClockType == third \in 0..2 /\ due \in (- MaxLate)..Wait /\ passed \in Nat /\ held \in Nat

\* The wait began in one of the thirds of a minute.
WaitInv == result # None => Elapsed + due - Wait \in 0..2

\* While it joins the thread does not wait.
JoinInv == thread = "joining" => passed = held /\ due = Wait

IInv == ClockType /\ (thread = "none" => result = None) /\ WaitInv /\ JoinInv

LEMMA InitHolds == Init => IInv
BY RuleAssumption DEF Init, IInv, ClockType, WaitInv, JoinInv, Elapsed, Wait

\* What a tick adds to the clock it takes from the wait.
LEMMA SumStays ==
  ASSUME NEW p \in Nat, NEW h \in Nat, NEW q \in 0..2, NEW d \in Int,
         NEW pp \in Nat, NEW qq \in 0..2,
         3 * (p - h) + q + d - 3 \in 0..2, 3 * pp + qq = 3 * p + q + 1
  PROVE  3 * (pp - h) + qq + (d - 1) - 3 \in 0..2
OBVIOUS

\* The sum when the wait begins.
LEMMA SumBegins ==
  ASSUME NEW p \in Nat, NEW h \in Nat, NEW q \in 0..2, NEW d, p = h, d = 3
  PROVE  3 * (p - h) + q + d - 3 \in 0..2
OBVIOUS

LEMMA StepKeeps == ASSUME IInv, [Next]_vars PROVE IInv'
<1> USE RuleAssumption DEF IInv, ClockType, WaitInv, JoinInv, Elapsed, Wait
<1>1. CASE Editing
  BY <1>1 DEF Editing, clockVars, ruleVars
<1>2. CASE Save
  BY <1>2 DEF Save, clockVars
<1>3. CASE Start
  BY <1>3 DEF Start
<1>4. CASE Check
  <2>1. thread # "none" /\ thread' # "none"
    BY <1>4 DEF Check
  <2>2. third' = third /\ due' = 3 /\ passed' = 0 /\ held' = 0
    BY <1>4 DEF Check
  <2> QED BY <2>1, <2>2
<1>5. CASE Join
  BY <1>5 DEF Join, clockVars
<1>6. CASE EndTrigger
  BY <1>6 DEF EndTrigger, clockVars
<1>7. CASE Tick
  <2>1. thread' = thread /\ result' = result /\ thread \in {"running", "joining"}
    BY <1>7 DEF Tick, ruleVars
  <2>2. third \in 0..2 /\ passed \in Nat /\ held \in Nat
    OBVIOUS
  <2>3. third' = (third + 1) % 3
    BY <1>7 DEF Tick
  <2>4. /\ third = 2 => passed' = passed + 1 /\ held' = IF thread = "joining" THEN held + 1 ELSE held
        /\ third # 2 => passed' = passed /\ held' = held
    BY <1>7 DEF Tick
  <2>5. third' \in 0..2 /\ passed' \in Nat /\ held' \in Nat /\ 3 * passed' + third' = 3 * passed + third + 1
    <3>1. CASE third = 2
      BY ONLY <3>1, <2>2, <2>3, <2>4
    <3>2. CASE third # 2
      BY ONLY <3>2, <2>2, <2>3, <2>4
    <3> QED BY <3>1, <3>2
  <2>6. CASE thread = "running"
    <3>1. due' = due - 1 /\ due > - MaxLate /\ held' = held
      BY <1>7, <2>4, <2>6 DEF Tick
    <3>2. due' \in (- MaxLate)..Wait
      BY <3>1
    <3>3. WaitInv'
      <4> SUFFICES ASSUME result' # None PROVE 3 * (passed' - held') + third' + due' - 3 \in 0..2
        OBVIOUS
      <4>1. 3 * (passed - held) + third + due - 3 \in 0..2
        BY <2>1
      <4>2. due \in Int
        OBVIOUS
      <4>3. 3 * (passed' - held) + third' + (due - 1) - 3 \in 0..2
        BY ONLY <4>1, <4>2, <2>2, <2>5, SumStays
      <4> QED BY <3>1, <4>3
    <3> QED BY <2>1, <2>5, <2>6, <3>2, <3>3
  <2>7. CASE thread = "joining"
    <3>1. due' = due /\ passed = held /\ due = 3
      BY <1>7, <2>7 DEF Tick
    <3>2. passed' = held'
      BY <2>4, <2>7, <3>1
    <3>3. 3 * (passed' - held') + third' + due' - 3 \in 0..2
      BY ONLY <2>5, <3>1, <3>2, SumBegins
    <3> QED BY <2>1, <2>5, <3>1, <3>2, <3>3
  <2> QED BY <2>1, <2>6, <2>7
<1>8. CASE Destroy
  BY <1>8 DEF Destroy, clockVars
<1>9. CASE UNCHANGED vars
  BY <1>9 DEF vars, clockVars, ruleVars
<1> QED BY <1>1, <1>2, <1>3, <1>4, <1>5, <1>6, <1>7, <1>8, <1>9 DEF Next

\* The minutes that begin in a wait and the lateness after it.
LEMMA MinutesOfAWait ==
  ASSUME NEW n \in Int, NEW q \in 0..2, NEW d \in Int, NEW late \in Nat,
         d <= 0, d >= - late, 3 * n + q + d - 3 \in 0..2
  PROVE  n \in 1..(1 + (late + 2) \div 3)
OBVIOUS

\* However long the triggers take (AbstractParameter.call_trigger), no minute is checked
\* twice, and for every bound on the lateness no more are missed than that allows,
\* besides those in which the thread joined (CronParameter._check).
THEOREM MinutesAreChecked == Spec => MinuteByMinute
<1>1. ASSUME IInv, [Next]_vars
      PROVE  [Check /\ result # None => passed - held \in 1..(1 + (MaxLate + 2) \div 3)]_vars
  <2> SUFFICES ASSUME Check, result # None PROVE passed - held \in 1..(1 + (MaxLate + 2) \div 3)
    OBVIOUS
  <2>1. due <= 0
    BY DEF Check
  <2>2. /\ passed - held \in Int /\ third \in 0..2 /\ due \in Int /\ due >= - MaxLate
        /\ 3 * (passed - held) + third + due - 3 \in 0..2
    BY <1>1, RuleAssumption DEF IInv, ClockType, WaitInv, Elapsed, Wait
  <2> QED BY ONLY <2>1, <2>2, RuleAssumption, MinutesOfAWait
<1> QED BY <1>1, InitHolds, StepKeeps, PTL DEF Spec, MinuteByMinute

-----------------------------------------------------------------------------
(* Sequences.                                                              *)

\* Induction over the naturals: what holds somewhere holds somewhere first.
LEMMA Least ==
  ASSUME NEW S \in SUBSET Nat, S # {}
  PROVE  \E n \in S : \A m \in S : n <= m
<1>1. \E n \in S : \A m \in S : ~ (<<m, n>> \in OpToRel(<, Nat))
  BY NatLessThanWellFounded, WFMin
<1>2. PICK n \in S : \A m \in S : ~ (<<m, n>> \in OpToRel(<, Nat))
  BY <1>1
<1>3. \A m \in S : ~ (m < n)
  BY <1>2 DEF OpToRel
<1> QED
  BY <1>3

\* FlattenSeq takes one sequence more at each step.
Step(seqs, f, i) == IF i = 1 THEN seqs[i] ELSE f[i-1] \o seqs[i]

LEMMA FlattenSteps ==
  ASSUME NEW S, NEW seqs \in Seq(Seq(S)), seqs # <<>>
  PROVE  \E f \in [1..Len(seqs) -> Seq(S)] :
           /\ f[1] = seqs[1]
           /\ \A i \in 2..Len(seqs) : f[i] = f[i-1] \o seqs[i]
           /\ FlattenSeq(seqs) = f[Len(seqs)]
<1> DEFINE L == Len(seqs)
           Made(n) == \E f : f = [i \in 1..n |-> Step(seqs, f, i)]
<1>1. L \in Nat \ {0} /\ \A i \in 1..L : seqs[i] \in Seq(S)
  OBVIOUS
<1>2. \A n \in Nat : Made(n)
  <2> SUFFICES ASSUME {n \in Nat : ~ Made(n)} # {} PROVE FALSE
    OBVIOUS
  <2>1. PICK n \in {n \in Nat : ~ Made(n)} : \A m \in {m \in Nat : ~ Made(m)} : n <= m
    BY Least
  <2>2. CASE n = 0
    <3>1. <<>> = [i \in 1..0 |-> Step(seqs, <<>>, i)]
      OBVIOUS
    <3> QED
      BY <2>1, <2>2, <3>1
  <2>3. CASE n # 0
    <3>1. n - 1 \in Nat /\ Made(n - 1)
      <4>1. n - 1 \in Nat /\ ~ (n <= n - 1)
        BY <2>1, <2>3
      <4> HIDE DEF Made
      <4> QED
        BY <4>1, <2>1
    <3>2. PICK f : f = [i \in 1..(n - 1) |-> Step(seqs, f, i)]
      BY <3>1
    <3> DEFINE g == [i \in 1..n |-> IF i < n THEN f[i] ELSE Step(seqs, f, n)]
    <3>3. \A i \in 1..n : g[i] = Step(seqs, g, i)
      <4>1. \A i \in 1..n : i # 1 => i - 1 \in 1..(n - 1) /\ g[i - 1] = f[i - 1]
        BY <2>1
      <4>2. \A i \in 1..n : Step(seqs, g, i) = Step(seqs, f, i)
        BY <4>1 DEF Step
      <4>3. \A i \in 1..(n - 1) : f[i] = Step(seqs, f, i)
        BY <3>2
      <4>4. \A i \in 1..n : i < n => i \in 1..(n - 1)
        BY <2>1
      <4>5. \A i \in 1..n : ~ (i < n) => i = n
        BY <2>1
      <4> QED
        BY <4>2, <4>3, <4>4, <4>5
    <3>4. g = [i \in 1..n |-> Step(seqs, g, i)]
      BY <3>3
    <3> QED
      BY <2>1, <3>4
  <2> QED
    BY <2>2, <2>3
<1> DEFINE f == CHOOSE f : f = [i \in 1..L |-> Step(seqs, f, i)]
<1>3. f = [i \in 1..L |-> Step(seqs, f, i)]
  BY <1>1, <1>2
<1>4. FlattenSeq(seqs) = f[L]
  BY <1>1 DEF FlattenSeq, Step
<1> HIDE DEF f
<1>5. \A i \in 1..L : f[i] = Step(seqs, f, i)
  BY <1>3
<1>6. f[1] = seqs[1] /\ \A i \in 2..L : f[i] = f[i-1] \o seqs[i]
  <2>1. 1 \in 1..L /\ \A i \in 2..L : i \in 1..L /\ i # 1
    BY <1>1
  <2> HIDE DEF L
  <2> QED
    BY <2>1, <1>5 DEF Step
<1>7. \A i \in 1..L : f[i] \in Seq(S)
  <2> DEFINE Bad == {i \in 1..L : f[i] \notin Seq(S)}
  <2> SUFFICES ASSUME Bad # {} PROVE FALSE
    OBVIOUS
  <2>1. PICK i \in Bad : \A j \in Bad : i <= j
    <3>1. Bad \in SUBSET Nat
      OBVIOUS
    <3> HIDE DEF Bad
    <3> QED
      BY <3>1, Least
  <2>2. CASE i = 1
    BY <1>1, <1>6, <2>2
  <2>3. CASE i # 1
    <3>1. i - 1 \in 1..L /\ i \in 2..L /\ ~ (i <= i - 1)
      BY <1>1, <2>3
    <3>2. f[i-1] \in Seq(S)
      BY <2>1, <3>1
    <3>3. seqs[i] \in Seq(S)
      BY <1>1, <3>1
    <3>4. f[i] = f[i-1] \o seqs[i]
      BY <1>6, <3>1
    <3>5. f[i] \in Seq(S)
      BY ONLY <3>2, <3>3, <3>4, ConcatProperties
    <3> QED
      BY <3>5
  <2> QED
    BY <2>2, <2>3
<1>8. f \in [1..L -> Seq(S)]
  BY <1>3, <1>7
<1> QED
  BY <1>4, <1>6, <1>8

LEMMA FlattenType ==
  ASSUME NEW S, NEW seqs \in Seq(Seq(S))
  PROVE  /\ FlattenSeq(seqs) \in Seq(S)
         /\ seqs # <<>> /\ (\A i \in 1..Len(seqs) : seqs[i] # <<>>) => FlattenSeq(seqs) # <<>>
<1>1. CASE seqs = <<>>
  BY <1>1 DEF FlattenSeq
<1>2. CASE seqs # <<>>
  <2> DEFINE L == Len(seqs)
  <2>1. L \in Nat \ {0} /\ \A i \in 1..L : seqs[i] \in Seq(S)
    BY <1>2
  <2>2. PICK f \in [1..L -> Seq(S)] :
           /\ f[1] = seqs[1]
           /\ \A i \in 2..L : f[i] = f[i-1] \o seqs[i]
           /\ FlattenSeq(seqs) = f[L]
    BY <1>2, FlattenSteps
  <2> HIDE DEF L
  <2>3. f[L] \in Seq(S)
    <3>1. L \in 1..L
      BY <2>1
    <3> QED
      BY <3>1
  <2>4. ASSUME \A i \in 1..L : seqs[i] # <<>> PROVE f[L] # <<>>
    <3>1. CASE L = 1
      BY <2>1, <2>2, <2>4, <3>1
    <3>2. CASE L # 1
      <4>1. f[L-1] \in Seq(S) /\ f[L] = f[L-1] \o seqs[L] /\ seqs[L] \in Seq(S) /\ seqs[L] # <<>>
        <5>1. L \in 1..L /\ L \in 2..L /\ L - 1 \in 1..L
          BY <2>1, <3>2
        <5> QED
          BY <5>1, <2>1, <2>2, <2>4
      <4> QED
        BY <4>1, ConcatEqualIffEmpty
    <3> QED
      BY <3>1, <3>2
  <2> QED
    BY <2>2, <2>3, <2>4 DEF L
<1> QED
  BY <1>1, <1>2

LEMMA FlattenSingles ==
  ASSUME NEW S, NEW s \in Seq(S)
  PROVE  FlattenSeq([k \in DOMAIN s |-> <<s[k]>>]) = s
<1> DEFINE L == Len(s)
           t == [k \in 1..L |-> <<s[k]>>]
<1>1. L \in Nat /\ DOMAIN s = 1..L /\ \A k \in 1..L : s[k] \in S
  OBVIOUS
<1>2. t \in Seq(Seq(S)) /\ Len(t) = L
  <2>1. t \in [1..L -> Seq(S)]
    BY <1>1
  <2> HIDE DEF t
  <2> QED
    BY <1>1, <2>1
<1>3. CASE L = 0
  <2>1. s = <<>> /\ t = <<>>
    BY <1>3, <1>2
  <2> QED
    BY <1>1, <2>1 DEF FlattenSeq
<1>4. CASE L # 0
  <2>1. t # <<>>
    BY <1>2, <1>4
  <2>2. PICK f \in [1..L -> Seq(S)] :
           /\ f[1] = t[1]
           /\ \A i \in 2..L : f[i] = f[i-1] \o t[i]
           /\ FlattenSeq(t) = f[L]
    <3> HIDE DEF t
    <3>1. \E f \in [1..Len(t) -> Seq(S)] :
            /\ f[1] = t[1]
            /\ \A i \in 2..Len(t) : f[i] = f[i-1] \o t[i]
            /\ FlattenSeq(t) = f[Len(t)]
      BY <1>2, <2>1, FlattenSteps
    <3> QED
      BY <1>2, <3>1
  <2> DEFINE Bad == {i \in 1..L : f[i] # SubSeq(s, 1, i)}
  <2>3. Bad = {}
    <3> SUFFICES ASSUME Bad # {} PROVE FALSE
      OBVIOUS
    <3>1. PICK i \in Bad : \A j \in Bad : i <= j
      <4>1. Bad \in SUBSET Nat
        OBVIOUS
      <4> HIDE DEF Bad
      <4> QED
        BY <4>1, Least
    <3>2. CASE i = 1
      <4>1. SubSeq(s, 1, 1) = <<s[1]>>
        <5>1. 1 \in 1..Len(s) /\ 0 < 1 /\ 1 - 1 = 0
          BY <1>1, <1>4
        <5>2. SubSeq(s, 1, 1) = SubSeq(s, 1, 1 - 1) \o <<s[1]>>
          BY <5>1, SubSeqRecursiveSecond
        <5>3. SubSeq(s, 1, 0) = <<>>
          BY SubSeqEmpty
        <5>4. <<s[1]>> \in Seq(S)
          BY <1>1, <5>1
        <5> QED
          BY <5>1, <5>2, <5>3, <5>4, ConcatEmptySeq
      <4> QED
        BY <1>1, <1>4, <2>2, <3>1, <3>2, <4>1
    <3>3. CASE i # 1
      <4>1. i - 1 \in 1..L /\ i \in 2..L /\ ~ (i <= i - 1) /\ i \in 1..L
        BY <1>1, <3>3
      <4>2. f[i-1] = SubSeq(s, 1, i - 1)
        BY <3>1, <4>1
      <4>3. SubSeq(s, 1, i) = SubSeq(s, 1, i - 1) \o <<s[i]>>
        BY <1>1, <4>1, SubSeqRecursiveSecond
      <4>4. f[i] = f[i-1] \o <<s[i]>>
        BY <2>2, <4>1
      <4> QED
        BY <4>2, <4>3, <4>4
    <3> QED
      BY <3>2, <3>3
  <2>4. f[L] = SubSeq(s, 1, L)
    BY <1>1, <1>4, <2>3
  <2> QED
    BY <1>1, <2>2, <2>4, SubSeqFull
<1> QED
  BY <1>3, <1>4

-----------------------------------------------------------------------------
(* The types of the texts and of the inputs.                               *)

LEMMA EditorAtoms == Hole \in Atoms /\ Empty \in Atoms /\ Num(0) \in Atoms /\ Num(6) \in Atoms
BY AtomIsAtom, NumbersAreNat DEF Hole, Empty, Num, Kinds

\* The input up to its first hole, as blocks.
LEMMA FormatInputType ==
  ASSUME NEW items \in Seq(Atoms)
  PROVE  /\ FormatInput(items) \in Seq(Atoms)
         /\ IsFull(items) => FormatInput(items) # <<>>
         /\ IsFull(items) \/ items = <<>> =>
              FormatInput(items) = FlattenSeq([k \in DOMAIN items |-> FormatValue(items[k])])
<1> DEFINE holes == {k \in DOMAIN items : items[k] = Hole}
           cut == {k \in DOMAIN items : \E h \in holes : k >= h}
           upTo == SubSeq(items, 1, Len(items) - Cardinality(cut))
           values == [k \in DOMAIN upTo |-> FormatValue(upTo[k])]
           rest == IF cut # {} /\ upTo # <<>> THEN <<Empty>> ELSE <<>>
<1>1. FormatInput(items) = FlattenSeq(values) \o rest
  BY DEF FormatInput
<1>2. Len(items) \in Nat /\ DOMAIN items = 1..Len(items) /\ \A i \in 1..Len(items) : items[i] \in Atoms
  OBVIOUS
<1>3. Cardinality(cut) \in Nat
  <2>1. IsFiniteSet(1..Len(items)) /\ cut \in SUBSET (1..Len(items))
    BY <1>2, FS_Interval
  <2> HIDE DEF cut
  <2> QED
    BY <2>1, FS_Subset, FS_CardinalityType
<1>4. upTo \in Seq(Atoms)
  <2> DEFINE n == Len(items) - Cardinality(cut)
  <2>1. n \in Int /\ \A i \in 1..n : i \in 1..Len(items)
    <3> HIDE DEF cut
    <3> QED
      BY <1>2, <1>3
  <2> HIDE DEF n
  <2>2. SubSeq(items, 1, n) \in Seq(Atoms)
    BY <1>2, <2>1, SubSeqProperties
  <2> QED
    BY <2>2 DEF n
<1>5. rest \in Seq(Atoms)
  BY EditorAtoms
<1>6. \A x \in Atoms : FormatValue(x) \in Seq(Atoms) /\ FormatValue(x) # <<>>
  BY EditorAtoms DEF FormatValue
<1> HIDE DEF upTo
<1>7. values \in Seq(Seq(Atoms)) /\ Len(values) = Len(upTo) /\ \A i \in 1..Len(values) : values[i] # <<>>
  <2>1. Len(upTo) \in Nat /\ DOMAIN upTo = 1..Len(upTo) /\ \A i \in 1..Len(upTo) : upTo[i] \in Atoms
    BY <1>4
  <2>2. values \in [1..Len(upTo) -> Seq(Atoms)] /\ \A i \in 1..Len(upTo) : values[i] # <<>>
    BY <1>6, <2>1
  <2> HIDE DEF values
  <2> QED
    BY <2>1, <2>2
<1> HIDE DEF values, rest
<1>8. FlattenSeq(values) \in Seq(Atoms) /\ (values # <<>> => FlattenSeq(values) # <<>>)
  BY <1>7, FlattenType
<1>9. FlattenSeq(values) \o rest \in Seq(Atoms)
  BY <1>5, <1>8, ConcatProperties
<1>10. ASSUME IsFull(items) \/ items = <<>>
       PROVE  upTo = items /\ rest = <<>>
  <2>1. holes = {}
    BY <1>10, <1>2 DEF IsFull
  <2>2. cut = {}
    BY <2>1
  <2>3. Cardinality(cut) = 0
    BY <2>2, FS_EmptySet
  <2>4. SubSeq(items, 1, Len(items)) = items
    BY SubSeqFull
  <2>5. Len(items) - 0 = Len(items)
    BY <1>2
  <2> QED
    BY <2>2, <2>3, <2>4, <2>5 DEF upTo, rest
<1>11. IsFull(items) => values # <<>>
  <2>1. IsFull(items) => Len(items) # 0
    BY <1>2 DEF IsFull
  <2> QED
    BY <2>1, <1>7, <1>10
<1>12. IsFull(items) => FlattenSeq(values) \o rest # <<>>
  BY <1>5, <1>8, <1>11, ConcatEqualIffEmpty
<1>13. IsFull(items) \/ items = <<>> =>
         FlattenSeq(values) \o rest = FlattenSeq([k \in DOMAIN items |-> FormatValue(items[k])])
  <2> SUFFICES ASSUME IsFull(items) \/ items = <<>>
               PROVE  FlattenSeq(values) \o rest = FlattenSeq([k \in DOMAIN items |-> FormatValue(items[k])])
    OBVIOUS
  <2>1. FlattenSeq(values) \o rest = FlattenSeq(values)
    BY <1>8, <1>10, ConcatEmptySeq
  <2> QED
    BY <1>10, <2>1 DEF values
<1> QED
  BY <1>1, <1>9, <1>12, <1>13

\* The text that is made of the blocks has no empty field.
LEMMA GenerateType ==
  ASSUME NEW s \in [Fields -> Seq(Atoms)]
  PROVE  GenerateCronExp(s) \in Seq(Field)
<1> DEFINE open == {i \in 1..5 : ~ IsFull(s[FieldNames[i]])}
           end == IF open = {} THEN 6 ELSE Min(open)
           all == [i \in 1..end |-> FormatInput(s[FieldNames[i]])]
<1>1. GenerateCronExp(s) = IF all[end] = <<>> THEN Front(all) ELSE all
  BY DEF GenerateCronExp
<1>2. end \in 1..6 /\ \A i \in 1..(end - 1) : i \in 1..5 /\ i \notin open
  <2>0. open \in SUBSET (1..5) /\ open \in SUBSET Nat
    OBVIOUS
  <2> HIDE DEF open
  <2>1. CASE open = {}
    <3>1. end = 6
      BY <2>1
    <3> QED
      BY <2>1, <3>1
  <2>2. CASE open # {}
    <3>1. \E i \in open : \A j \in open : i <= j
      BY <2>0, <2>2, Least
    <3>2. Min(open) \in open /\ \A j \in open : Min(open) <= j
      BY <3>1 DEF Min
    <3>3. end = Min(open)
      BY <2>2
    <3>4. end \in 1..5 /\ \A j \in open : end <= j
      BY <2>0, <3>2, <3>3
    <3> HIDE DEF end
    <3>5. \A i \in 1..(end - 1) : i \in 1..5 /\ ~ (end <= i)
      BY <3>4
    <3>6. end \in 1..6
      BY <3>4
    <3> QED
      BY <3>4, <3>5, <3>6
  <2> QED
    BY <2>1, <2>2
<1> HIDE DEF end
<1>3. \A i \in 1..6 : FormatInput(s[FieldNames[i]]) \in Seq(Atoms)
  BY SixFields, FormatInputType
<1>4. \A i \in 1..5 : IsFull(s[FieldNames[i]]) => FormatInput(s[FieldNames[i]]) # <<>>
  <2>1. \A i \in 1..5 : s[FieldNames[i]] \in Seq(Atoms)
    BY SixFields
  <2> QED
    BY <2>1, FormatInputType
<1>5. \A i \in 1..(end - 1) : FormatInput(s[FieldNames[i]]) \in Field
  <2> SUFFICES ASSUME NEW i \in 1..(end - 1) PROVE FormatInput(s[FieldNames[i]]) \in Field
    OBVIOUS
  <2>1. i \in 1..5 /\ i \in 1..6 /\ IsFull(s[FieldNames[i]])
    BY <1>2
  <2> QED
    BY <2>1, <1>3, <1>4 DEF Field
<1>6. CASE all[end] = <<>>
  <2>1. \A i \in 1..(end - 1) : all[i] \in Field
    BY <1>2, <1>5
  <2>2. Len(all) = end
    BY <1>2
  <2>3. SubSeq(all, 1, end - 1) \in Seq(Field)
    <3> HIDE DEF all
    <3> QED
      BY <1>2, <2>1, SubSeqProperties
  <2> QED
    BY <1>1, <1>6, <2>2, <2>3 DEF Front
<1>7. CASE all[end] # <<>>
  <2>1. \A i \in 1..end : i \in 1..(end - 1) \/ i = end
    BY <1>2
  <2>2. all[end] \in Field
    <3>1. end \in 1..end
      BY <1>2
    <3>2. all[end] = FormatInput(s[FieldNames[end]])
      BY <3>1
    <3> QED
      BY <1>2, <1>3, <1>7, <3>2 DEF Field
  <2>3. all \in [1..end -> Field]
    BY <1>2, <1>5, <2>1, <2>2
  <2>4. all \in Seq(Field)
    <3> HIDE DEF all
    <3> QED
      BY <1>2, <2>3
  <2> QED
    BY <1>1, <1>7, <2>4
<1> QED
  BY <1>6, <1>7

\* The blocks that are made of a text.
LEMMA BlockType ==
  ASSUME NEW f \in Fields, NEW x \in Atoms
  PROVE  ToBlock(f, x) \in Atoms
<1>1. x.a \in Numbers /\ x.b \in Numbers /\ 1 \in Numbers
  BY AtomType, NumbersAreNat
<1>2. "range" \in Kinds \ {"all", "nth"}
  BY DEF Kinds
<1>3. FromTo(x.a, x.b) \in Atoms
  BY <1>1, <1>2, AtomIsAtom DEF FromTo
<1> QED
  BY <1>3, EditorAtoms DEF ToBlock

LEMMA BlocksType ==
  ASSUME NEW t \in Seq(Field)
  PROVE  GenerateCronBlock(t) \in [Fields -> Seq(Atoms)]
<1> SUFFICES ASSUME NEW f \in Fields PROVE GenerateCronBlock(t)[f] \in Seq(Atoms)
  BY DEF GenerateCronBlock
<1>1. PICK i \in 1..6 : FieldNames[i] = f /\ (CHOOSE j \in 1..6 : FieldNames[j] = f) = i
  BY SixFields
<1>2. GenerateCronBlock(t)[f] = IF Len(t) \in 5..6 /\ i <= Len(t) THEN GenerateCronInput(f, t[i]) ELSE <<>>
  BY <1>1 DEF GenerateCronBlock
<1>3. ASSUME Len(t) \in 5..6 /\ i <= Len(t) PROVE GenerateCronInput(f, t[i]) \in Seq(Atoms)
  <2> DEFINE field == t[i]
             items == [k \in DOMAIN field |-> ToBlock(f, field[k])]
  <2>1. field \in Seq(Atoms)
    BY <1>3 DEF Field
  <2>2. GenerateCronInput(f, field) = IF items = <<Hole>> THEN <<>> ELSE items
    BY DEF GenerateCronInput
  <2> HIDE DEF field
  <2>3. Len(field) \in Nat /\ DOMAIN field = 1..Len(field) /\ \A k \in 1..Len(field) : field[k] \in Atoms
    BY <2>1
  <2>4. items \in [1..Len(field) -> Atoms]
    BY <2>3, BlockType
  <2>5. items \in Seq(Atoms)
    <3> HIDE DEF items
    <3> QED
      BY <2>3, <2>4
  <2> QED
    BY <2>2, <2>5 DEF field
<1> QED
  BY <1>2, <1>3

-----------------------------------------------------------------------------
(* From a text to blocks and back.                                         *)

\* A field whose blocks are its atoms, without the increments of ranges.
Shown(field) ==
  [k \in DOMAIN field |-> IF field[k].kind = "range" THEN FromTo(field[k].a, field[k].b) ELSE field[k]]

LEMMA ShownField ==
  ASSUME NEW f \in Fields, NEW field \in Field,
         \A k \in DOMAIN field : ToBlock(f, field[k]) # Hole
  PROVE  /\ GenerateCronInput(f, field) = Shown(field)
         /\ Shown(field) \in Field
         /\ IsFull(Shown(field))
         /\ FormatInput(Shown(field)) = Shown(field)
<1> DEFINE items == [k \in DOMAIN field |-> ToBlock(f, field[k])]
<1>1. /\ Len(field) \in Nat \ {0} /\ DOMAIN field = 1..Len(field)
      /\ \A k \in 1..Len(field) : field[k] \in Atoms
  BY DEF Field
<1>2. \A k \in DOMAIN field :
        /\ ToBlock(f, field[k]) = IF field[k].kind = "range" THEN FromTo(field[k].a, field[k].b) ELSE field[k]
        /\ Parses(f, field[k])
  BY DEF ToBlock
<1>3. items = Shown(field)
  BY <1>2 DEF Shown
<1>4. items \in [1..Len(field) -> Atoms]
  BY <1>1, BlockType
<1>5. \A k \in 1..Len(field) : items[k] # Hole
  BY <1>1
<1>6. \A k \in 1..Len(field) : items[k] # Weekend
  <2> SUFFICES ASSUME NEW k \in DOMAIN field PROVE ToBlock(f, field[k]) # Weekend
    BY <1>1
  <2>1. field[k].kind # "weekend"
    BY <1>2 DEF Parses
  <2>2. Weekend.kind = "weekend" /\ FromTo(field[k].a, field[k].b).kind = "range"
    BY DEF Weekend, FromTo, Atom
  <2> QED
    BY <1>2, <2>1, <2>2
<1> HIDE DEF items
<1>7. items \in Seq(Atoms) /\ Len(items) = Len(field) /\ items # <<>>
  BY <1>1, <1>4
<1>8. items # <<Hole>>
  BY <1>1, <1>5, <1>7
<1>9. GenerateCronInput(f, field) = items
  BY <1>8 DEF GenerateCronInput, items
<1>10. IsFull(items)
  BY <1>1, <1>5, <1>7 DEF IsFull
<1>11. FormatInput(items) = FlattenSeq([k \in DOMAIN items |-> FormatValue(items[k])])
  BY <1>7, <1>10, FormatInputType
<1>12. [k \in DOMAIN items |-> FormatValue(items[k])] = [k \in DOMAIN items |-> <<items[k]>>]
  BY <1>1, <1>6, <1>7 DEF FormatValue
<1>13. FormatInput(items) = items
  BY <1>7, <1>11, <1>12, FlattenSingles
<1> QED
  BY <1>3, <1>7, <1>9, <1>10, <1>13 DEF Field

LEMMA Lengths ==
  ASSUME NEW n \in 5..6
  PROVE  (\A i \in 1..n : i \in 1..6 /\ i <= n) /\ (\A i \in 1..5 : i \in 1..n)
OBVIOUS

LEMMA BlocksKeepTheText ==
  ASSUME NEW t \in Seq(Field), ~ ShowsError(t), ~ Warned(GenerateCronBlock(t))
  PROVE  GenerateCronExp(GenerateCronBlock(t)) = WithoutIncrements(t)
<1> DEFINE s == GenerateCronBlock(t)
           open == {i \in 1..5 : ~ IsFull(s[FieldNames[i]])}
           end == IF open = {} THEN 6 ELSE Min(open)
           all == [i \in 1..end |-> FormatInput(s[FieldNames[i]])]
           six == [i \in 1..6 |-> FormatInput(s[FieldNames[i]])]
<1>1. \A i \in 1..6 : s[FieldNames[i]] =
        IF Len(t) \in 5..6 /\ i <= Len(t) THEN GenerateCronInput(FieldNames[i], t[i]) ELSE <<>>
  <2> SUFFICES ASSUME NEW i \in 1..6
               PROVE  s[FieldNames[i]] =
                        IF Len(t) \in 5..6 /\ i <= Len(t) THEN GenerateCronInput(FieldNames[i], t[i]) ELSE <<>>
    OBVIOUS
  <2>1. FieldNames[i] \in Fields /\ (CHOOSE j \in 1..6 : FieldNames[j] = FieldNames[i]) = i
    BY SixFields
  <2> QED
    BY <2>1 DEF GenerateCronBlock
<1>2. Len(t) \in 5..6
  <2>1. s["Minute"] # <<>>
    BY SixFields DEF Warned
  <2>2. FieldNames[1] = "Minute"
    BY DEF FieldNames
  <2> QED
    BY <1>1, <2>1, <2>2
<1>3. DOMAIN t = 1..Len(t) /\ \A i \in 1..Len(t) : t[i] \in Field
  OBVIOUS
<1>4. \A i \in 1..Len(t) : \A k \in DOMAIN t[i] : ToBlock(FieldNames[i], t[i][k]) # Hole
  <2> SUFFICES ASSUME NEW i \in 1..Len(t), NEW k \in DOMAIN t[i]
               PROVE  ToBlock(FieldNames[i], t[i][k]) # Hole
    OBVIOUS
  <2>1. <<FieldNames[i], t[i][k]>> \in AtomsOf(t)
    BY <1>2, <1>3 DEF AtomsOf
  <2> QED
    BY <2>1 DEF ShowsError
<1> HIDE DEF s
<1>5. \A i \in 1..Len(t) :
        /\ s[FieldNames[i]] = Shown(t[i])
        /\ IsFull(s[FieldNames[i]])
        /\ FormatInput(s[FieldNames[i]]) = Shown(t[i])
        /\ Shown(t[i]) \in Field
  <2> SUFFICES ASSUME NEW i \in 1..Len(t)
               PROVE  /\ s[FieldNames[i]] = Shown(t[i])
                      /\ IsFull(s[FieldNames[i]])
                      /\ FormatInput(s[FieldNames[i]]) = Shown(t[i])
                      /\ Shown(t[i]) \in Field
    OBVIOUS
  <2>1. i \in 1..6 /\ i <= Len(t) /\ FieldNames[i] \in Fields
    <3>1. i \in 1..6 /\ i <= Len(t)
      BY <1>2, Lengths
    <3> QED
      BY <3>1, SixFields
  <2>2. s[FieldNames[i]] = GenerateCronInput(FieldNames[i], t[i])
    BY <1>1, <1>2, <2>1
  <2> QED
    BY <1>3, <1>4, <2>1, <2>2, ShownField
<1>6. open = {} /\ end = 6
  <2>1. \A i \in 1..5 : i \in 1..Len(t)
    BY <1>2, Lengths
  <2>2. open = {}
    BY <1>5, <2>1
  <2> QED
    BY <2>2
<1>7. GenerateCronExp(s) = IF six[6] = <<>> THEN Front(six) ELSE six
  BY <1>6 DEF GenerateCronExp
<1>8. WithoutIncrements(t) = [i \in 1..Len(t) |-> Shown(t[i])]
  BY <1>3 DEF WithoutIncrements, Shown
<1>9. CASE Len(t) = 6
  <2>1. six = [i \in 1..Len(t) |-> Shown(t[i])]
    BY <1>5, <1>9
  <2>2. six[6] # <<>>
    BY <1>5, <1>9 DEF Field
  <2> QED
    BY <1>7, <1>8, <2>1, <2>2 DEF s
<1>10. CASE Len(t) = 5
  <2>1. s[FieldNames[6]] = <<>>
    BY <1>1, <1>10
  <2>2. FormatInput(<<>>) = <<>>
    <3>1. <<>> \in Seq(Atoms) /\ DOMAIN <<>> = {}
      OBVIOUS
    <3>2. FormatInput(<<>>) = FlattenSeq([k \in DOMAIN <<>> |-> FormatValue(<<>>[k])])
      BY <3>1, FormatInputType
    <3>3. [k \in DOMAIN <<>> |-> FormatValue(<<>>[k])] = <<>>
      OBVIOUS
    <3> QED
      BY <3>2, <3>3 DEF FlattenSeq
  <2>3. six[6] = <<>>
    BY <2>1, <2>2
  <2>4. \A i \in 1..5 : six[i] = Shown(t[i]) /\ six[i] \in Seq(Atoms)
    BY <1>5, <1>10 DEF Field
  <2>5. Len(six) = 6
    OBVIOUS
  <2>6. Front(six) = [i \in 1..5 |-> Shown(t[i])]
    <3> HIDE DEF six
    <3> QED
      BY <2>4, <2>5 DEF Front
  <2> QED
    BY <1>7, <1>8, <1>10, <2>3, <2>6 DEF s
<1> QED
  BY <1>2, <1>9, <1>10

-----------------------------------------------------------------------------
(* The editor and the rule.                                                *)

\* The texts are made of atoms, and the clock shows dates.
EditorType ==
  /\ text \in Seq(Field)
  /\ old = text
  /\ slots \in [Fields -> Seq(Atoms)]
  /\ checks \in Seq(Seq(Field))

\* The last text that waits for an answer is the one that is shown; when none waits,
\* the last answer was about it.
AnswerInv ==
  ~ disordered =>
    IF checks # <<>> THEN checks[Len(checks)] = text
    ELSE text # <<>> => \E d \in Dates : save = ~ Refuses(text, d)

RuleType ==
  /\ rule \in Seq(Field) \cup {None}
  /\ thread # "none" => rule # None
  /\ date \in Date

EInv == EditorType /\ AnswerInv /\ RuleType

LEMMA Given ==
  /\ Daily \in Seq(Field) /\ Dawn \in Seq(Field)
  /\ NoSlots \in [Fields -> Seq(Atoms)]
  /\ <<>> \in Seq(Field) /\ <<>> \in Seq(Seq(Field))
<1>1. Atom("@daily", 0, 0, 1) \in Atoms /\ Atom("@dawn", 0, 0, 1) \in Atoms
  BY AtomIsAtom, NumbersAreNat DEF Kinds
<1>2. <<Atom("@daily", 0, 0, 1)>> \in Field /\ <<Atom("@dawn", 0, 0, 1)>> \in Field
  BY <1>1 DEF Field
<1> QED
  BY <1>2 DEF Daily, Dawn, NoSlots

LEMMA EInit == Init => EInv
<1> SUFFICES ASSUME Init PROVE EInv
  OBVIOUS
<1>1. text \in Seq(Field) /\ old = text /\ slots \in [Fields -> Seq(Atoms)]
  BY Given, EditorAssumption DEF Init, EditorInit
<1>2. checks \in Seq(Seq(Field)) /\ AnswerInv
  <2>1. CASE text = <<>>
    BY <2>1, Given DEF Init, EditorInit, AnswerInv
  <2>2. CASE text # <<>>
    <3>1. checks = <<text>>
      BY <2>2 DEF Init, EditorInit
    <3> QED
      BY <1>1, <3>1 DEF AnswerInv
  <2> QED
    BY <2>1, <2>2
<1>3. RuleType
  BY EditorAssumption DEF Init, RuleType
<1> QED
  BY <1>1, <1>2, <1>3 DEF EInv, EditorType

\* The text that was sent last is the last one that waits.
LEMMA Appended ==
  ASSUME NEW S, NEW t \in S
  PROVE  \A s \in Seq(S) :
           Append(s, t) \in Seq(S) /\ Append(s, t) # <<>> /\ Append(s, t)[Len(Append(s, t))] = t
<1> SUFFICES ASSUME NEW s \in Seq(S)
             PROVE  Append(s, t) \in Seq(S) /\ Append(s, t) # <<>> /\ Append(s, t)[Len(Append(s, t))] = t
  OBVIOUS
<1>1. Append(s, t) \in Seq(S) /\ Len(Append(s, t)) = Len(s) + 1 /\ Append(s, t)[Len(s) + 1] = t
  OBVIOUS
<1>2. Len(s) + 1 # 0
  <2>1. Len(s) \in Nat
    OBVIOUS
  <2> QED
    BY ONLY <2>1
<1>3. Append(s, t) # <<>>
  <2>1. Len(<<>>) = 0
    OBVIOUS
  <2> QED
    BY ONLY <1>1, <1>2, <2>1
<1> QED
  BY <1>1, <1>3

\* A new text is sent to the server.
LEMMA OnchangeKeeps ==
  ASSUME EInv, NEW t \in Seq(Field), Onchange(t), UNCHANGED <<save, disordered>>
  PROVE  text' \in Seq(Field) /\ old' = text' /\ checks' \in Seq(Seq(Field)) /\ AnswerInv'
<1>1. text' = t /\ old' = t /\ checks' = IF t # old THEN Append(checks, t) ELSE checks
  BY DEF Onchange
<1>2. CASE t = old
  BY <1>1, <1>2 DEF EInv, EditorType, AnswerInv
<1>3. CASE t # old
  <2>1. checks \in Seq(Seq(Field))
    BY DEF EInv, EditorType
  <2>2. checks' \in Seq(Seq(Field)) /\ checks' # <<>> /\ checks'[Len(checks')] = t
    <3>1. checks' = Append(checks, t)
      BY <1>1, <1>3
    <3>2. \A s \in Seq(Seq(Field)) :
            Append(s, t) \in Seq(Seq(Field)) /\ Append(s, t) # <<>> /\ Append(s, t)[Len(Append(s, t))] = t
      BY Appended
    <3> QED
      BY <2>1, <3>1, <3>2
  <2> QED
    BY <1>1, <2>2 DEF AnswerInv
<1> QED
  BY <1>2, <1>3

\* What is left of the texts that wait.
LEMMA Removed ==
  ASSUME NEW S, NEW s \in Seq(S), NEW i \in DOMAIN s
  PROVE  /\ RemoveAt(s, i) \in Seq(S)
         /\ RemoveAt(s, i) = <<>> => Len(s) = 1 /\ i = 1
         /\ i = 1 /\ RemoveAt(s, i) # <<>> => RemoveAt(s, i)[Len(RemoveAt(s, i))] = s[Len(s)]
<1> DEFINE a == SubSeq(s, 1, i - 1)
           b == SubSeq(s, i + 1, Len(s))
<1>1. Len(s) \in Nat /\ i \in 1..Len(s) /\ \A k \in 1..Len(s) : s[k] \in S
  OBVIOUS
<1>2. a \in Seq(S) /\ Len(a) = i - 1
  <2>1. \A k \in 1..(i - 1) : s[k] \in S
    BY <1>1
  <2>2. 1 \in Int /\ i - 1 \in Int /\ (i - 1) - 1 + 1 = i - 1 /\ (~ (1 <= i - 1) => i - 1 = 0)
    BY <1>1
  <2> QED
    BY <2>1, <2>2, SubSeqProperties
<1>3. b \in Seq(S) /\ Len(b) = Len(s) - i /\ \A k \in 1..(Len(s) - i) : b[k] = s[i + k]
  <2>1. \A k \in (i + 1)..Len(s) : s[k] \in S
    BY <1>1
  <2>2. i + 1 \in Int /\ Len(s) \in Int /\ Len(s) - (i + 1) + 1 = Len(s) - i
        /\ (~ (i + 1 <= Len(s)) => Len(s) - i = 0)
    BY <1>1
  <2>3. \A k \in 1..(Len(s) - i) : (i + 1) + k - 1 = i + k
    BY <1>1
  <2> QED
    BY <2>1, <2>2, <2>3, SubSeqProperties
<1>4. RemoveAt(s, i) = a \o b
  BY DEF RemoveAt
<1> HIDE DEF a, b
<1>5. a \o b \in Seq(S) /\ Len(a \o b) = (i - 1) + (Len(s) - i)
  BY <1>2, <1>3, ConcatProperties
<1>6. a \o b = <<>> => Len(s) = 1 /\ i = 1
  <2>1. (i - 1) + (Len(s) - i) = 0 => Len(s) = 1 /\ i = 1
    <3>1. \A n \in Nat : \A k \in 1..n : (k - 1) + (n - k) = 0 => n = 1 /\ k = 1
      OBVIOUS
    <3> QED
      BY <1>1, <3>1
  <2>2. a \o b = <<>> => Len(a \o b) = 0
    OBVIOUS
  <2> QED
    BY <1>5, <2>1, <2>2
<1>7. ASSUME i = 1, a \o b # <<>>
      PROVE  (a \o b)[Len(a \o b)] = s[Len(s)]
  <2>1. a = <<>>
    BY <1>2, <1>7
  <2>2. a \o b = b
    BY <1>3, <2>1, ConcatEmptySeq
  <2>3. Len(b) \in 1..(Len(s) - i) /\ i + Len(b) = Len(s)
    BY <1>1, <1>3, <1>7, <2>2
  <2> QED
    BY <1>3, <2>2, <2>3
<1> QED
  BY <1>4, <1>5, <1>6, <1>7

LEMMA EditKeeps ==
  ASSUME EInv, EditorNext, UNCHANGED <<clockVars, ruleVars>>
  PROVE  EInv'
<1>1. RuleType'
  BY DEF EInv, RuleType, clockVars, ruleVars
<1>2. ASSUME NEW t \in Seq(Field), Onchange(t), UNCHANGED <<save, disordered>>,
             slots' \in [Fields -> Seq(Atoms)]
      PROVE  EInv'
  BY <1>1, <1>2, OnchangeKeeps DEF EInv, EditorType
<1>3. CASE TypeText
  <2>1. PICK t \in Texts : Onchange(t)
    BY <1>3 DEF TypeText
  <2>2. t \in Seq(Field)
    BY EditorAssumption
  <2>3. UNCHANGED <<save, disordered>> /\ slots' \in [Fields -> Seq(Atoms)]
    BY <1>3 DEF TypeText, Edit, EInv, EditorType
  <2> QED
    BY <1>2, <2>1, <2>2, <2>3
<1>4. CASE Connect
  <2>1. PICK f \in Fields : \E items \in Options[f] :
           slots' = [slots EXCEPT ![f] = items] /\ Onchange(GenerateCronExp(slots'))
    BY <1>4 DEF Connect
  <2>2. PICK items \in Options[f] :
           slots' = [slots EXCEPT ![f] = items] /\ Onchange(GenerateCronExp(slots'))
    BY <2>1
  <2>3. items \in Seq(Atoms)
    BY EditorAssumption
  <2>4. slots' \in [Fields -> Seq(Atoms)]
    BY <2>2, <2>3 DEF EInv, EditorType
  <2>5. GenerateCronExp(slots') \in Seq(Field)
    BY <2>4, GenerateType
  <2>6. UNCHANGED <<save, disordered>>
    BY <1>4 DEF Connect, Edit
  <2> QED
    BY <1>2, <2>2, <2>4, <2>5, <2>6
<1>5. CASE ToBlocks
  <2>1. CASE \E at \in AtomsOf(text) : Throws(at[1], at[2])
    <3>1. UNCHANGED <<text, slots, old, checks, save, disordered>>
      BY <1>5, <2>1 DEF ToBlocks, Edit
    <3> QED
      BY <1>1, <3>1 DEF EInv, EditorType, AnswerInv
  <2>2. CASE ~ \E at \in AtomsOf(text) : Throws(at[1], at[2])
    <3>1. slots' = GenerateCronBlock(text) /\ Onchange(GenerateCronExp(slots')) /\ UNCHANGED <<save, disordered>>
      BY <1>5, <2>2 DEF ToBlocks, Edit
    <3>2. slots' \in [Fields -> Seq(Atoms)]
      BY <3>1, BlocksType DEF EInv, EditorType
    <3>3. GenerateCronExp(slots') \in Seq(Field)
      BY <3>2, GenerateType
    <3> QED
      BY <1>2, <3>1, <3>2, <3>3
  <2> QED
    BY <2>1, <2>2
<1>6. CASE ToOther
  <2>1. PICK m \in {"txt", "ephem", "predef"} :
           Onchange([txt |-> text, ephem |-> Dawn, predef |-> Daily][m])
    BY <1>6 DEF ToOther
  <2>2. [txt |-> text, ephem |-> Dawn, predef |-> Daily][m] \in Seq(Field)
    BY Given DEF EInv, EditorType
  <2>3. UNCHANGED <<save, disordered>> /\ slots' \in [Fields -> Seq(Atoms)]
    BY <1>6, Given DEF ToOther, Edit
  <2> QED
    BY <1>2, <2>1, <2>2, <2>3
<1>7. CASE Answer
  <2>1. PICK i \in DOMAIN checks :
           /\ \E d \in Dates : save' = ~ Refuses(checks[i], d)
           /\ checks' = RemoveAt(checks, i)
           /\ disordered' = (disordered \/ i # 1)
    BY <1>7 DEF Answer
  <2>2. UNCHANGED <<text, slots, old>>
    BY <1>7 DEF Answer
  <2>3. checks \in Seq(Seq(Field)) /\ checks # <<>>
    BY DEF EInv, EditorType
  <2>4. /\ checks' \in Seq(Seq(Field))
        /\ checks' = <<>> => Len(checks) = 1 /\ i = 1
        /\ i = 1 /\ checks' # <<>> => checks'[Len(checks')] = checks[Len(checks)]
    BY <2>1, <2>3, Removed
  <2>5. AnswerInv'
    <3> SUFFICES ASSUME ~ disordered'
                 PROVE  IF checks' # <<>> THEN checks'[Len(checks')] = text'
                        ELSE text' # <<>> => \E d \in Dates : save' = ~ Refuses(text', d)
      BY DEF AnswerInv
    <3>1. ~ disordered /\ i = 1
      BY <2>1
    <3>2. checks[Len(checks)] = text
      BY <2>3, <3>1 DEF EInv, AnswerInv
    <3> QED
      BY <2>1, <2>2, <2>4, <3>1, <3>2
  <2> QED
    BY <1>1, <2>2, <2>4, <2>5 DEF EInv, EditorType
<1>8. CASE Lose
  <2>1. PICK i \in DOMAIN checks : checks' = RemoveAt(checks, i)
    BY <1>8 DEF Lose
  <2>2. UNCHANGED <<text, slots, old>> /\ disordered'
    BY <1>8 DEF Lose
  <2>3. checks' \in Seq(Seq(Field))
    BY <2>1, Removed DEF EInv, EditorType
  <2> QED
    BY <1>1, <2>2, <2>3 DEF EInv, EditorType, AnswerInv
<1> QED
  BY <1>3, <1>4, <1>5, <1>6, <1>7, <1>8 DEF EditorNext

LEMMA EStep == ASSUME EInv, [Next]_vars PROVE EInv'
<1>1. ASSUME UNCHANGED editorVars, RuleType' PROVE EInv'
  BY <1>1 DEF EInv, EditorType, AnswerInv, editorVars
<1>2. CASE Editing
  BY <1>2, EditKeeps DEF Editing
<1>3. CASE Save
  <2>1. /\ text' = <<>> /\ slots' = NoSlots /\ old' = <<>> /\ checks' = <<>>
        /\ rule' = text /\ UNCHANGED <<date, thread>> /\ rule = None
    BY <1>3 DEF Save, clockVars
  <2>2. RuleType'
    BY <2>1 DEF EInv, EditorType, RuleType
  <2> QED
    BY <2>1, <2>2, Given DEF EInv, EditorType, AnswerInv
<1>4. CASE Start
  <2>1. RuleType'
    BY <1>4, EditorAssumption DEF Start, EInv, RuleType
  <2> QED
    BY <1>1, <1>4, <2>1 DEF Start
<1>5. CASE Check
  <2>1. RuleType'
    BY <1>5 DEF Check, EInv, RuleType
  <2> QED
    BY <1>1, <1>5, <2>1 DEF Check
<1>6. CASE Tick
  <2>1. date' \in {date, NextMinute(date)}
    BY <1>6 DEF Tick
  <2>2. date' \in Date
    BY <2>1, NextMinuteIsDate DEF EInv, RuleType
  <2>3. RuleType'
    BY <1>6, <2>2 DEF Tick, EInv, RuleType, ruleVars
  <2> QED
    BY <1>1, <1>6, <2>3 DEF Tick
<1>7. CASE Destroy
  <2>1. RuleType'
    BY <1>7 DEF Destroy, EInv, RuleType, clockVars
  <2> QED
    BY <1>1, <1>7, <2>1 DEF Destroy
<1>8. CASE UNCHANGED vars
  <2>1. RuleType'
    BY <1>8 DEF vars, EInv, RuleType, clockVars, ruleVars
  <2> QED
    BY <1>1, <1>8, <2>1 DEF vars
<1>9. CASE Join
  <2>1. RuleType'
    BY <1>9 DEF Join, EInv, RuleType, clockVars
  <2> QED
    BY <1>1, <1>9, <2>1 DEF Join
<1>10. CASE EndTrigger
  <2>1. RuleType'
    BY <1>10 DEF EndTrigger, EInv, RuleType, clockVars
  <2> QED
    BY <1>1, <1>10, <2>1 DEF EndTrigger
<1> QED
  BY <1>2, <1>3, <1>4, <1>5, <1>6, <1>7, <1>8, <1>9, <1>10 DEF Next

\* When every answer came, in order, the button is what the server says of the rule
\* that is shown.
THEOREM SaveIsRight == Spec => []SaveFollowsTheText
<1>1. EInv => SaveFollowsTheText
  BY DEF EInv, AnswerInv, SaveFollowsTheText
<1> QED
  BY <1>1, EInit, EStep, PTL DEF Spec

\* A change to the blocks loses nothing unseen but the increments of ranges.
THEOREM SwitchLosesNothing == Spec => SwitchIsHonest
<1> DEFINE Honest == ToBlocks => text' \in {text, WithoutIncrements(text)} \/ told' \/ Warned(slots')
<1>1. ASSUME EInv, ToBlocks PROVE text' \in {text, WithoutIncrements(text)} \/ told' \/ Warned(slots')
  <2>1. CASE \E at \in AtomsOf(text) : Throws(at[1], at[2])
    BY <1>1, <2>1 DEF ToBlocks
  <2>2. CASE ~ \E at \in AtomsOf(text) : Throws(at[1], at[2])
    <3>1. slots' = GenerateCronBlock(text) /\ told' = ShowsError(text) /\ text' = GenerateCronExp(slots')
      BY <1>1, <2>2 DEF ToBlocks, Onchange
    <3>2. text \in Seq(Field)
      BY <1>1 DEF EInv, EditorType
    <3> QED
      BY <3>1, <3>2, BlocksKeepTheText
  <2> QED
    BY <2>1, <2>2
<1>2. ASSUME EInv, [Next]_vars PROVE [Honest]_editorVars
  BY <1>1, <1>2
<1> QED
  BY <1>2, EInit, EStep, PTL DEF Spec, SwitchIsHonest

\* The checks of a saved rule find it true at the minutes that the editor says, and at
\* no other.
THEOREM RuleTriggersAsItSays == Spec => TriggersAsItSays
<1> DEFINE Right == Check /\ rule # Dawn /\ ~ Raises(rule) =>
                      ~ IsValidate(rule) \/ IsMisread(rule) \/ (result' = "yes") = Means(rule, date)
<1>1. ASSUME EInv, Check, rule # Dawn, ~ Raises(rule), IsValidate(rule), ~ IsMisread(rule)
      PROVE  (result' = "yes") = Means(rule, date)
  <2>1. rule \in Seq(Field) /\ date \in Date
    BY <1>1 DEF EInv, RuleType, Check
  <2>2. result' = CheckTrigger(rule, date)
    BY <1>1 DEF Check, Checked
  <2>3. CheckTrigger(rule, date) = IF Means(rule, date) THEN "yes" ELSE "no"
    BY <1>1, <2>1, RulesAreRight
  <2>4. Means(rule, date) \in BOOLEAN
    BY DEF Means
  <2> QED
    BY <2>2, <2>3, <2>4
<1>2. ASSUME EInv, [Next]_vars PROVE [Right]_vars
  BY <1>1, <1>2
<1> QED
  BY <1>2, EInit, EStep, PTL DEF Spec, TriggersAsItSays

=============================================================================
