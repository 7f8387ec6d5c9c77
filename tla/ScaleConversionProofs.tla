------------------------ MODULE ScaleConversionProofs ------------------------
(***************************************************************************)
(* Theorems about ScaleConversion, for every set of frames, every length   *)
(* of a recording and every limit: the episodes tile the usable stretches  *)
(* of the recording, the rows of an episode span its sub-goals, and what   *)
(* stands for a hand that was marked wrong is interpolated over a short    *)
(* gap.  The recursive passes are followed by induction.                   *)
(***************************************************************************)
EXTENDS ScaleConversion, WellFoundedInduction, NaturalsInduction, TLAPS
-----------------------------------------------------------------------------
(* Induction over the natural numbers, for a set of them.                    *)
LessNat == {p \in Nat \X Nat : p[1] < p[2]}

LEMMA NatWF == IsWellFoundedOn(LessNat, Nat)
<1>1. LessNat = OpToRel(<, Nat) BY DEF OpToRel, LessNat
<1> QED BY <1>1, NatLessThanWellFounded

LEMMA Least == ASSUME NEW T \in SUBSET Nat, T # {} PROVE \E x \in T : \A y \in T : x <= y
<1>1. PICK x \in T : \A y \in T : ~ (<<y, x>> \in LessNat) BY NatWF, WFMin
<1>2. ASSUME NEW y \in T PROVE x <= y
  <2>1. <<y, x>> \in Nat \X Nat /\ <<y, x>>[1] = y /\ <<y, x>>[2] = x OBVIOUS
  <2>2. ~ (y < x) BY <1>1, <2>1 DEF LessNat
  <2>3. y \in Nat /\ x \in Nat OBVIOUS
  <2> QED BY <2>2, <2>3
<1> QED BY <1>2

LEMMA NatInd ==
  ASSUME NEW S, 0 \in S, \A n \in Nat : n \in S => n + 1 \in S PROVE \A n \in Nat : n \in S
<1> SUFFICES ASSUME Nat \ S # {} PROVE FALSE OBVIOUS
<1>1. PICK x \in Nat \ S : \A y \in Nat \ S : x <= y BY Least
<1>2. x # 0 /\ x - 1 \in Nat OBVIOUS
<1>3. x - 1 \in S BY <1>1, <1>2
<1> QED BY <1>2, <1>3

(* A recursion over 0..n exists.                                             *)
Recursion(n, base, Step, f) ==
  f[0] = base /\ \A i \in 1..n : f[i] = Step[<<i, f[i - 1]>>]

LEMMA RecursionExists ==
  ASSUME NEW n \in Nat, NEW S, NEW base \in S, NEW Step,
         \A i \in 1..n, x \in S : Step[<<i, x>>] \in S
  PROVE  \E f \in [0..n -> S] : Recursion(n, base, Step, f)
<1> DEFINE Good(m, f) == /\ f \in [0..m -> S] /\ f[0] = base
                         /\ \A i \in 1..m : f[i] = Step[<<i, f[i - 1]>>]
           T == {m \in Nat : m <= n => \E f : Good(m, f)}
<1>1. 0 \in T
  <2> DEFINE f == [i \in 0..0 |-> base]
  <2>1. Good(0, f) OBVIOUS
  <2> QED BY <2>1
<1>2. ASSUME NEW m \in Nat, m \in T PROVE m + 1 \in T
  <2> SUFFICES ASSUME m + 1 <= n PROVE \E f : Good(m + 1, f) OBVIOUS
  <2>1. PICK f : Good(m, f) BY <1>2
  <2> DEFINE g == [i \in 0..(m + 1) |-> IF i = m + 1 THEN Step[<<m + 1, f[m]>>] ELSE f[i]]
  <2>2. f[m] \in S /\ m + 1 \in 1..n BY <2>1
  <2>3. Step[<<m + 1, f[m]>>] \in S BY <2>2
  <2>4. g \in [0..(m + 1) -> S] BY <2>1, <2>3
  <2>5. g[0] = base BY <2>1
  <2>6. ASSUME NEW i \in 1..(m + 1) PROVE g[i] = Step[<<i, g[i - 1]>>]
    <3>1. CASE i = m + 1
      <4>1. g[i - 1] = f[m] /\ g[i] = Step[<<m + 1, f[m]>>] BY <3>1
      <4> QED BY <3>1, <4>1
    <3>2. CASE i # m + 1
      <4>1. i \in 1..m /\ g[i - 1] = f[i - 1] /\ g[i] = f[i] BY <3>2
      <4> QED BY <2>1, <4>1
    <3> QED BY <3>1, <3>2
  <2>7. Good(m + 1, g) BY <2>4, <2>5, <2>6
  <2> QED BY <2>7
<1> HIDE DEF T
<1>3. n \in T BY <1>1, <1>2, NatInd
<1>4. PICK f : Good(n, f) BY <1>3 DEF T
<1> QED BY <1>4 DEF Recursion
-----------------------------------------------------------------------------
(* One step of the pass over the flags, and the pass.                        *)
FlagStep(flags, acc, i) ==
  IF flags[i]
  THEN [acc EXCEPT !.open = IF acc.open = 0 THEN i ELSE acc.open]
  ELSE IF acc.open = 0 THEN acc
  ELSE [open |-> 0, runs |-> Append(acc.runs, <<acc.open, i - 1>>)]

NoRuns == [open |-> 0, runs |-> <<>>]

IsFlagPass(flags, f) ==
  f = [i \in 0..Len(flags) |-> IF i = 0 THEN NoRuns ELSE FlagStep(flags, f[i - 1], i)]

LEMMA RunsAre ==
  ASSUME NEW flags
  PROVE  LET end == (CHOOSE f : IsFlagPass(flags, f))[Len(flags)]
         IN  Runs(flags) = IF end.open = 0 THEN end.runs
                           ELSE Append(end.runs, <<end.open, Len(flags)>>)
BY DEF Runs, IsFlagPass, FlagStep, NoRuns

LEMMA FlagPassHolds ==
  ASSUME NEW flags, Len(flags) \in Nat
  PROVE  IsFlagPass(flags, CHOOSE f : IsFlagPass(flags, f))
<1> DEFINE n == Len(flags)
           S == [open : Nat, runs : Seq(Nat \X Nat)]
           Step == [p \in (1..n) \X S |-> FlagStep(flags, p[2], p[1])]
<1>1. ASSUME NEW i \in 1..n, NEW acc \in S PROVE FlagStep(flags, acc, i) \in S
  <2>1. <<acc.open, i - 1>> \in Nat \X Nat OBVIOUS
  <2>2. Append(acc.runs, <<acc.open, i - 1>>) \in Seq(Nat \X Nat) BY <2>1
  <2> QED BY <2>2 DEF FlagStep
<1>2. NoRuns \in S BY DEF NoRuns
<1>3. \A i \in 1..n, acc \in S : Step[<<i, acc>>] \in S BY <1>1
<1>4. \A i \in 1..n, acc \in S : Step[<<i, acc>>] = FlagStep(flags, acc, i) OBVIOUS
<1> HIDE DEF Step, S
<1> HIDE DEF n
<1>0. n \in Nat BY DEF n
<1>5. PICK f \in [0..n -> S] : Recursion(n, NoRuns, Step, f)
  BY <1>0, <1>2, <1>3, RecursionExists
<1>6. \A i \in 1..n : f[i] = FlagStep(flags, f[i - 1], i)
  <2>1. \A i \in 1..n : i - 1 \in 0..n BY <1>0
  <2> QED BY <1>4, <1>5, <2>1 DEF Recursion
<1>7. \A i \in 0..n : f[i] = IF i = 0 THEN NoRuns ELSE FlagStep(flags, f[i - 1], i)
  <2>1. \A i \in 0..n : i = 0 \/ i \in 1..n BY <1>0
  <2> QED BY <1>5, <1>6, <2>1 DEF Recursion
<1>8. IsFlagPass(flags, f)
  <2>1. f = [i \in 0..n |-> f[i]] OBVIOUS
  <2>2. f = [i \in 0..n |-> IF i = 0 THEN NoRuns ELSE FlagStep(flags, f[i - 1], i)]
    BY <1>7, <2>1
  <2> QED BY <2>2 DEF IsFlagPass, n
<1> QED BY <1>8

(* A stretch <<first, last>> of TRUE that cannot be made longer.             *)
Stretch(flags, run) ==
  /\ 1 <= run[1] /\ run[1] <= run[2] /\ run[2] <= Len(flags)
  /\ \A i \in run[1]..run[2] : flags[i]
  /\ run[1] > 1 => ~ flags[run[1] - 1]
  /\ run[2] < Len(flags) => ~ flags[run[2] + 1]

Within(i, runs) == \E k \in DOMAIN runs : i \in runs[k][1]..runs[k][2]

Apart(runs) == \A k, l \in DOMAIN runs : k < l => runs[k][2] < runs[l][1]

(* What the pass knows after i flags.                                        *)
FlagInv(flags, acc, i) ==
  /\ acc \in [open : Nat, runs : Seq(Nat \X Nat)] /\ acc.open <= i
  /\ acc.open = 0 /\ i > 0 => ~ flags[i]
  /\ acc.open > 0 => \A j \in acc.open..i : flags[j]
  /\ acc.open > 1 => ~ flags[acc.open - 1]
  /\ \A k \in DOMAIN acc.runs :
       /\ Stretch(flags, acc.runs[k]) /\ acc.runs[k][2] < i
       /\ acc.open > 0 => acc.runs[k][2] < acc.open
  /\ Apart(acc.runs)
  /\ \A j \in 1..i : flags[j] => Within(j, acc.runs) \/ (acc.open > 0 /\ acc.open <= j)

(* Appending <<a, b>> to stretches that end before keeps them apart.         *)
Appended(runs, a, b, z) ==
  /\ z \in Seq(Nat \X Nat) /\ Apart(z) /\ DOMAIN z = 1..(Len(runs) + 1)
  /\ \A i \in Nat : Within(i, runs) \/ (a <= i /\ i <= b) => Within(i, z)
  /\ \A k \in 1..(Len(runs) + 1) :
       z[k] = IF k = Len(runs) + 1 THEN <<a, b>> ELSE runs[k]

LEMMA Closed ==
  ASSUME NEW runs \in Seq(Nat \X Nat), NEW a \in Nat, NEW b \in Nat, Apart(runs),
         \A k \in DOMAIN runs : runs[k][2] < a
  PROVE  Appended(runs, a, b, Append(runs, <<a, b>>))
<1> DEFINE z == Append(runs, <<a, b>>)
<1>1. <<a, b>> \in Nat \X Nat OBVIOUS
<1>2. /\ z \in Seq(Nat \X Nat) /\ DOMAIN z = 1..(Len(runs) + 1) /\ DOMAIN runs = 1..Len(runs)
      /\ Len(runs) \in Nat
      /\ \A k \in 1..(Len(runs) + 1) : z[k] = IF k = Len(runs) + 1 THEN <<a, b>> ELSE runs[k]
  BY <1>1
<1> HIDE DEF z
<1>3. Apart(z)
  <2>1. ASSUME NEW k \in 1..(Len(runs) + 1), NEW l \in 1..(Len(runs) + 1), k < l
        PROVE  z[k][2] < z[l][1]
    <3>0. Len(runs) \in Nat BY <1>2
    <3>1. k \in DOMAIN runs /\ z[k] = runs[k]
      <4>1. k \in 1..Len(runs) /\ k # Len(runs) + 1 BY <3>0, <2>1
      <4> QED BY <1>2, <4>1
    <3>2. CASE l = Len(runs) + 1
      <4>1. z[l][1] = a BY <1>2, <3>2
      <4> QED BY <3>1, <4>1
    <3>3. CASE l # Len(runs) + 1
      <4>1. l \in DOMAIN runs /\ z[l] = runs[l] BY <1>2, <3>3
      <4> QED BY <2>1, <3>1, <4>1 DEF Apart
    <3> QED BY <3>2, <3>3
  <2> QED BY <1>2, <2>1 DEF Apart
<1>4. ASSUME NEW i \in Nat, Within(i, runs) \/ (a <= i /\ i <= b) PROVE Within(i, z)
  <2>1. CASE Within(i, runs)
    <3>1. PICK k \in DOMAIN runs : i \in runs[k][1]..runs[k][2] BY <2>1 DEF Within
    <3>2. k \in DOMAIN z /\ z[k] = runs[k]
      <4>0. Len(runs) \in Nat /\ k \in 1..Len(runs) BY <1>2, <3>1
      <4>1. k \in 1..(Len(runs) + 1) /\ k # Len(runs) + 1 BY <4>0
      <4> QED BY <1>2, <4>1
    <3> QED BY <3>1, <3>2 DEF Within
  <2>2. CASE a <= i /\ i <= b
    <3>1. Len(runs) + 1 \in DOMAIN z /\ z[Len(runs) + 1] = <<a, b>> BY <1>2
    <3>2. i \in z[Len(runs) + 1][1]..z[Len(runs) + 1][2] BY <2>2, <3>1
    <3> QED BY <3>1, <3>2 DEF Within
  <2> QED BY <1>4, <2>1, <2>2
<1>5. Appended(runs, a, b, z) BY <1>2, <1>3, <1>4 DEF Appended
<1> QED BY <1>5 DEF z

LEMMA FlagStepKeeps ==
  ASSUME NEW flags, Len(flags) \in Nat, \A i \in 1..Len(flags) : flags[i] \in BOOLEAN,
         NEW acc, NEW i \in 1..Len(flags), FlagInv(flags, acc, i - 1)
  PROVE  FlagInv(flags, FlagStep(flags, acc, i), i)
<1> DEFINE new == FlagStep(flags, acc, i)
<1>0. /\ acc.open \in Nat /\ acc.runs \in Seq(Nat \X Nat) /\ acc.open <= i - 1
      /\ acc = [open |-> acc.open, runs |-> acc.runs] /\ i - 1 \in Nat /\ i \in Nat
      /\ \A k \in DOMAIN acc.runs : acc.runs[k][1] \in Nat /\ acc.runs[k][2] \in Nat
  BY DEF FlagInv
<1>1. CASE flags[i] /\ acc.open = 0
  <2>1. new = [open |-> i, runs |-> acc.runs] BY <1>0, <1>1 DEF FlagStep
  <2>2. i > 1 => ~ flags[i - 1] BY <1>1 DEF FlagInv
  <2>3. \A j \in i..i : flags[j] BY <1>1
  <2>4. \A k \in DOMAIN acc.runs : Stretch(flags, acc.runs[k]) /\ acc.runs[k][2] < i
    BY <1>0 DEF FlagInv
  <2>5. \A j \in 1..i : flags[j] => Within(j, acc.runs) \/ (i > 0 /\ i <= j)
    <3>1. \A j \in 1..(i - 1) : flags[j] => Within(j, acc.runs) BY <1>1 DEF FlagInv
    <3>2. \A j \in 1..i : j \in 1..(i - 1) \/ i <= j OBVIOUS
    <3> QED BY <3>1, <3>2
  <2>6. Apart(acc.runs) BY DEF FlagInv
  <2> QED BY <1>0, <2>1, <2>2, <2>3, <2>4, <2>5, <2>6 DEF FlagInv
<1>2. CASE flags[i] /\ acc.open # 0
  <2>1. new = acc BY <1>0, <1>2 DEF FlagStep
  <2>2. \A j \in acc.open..i : flags[j]
    <3>1. \A j \in acc.open..i : j \in acc.open..(i - 1) \/ j = i BY <1>0
    <3> QED BY <1>0, <1>2, <3>1 DEF FlagInv
  <2>3. \A k \in DOMAIN acc.runs : Stretch(flags, acc.runs[k]) /\ acc.runs[k][2] < i
                                  /\ acc.runs[k][2] < acc.open
    BY <1>0, <1>2 DEF FlagInv
  <2>4. \A j \in 1..i : flags[j] => Within(j, acc.runs) \/ (acc.open > 0 /\ acc.open <= j)
    <3>1. \A j \in 1..(i - 1) : flags[j] => Within(j, acc.runs) \/ (acc.open > 0 /\ acc.open <= j)
      BY DEF FlagInv
    <3>2. \A j \in 1..i : j \in 1..(i - 1) \/ (acc.open > 0 /\ acc.open <= j) BY <1>0, <1>2
    <3> QED BY <3>1, <3>2
  <2>5. Apart(acc.runs) /\ (acc.open > 1 => ~ flags[acc.open - 1]) BY DEF FlagInv
  <2> QED BY <1>0, <1>2, <2>1, <2>2, <2>3, <2>4, <2>5 DEF FlagInv
<1>3. CASE ~ flags[i] /\ acc.open = 0
  <2>1. new = acc BY <1>0, <1>3 DEF FlagStep
  <2>2. \A k \in DOMAIN acc.runs : Stretch(flags, acc.runs[k]) /\ acc.runs[k][2] < i
    BY <1>0 DEF FlagInv
  <2>3. \A j \in 1..i : flags[j] => Within(j, acc.runs)
    <3>1. \A j \in 1..(i - 1) : flags[j] => Within(j, acc.runs) BY <1>3 DEF FlagInv
    <3>2. \A j \in 1..i : j \in 1..(i - 1) \/ j = i OBVIOUS
    <3> QED BY <1>3, <3>1, <3>2
  <2>4. Apart(acc.runs) BY DEF FlagInv
  <2> QED BY <1>0, <1>3, <2>1, <2>2, <2>3, <2>4 DEF FlagInv
<1>4. CASE ~ flags[i] /\ acc.open # 0
  <2> DEFINE a == acc.open
             z == Append(acc.runs, <<a, i - 1>>)
  <2>1. new = [open |-> 0, runs |-> z] BY <1>0, <1>4 DEF FlagStep
  <2>2. \A k \in DOMAIN acc.runs : acc.runs[k][2] < a BY <1>0, <1>4 DEF FlagInv
  <2>3. /\ z \in Seq(Nat \X Nat) /\ Apart(z) /\ DOMAIN z = 1..(Len(acc.runs) + 1)
        /\ \A j \in Nat : Within(j, acc.runs) \/ (a <= j /\ j <= i - 1) => Within(j, z)
        /\ \A k \in 1..(Len(acc.runs) + 1) :
             z[k] = IF k = Len(acc.runs) + 1 THEN <<a, i - 1>> ELSE acc.runs[k]
    <3>1. Apart(acc.runs) BY DEF FlagInv
    <3>2. Appended(acc.runs, a, i - 1, z) BY <1>0, <2>2, <3>1, Closed
    <3> QED BY <3>2 DEF Appended
  <2>4. Stretch(flags, <<a, i - 1>>)
    <3>1. /\ \A j \in a..(i - 1) : flags[j]
          /\ a > 1 => ~ flags[a - 1]
      BY <1>0, <1>4 DEF FlagInv
    <3> QED BY <1>0, <1>4, <3>1 DEF Stretch
  <2>5. \A k \in DOMAIN z : Stretch(flags, z[k]) /\ z[k][2] < i
    <3>1. \A k \in DOMAIN acc.runs : Stretch(flags, acc.runs[k]) /\ acc.runs[k][2] < i
      BY <1>0 DEF FlagInv
    <3>2. DOMAIN acc.runs = 1..Len(acc.runs) /\ Len(acc.runs) \in Nat BY <1>0
    <3>3. ASSUME NEW k \in DOMAIN z PROVE Stretch(flags, z[k]) /\ z[k][2] < i
      <4>1. CASE k = Len(acc.runs) + 1 BY <2>3, <2>4, <4>1, <1>0
      <4>2. CASE k # Len(acc.runs) + 1
        <5>1. k \in DOMAIN acc.runs /\ z[k] = acc.runs[k] BY <2>3, <3>2, <4>2
        <5> QED BY <3>1, <5>1
      <4> QED BY <4>1, <4>2
    <3> QED BY <3>3
  <2>6. \A j \in 1..i : flags[j] => Within(j, z)
    <3>1. \A j \in 1..(i - 1) : flags[j] => Within(j, acc.runs) \/ a <= j
      BY DEF FlagInv
    <3>2. \A j \in 1..i : (j \in 1..(i - 1) /\ j \in Nat /\ j <= i - 1) \/ j = i OBVIOUS
    <3> QED BY <1>4, <2>3, <3>1, <3>2
  <2> HIDE DEF z
  <2> QED BY <1>0, <1>4, <2>1, <2>3, <2>5, <2>6 DEF FlagInv
<1> QED BY <1>1, <1>2, <1>3, <1>4

(* The runs are the stretches of TRUE: every flag that is set is in one.     *)
LEMMA RunsTile ==
  ASSUME NEW flags, Len(flags) \in Nat, \A i \in 1..Len(flags) : flags[i] \in BOOLEAN
  PROVE  /\ Runs(flags) \in Seq(Nat \X Nat) /\ Apart(Runs(flags))
         /\ \A k \in DOMAIN Runs(flags) : Stretch(flags, Runs(flags)[k])
         /\ \A i \in 1..Len(flags) : flags[i] => Within(i, Runs(flags))
<1> DEFINE n == Len(flags)
           f == CHOOSE f : IsFlagPass(flags, f)
           T == {i \in Nat : i <= n => FlagInv(flags, f[i], i)}
<1>1. IsFlagPass(flags, f) BY FlagPassHolds
<1> HIDE DEF f
<1>2. f[0] = NoRuns /\ \A i \in 1..n : f[i] = FlagStep(flags, f[i - 1], i)
  BY <1>1 DEF IsFlagPass
<1>3. 0 \in T
  <2>1. /\ NoRuns \in [open : Nat, runs : Seq(Nat \X Nat)] /\ NoRuns.open = 0
        /\ NoRuns.runs = <<>> /\ DOMAIN NoRuns.runs = {}
    BY DEF NoRuns
  <2>2. FlagInv(flags, NoRuns, 0) BY <2>1 DEF FlagInv, Apart
  <2> QED BY <1>2, <2>2
<1>4. ASSUME NEW i \in Nat, i \in T PROVE i + 1 \in T
  <2> SUFFICES ASSUME i + 1 <= n PROVE FlagInv(flags, f[i + 1], i + 1) OBVIOUS
  <2>1. FlagInv(flags, f[i], i) /\ i + 1 \in 1..n /\ (i + 1) - 1 = i BY <1>4
  <2>2. f[i + 1] = FlagStep(flags, f[i], i + 1) BY <1>2, <2>1
  <2>3. FlagInv(flags, FlagStep(flags, f[i], i + 1), i + 1) BY <2>1, FlagStepKeeps
  <2> QED BY <2>2, <2>3
<1> HIDE DEF T
<1>5. n \in T BY <1>3, <1>4, NatInd
<1> DEFINE end == f[n]
<1>6. FlagInv(flags, end, n) BY <1>5 DEF T
<1>7. Runs(flags) = IF end.open = 0 THEN end.runs ELSE Append(end.runs, <<end.open, n>>)
  BY RunsAre DEF f
<1> HIDE DEF end
<1>8. CASE end.open = 0
  BY <1>6, <1>7, <1>8 DEF FlagInv
<1>9. CASE end.open # 0
  <2> DEFINE a == end.open
             z == Append(end.runs, <<a, n>>)
  <2>0. Runs(flags) = z /\ a \in Nat /\ a > 0 /\ a <= n /\ end.runs \in Seq(Nat \X Nat)
    BY <1>6, <1>7, <1>9 DEF FlagInv
  <2>1. Apart(end.runs) /\ \A k \in DOMAIN end.runs : end.runs[k][2] < a
    BY <1>6, <2>0 DEF FlagInv
  <2>2. /\ z \in Seq(Nat \X Nat) /\ Apart(z) /\ DOMAIN z = 1..(Len(end.runs) + 1)
        /\ \A j \in Nat : Within(j, end.runs) \/ (a <= j /\ j <= n) => Within(j, z)
        /\ \A k \in 1..(Len(end.runs) + 1) :
             z[k] = IF k = Len(end.runs) + 1 THEN <<a, n>> ELSE end.runs[k]
    <3>1. Appended(end.runs, a, n, z) BY <2>0, <2>1, Closed
    <3> QED BY <3>1 DEF Appended
  <2>3. Stretch(flags, <<a, n>>)
    <3>1. /\ \A j \in a..n : flags[j]
          /\ a > 1 => ~ flags[a - 1]
      BY <1>6, <2>0 DEF FlagInv
    <3> QED BY <2>0, <3>1 DEF Stretch
  <2>4. ASSUME NEW k \in DOMAIN z PROVE Stretch(flags, z[k])
    <3>1. CASE k = Len(end.runs) + 1 BY <2>2, <2>3, <3>1
    <3>2. CASE k # Len(end.runs) + 1
      <4>1. k \in DOMAIN end.runs /\ z[k] = end.runs[k] BY <2>0, <2>2, <3>2, SMTT(30)
      <4> QED BY <1>6, <4>1 DEF FlagInv
    <3> QED BY <3>1, <3>2
  <2>5. \A j \in 1..n : flags[j] => Within(j, z)
    <3>1. \A j \in 1..n : flags[j] => Within(j, end.runs) \/ a <= j BY <1>6 DEF FlagInv
    <3>2. \A j \in 1..n : j \in Nat /\ j <= n OBVIOUS
    <3> QED BY <2>2, <3>1, <3>2
  <2> HIDE DEF z
  <2> QED BY <2>0, <2>2, <2>4, <2>5
<1> QED BY <1>8, <1>9
-----------------------------------------------------------------------------
LEMMA Constants ==
  /\ MinFrames \in Nat /\ MinFrames > 0 /\ SubLength \in Nat /\ SubLength >= MinFrames
  /\ MaxGap \in Nat /\ MaxFrames \in Nat /\ Context \in Nat
BY ScaleAssumption DEF ScaleAssumption

(* One cut of a run, and the pass over the run.                              *)
CutStep(run, acc) ==
  LET piece == <<acc.next, IF acc.next + SubLength - 1 <= run[2]
                           THEN acc.next + SubLength - 1 ELSE run[2]>>
  IN  [next |-> acc.next + SubLength,
       cut |-> IF Length(piece) >= MinFrames THEN Append(acc.cut, piece) ELSE acc.cut]

NoCuts(run) == [next |-> run[1], cut |-> <<>>]

IsCutPass(run, f) ==
  f = [n \in 0..Length(run) |->
         IF n = 0 THEN NoCuts(run)
         ELSE IF f[n - 1].next > run[2] THEN f[n - 1] ELSE CutStep(run, f[n - 1])]

LEMMA PiecesAre ==
  ASSUME NEW run PROVE Pieces(run) = (CHOOSE f : IsCutPass(run, f))[Length(run)].cut
BY DEF Pieces, IsCutPass, CutStep, NoCuts

LEMMA CutPassHolds ==
  ASSUME NEW run \in Nat \X Nat, 1 <= run[1], run[1] <= run[2]
  PROVE  IsCutPass(run, CHOOSE f : IsCutPass(run, f))
<1> DEFINE n == Length(run)
           S == [next : Nat, cut : Seq(Nat \X Nat)]
           One(acc) == IF acc.next > run[2] THEN acc ELSE CutStep(run, acc)
           Step == [p \in (1..n) \X S |-> One(p[2])]
<1>0. n \in Nat /\ run[1] \in Nat /\ run[2] \in Nat BY DEF Length
<1>1. ASSUME NEW acc \in S PROVE CutStep(run, acc) \in S
  <2>1. acc.next \in Nat /\ acc.cut \in Seq(Nat \X Nat) OBVIOUS
  <2> DEFINE e == IF acc.next + SubLength - 1 <= run[2] THEN acc.next + SubLength - 1 ELSE run[2]
  <2>2. e \in Nat BY <1>0, <2>1, Constants
  <2>3. acc.next + SubLength \in Nat BY <2>1, Constants
  <2>4. Append(acc.cut, <<acc.next, e>>) \in Seq(Nat \X Nat) BY <2>1, <2>2
  <2>5. CutStep(run, acc) = [next |-> acc.next + SubLength,
                             cut |-> IF Length(<<acc.next, e>>) >= MinFrames
                                     THEN Append(acc.cut, <<acc.next, e>>) ELSE acc.cut]
    BY DEF CutStep
  <2> HIDE DEF e
  <2> QED BY <2>1, <2>3, <2>4, <2>5
<1>2. NoCuts(run) \in S BY <1>0 DEF NoCuts
<1>3. \A i \in 1..n, acc \in S : Step[<<i, acc>>] \in S BY <1>1
<1>4. \A i \in 1..n, acc \in S : Step[<<i, acc>>] = One(acc) OBVIOUS
<1> HIDE DEF Step, S, n, One
<1>5. PICK f \in [0..n -> S] : Recursion(n, NoCuts(run), Step, f)
  BY <1>0, <1>2, <1>3, RecursionExists
<1>6. \A i \in 1..n : f[i] = One(f[i - 1])
  <2>1. \A i \in 1..n : i - 1 \in 0..n BY <1>0
  <2> QED BY <1>4, <1>5, <2>1 DEF Recursion
<1>7. \A i \in 0..n : f[i] = IF i = 0 THEN NoCuts(run) ELSE One(f[i - 1])
  <2>1. \A i \in 0..n : i = 0 \/ i \in 1..n BY <1>0
  <2> QED BY <1>5, <1>6, <2>1 DEF Recursion
<1>8. IsCutPass(run, f)
  <2>1. f = [i \in 0..n |-> f[i]] OBVIOUS
  <2>2. f = [i \in 0..n |-> IF i = 0 THEN NoCuts(run) ELSE One(f[i - 1])]
    BY <1>7, <2>1
  <2> QED BY <2>2 DEF IsCutPass, n, One
<1> QED BY <1>8

(* A piece of a run that is long enough to be an episode.                    *)
Piece(run, p) ==
  /\ run[1] <= p[1] /\ p[1] <= p[2] /\ p[2] <= run[2]
  /\ MinFrames <= Length(p) /\ Length(p) <= SubLength

(* What the pass knows after n rounds.                                       *)
CutInv(run, acc, n) ==
  /\ acc \in [next : Nat, cut : Seq(Nat \X Nat)] /\ acc.next >= run[1]
  /\ acc.next > run[2] \/ acc.next >= run[1] + n
  /\ \A k \in DOMAIN acc.cut : Piece(run, acc.cut[k]) /\ acc.cut[k][2] < acc.next
  /\ Apart(acc.cut)
  /\ \A x \in run[1]..run[2] :
       x < acc.next => Within(x, acc.cut) \/ run[2] - x + 1 < MinFrames

LEMMA CutStepKeeps ==
  ASSUME NEW run \in Nat \X Nat, 1 <= run[1], run[1] <= run[2], NEW n \in Nat, NEW acc,
         CutInv(run, acc, n), ~ (acc.next > run[2])
  PROVE  CutInv(run, CutStep(run, acc), n + 1)
<1> DEFINE a == acc.next
           e == IF a + SubLength - 1 <= run[2] THEN a + SubLength - 1 ELSE run[2]
           z == Append(acc.cut, <<a, e>>)
<1>1. /\ a \in Nat /\ acc.cut \in Seq(Nat \X Nat) /\ run[1] \in Nat /\ run[2] \in Nat
      /\ run[1] <= a /\ a <= run[2] /\ a >= run[1] + n
      /\ DOMAIN acc.cut = 1..Len(acc.cut) /\ Len(acc.cut) \in Nat
      /\ \A k \in DOMAIN acc.cut : acc.cut[k][1] \in Nat /\ acc.cut[k][2] \in Nat
  BY DEF CutInv
<1>2. /\ e \in Nat /\ a <= e /\ e <= run[2] /\ e - a + 1 <= SubLength /\ e < a + SubLength
      /\ e = run[2] \/ e - a + 1 = SubLength
      /\ a + SubLength \in Nat /\ a + SubLength > a
  BY <1>1, Constants, SMTT(30)
<1>3. CutStep(run, acc) = [next |-> a + SubLength,
                           cut |-> IF e - a + 1 >= MinFrames THEN z ELSE acc.cut]
  BY DEF CutStep, Length
<1>4. /\ \A k \in DOMAIN acc.cut : Piece(run, acc.cut[k]) /\ acc.cut[k][2] < a
      /\ Apart(acc.cut)
      /\ \A x \in run[1]..run[2] : x < a => Within(x, acc.cut) \/ run[2] - x + 1 < MinFrames
  BY DEF CutInv
<1> HIDE DEF a, e
<1>5. a + SubLength >= run[1] /\ a + SubLength >= run[1] + (n + 1)
  BY <1>1, Constants
<1>6. /\ z \in Seq(Nat \X Nat) /\ Apart(z) /\ DOMAIN z = 1..(Len(acc.cut) + 1)
      /\ \A j \in Nat : Within(j, acc.cut) \/ (a <= j /\ j <= e) => Within(j, z)
      /\ \A k \in 1..(Len(acc.cut) + 1) :
           z[k] = IF k = Len(acc.cut) + 1 THEN <<a, e>> ELSE acc.cut[k]
  <2>1. /\ acc.cut \in Seq(Nat \X Nat) /\ a \in Nat /\ e \in Nat /\ Apart(acc.cut)
        /\ \A k \in DOMAIN acc.cut : acc.cut[k][2] < a
    BY <1>1, <1>2, <1>4
  <2>2. Appended(acc.cut, a, e, z) BY <2>1, Closed
  <2> QED BY <2>2 DEF Appended
<1> HIDE DEF z
<1>7. CASE e - a + 1 >= MinFrames
  <2>1. CutStep(run, acc) = [next |-> a + SubLength, cut |-> z] BY <1>3, <1>7
  <2>2. ASSUME NEW k \in DOMAIN z PROVE Piece(run, z[k]) /\ z[k][2] < a + SubLength
    <3>1. CASE k = Len(acc.cut) + 1
      <4>1. z[k] = <<a, e>> BY <1>6, <3>1
      <4> QED BY <1>1, <1>2, <1>7, <4>1 DEF Piece, Length
    <3>2. CASE k # Len(acc.cut) + 1
      <4>1. k \in 1..Len(acc.cut) BY <1>1, <1>6, <3>2, SMTT(30)
      <4>2. k \in DOMAIN acc.cut /\ z[k] = acc.cut[k] BY <1>1, <1>6, <3>2, <4>1
      <4>3. Piece(run, z[k]) /\ z[k][2] < a /\ z[k][2] \in Nat BY <1>1, <1>4, <4>2
      <4> QED BY <1>1, <4>3, Constants
    <3> QED BY <3>1, <3>2
  <2>3. ASSUME NEW x \in run[1]..run[2], x < a + SubLength
        PROVE  Within(x, z) \/ run[2] - x + 1 < MinFrames
    <3>0. x \in Nat BY <1>1
    <3>1. CASE x < a BY <1>4, <1>6, <3>0, <3>1
    <3>2. CASE ~ (x < a)
      <4>1. a <= x /\ x <= e BY <1>1, <1>2, <2>3, <3>0, <3>2, Constants
      <4> QED BY <1>6, <3>0, <4>1
    <3> QED BY <3>1, <3>2
  <2> QED BY <1>2, <1>5, <1>6, <2>1, <2>2, <2>3 DEF CutInv
<1>8. CASE ~ (e - a + 1 >= MinFrames)
  <2>1. CutStep(run, acc) = [next |-> a + SubLength, cut |-> acc.cut] BY <1>3, <1>8
  <2>2. ASSUME NEW k \in DOMAIN acc.cut
        PROVE  Piece(run, acc.cut[k]) /\ acc.cut[k][2] < a + SubLength
    <3>1. Piece(run, acc.cut[k]) /\ acc.cut[k][2] < a /\ acc.cut[k][2] \in Nat BY <1>1, <1>4
    <3> QED BY <1>1, <3>1, Constants, SMTT(30)
  <2>3. ASSUME NEW x \in run[1]..run[2], x < a + SubLength
        PROVE  Within(x, acc.cut) \/ run[2] - x + 1 < MinFrames
    <3>0. x \in Nat BY <1>1
    <3>1. CASE x < a BY <1>4, <3>1
    <3>2. CASE ~ (x < a)
      <4>1. e = run[2] BY <1>1, <1>2, <1>8, Constants
      <4> QED BY <1>1, <1>2, <1>8, <3>0, <3>2, <4>1, Constants, SMTT(30)
    <3> QED BY <3>1, <3>2
  <2>4. /\ acc.cut \in Seq(Nat \X Nat) /\ a + SubLength \in Nat /\ Apart(acc.cut)
    BY <1>1, <1>2, <1>4
  <2> QED BY <1>5, <2>1, <2>2, <2>3, <2>4 DEF CutInv
<1> QED BY <1>7, <1>8

(* The pieces of a run are apart, of a length to be written, and what they   *)
(* leave out is a tail too short for another one.                            *)
LEMMA PiecesTile ==
  ASSUME NEW run \in Nat \X Nat, 1 <= run[1], run[1] <= run[2]
  PROVE  /\ Pieces(run) \in Seq(Nat \X Nat) /\ Apart(Pieces(run))
         /\ \A k \in DOMAIN Pieces(run) : Piece(run, Pieces(run)[k])
         /\ \A x \in run[1]..run[2] :
              Within(x, Pieces(run)) \/ run[2] - x + 1 < MinFrames
<1> DEFINE n == Length(run)
           f == CHOOSE f : IsCutPass(run, f)
           T == {i \in Nat : i <= n => CutInv(run, f[i], i)}
<1>0. n \in Nat /\ run[1] \in Nat /\ run[2] \in Nat /\ run[1] + n > run[2] BY DEF Length
<1>1. IsCutPass(run, f) BY CutPassHolds
<1> HIDE DEF f
<1>2. /\ f[0] = NoCuts(run)
      /\ \A i \in 1..n : f[i] = IF f[i - 1].next > run[2] THEN f[i - 1] ELSE CutStep(run, f[i - 1])
  BY <1>0, <1>1 DEF IsCutPass
<1>3. 0 \in T
  <2>1. /\ NoCuts(run) \in [next : Nat, cut : Seq(Nat \X Nat)] /\ NoCuts(run).next = run[1]
        /\ NoCuts(run).cut = <<>> /\ DOMAIN NoCuts(run).cut = {}
    BY <1>0 DEF NoCuts
  <2>2. CutInv(run, NoCuts(run), 0) BY <1>0, <2>1 DEF CutInv, Apart
  <2> QED BY <1>2, <2>2
<1>4. ASSUME NEW i \in Nat, i \in T PROVE i + 1 \in T
  <2> SUFFICES ASSUME i + 1 <= n PROVE CutInv(run, f[i + 1], i + 1) OBVIOUS
  <2>1. CutInv(run, f[i], i) /\ i + 1 \in 1..n /\ (i + 1) - 1 = i BY <1>0, <1>4
  <2>2. CASE f[i].next > run[2]
    <3>1. f[i + 1] = f[i] BY <1>2, <2>1, <2>2
    <3> QED BY <2>1, <2>2, <3>1 DEF CutInv
  <2>3. CASE ~ (f[i].next > run[2])
    <3>1. f[i + 1] = CutStep(run, f[i]) BY <1>2, <2>1, <2>3
    <3>2. CutInv(run, CutStep(run, f[i]), i + 1) BY <2>1, <2>3, CutStepKeeps
    <3> QED BY <3>1, <3>2
  <2> QED BY <2>2, <2>3
<1> HIDE DEF T
<1>5. n \in T BY <1>0, <1>3, <1>4, NatInd
<1>6. CutInv(run, f[n], n) BY <1>0, <1>5 DEF T
<1>7. Pieces(run) = f[n].cut BY PiecesAre DEF f
<1>8. f[n].next > run[2] /\ f[n].next \in Nat
  <2>1. f[n].next \in Nat /\ (f[n].next > run[2] \/ f[n].next >= run[1] + n) BY <1>6 DEF CutInv
  <2> HIDE DEF n
  <2> QED BY <1>0, <2>1
<1>9. \A x \in run[1]..run[2] : x < f[n].next BY <1>0, <1>8
<1> HIDE DEF n
<1> QED BY <1>6, <1>7, <1>9 DEF CutInv
-----------------------------------------------------------------------------
(* The pass over the runs.                                                   *)
More(run) == IF Length(run) >= MinFrames THEN Pieces(run) ELSE <<>>

IsSplit(runs, f) ==
  f = [n \in 0..Len(runs) |-> IF n = 0 THEN <<>> ELSE f[n - 1] \o More(runs[n])]

Split(runs) == (CHOOSE f : IsSplit(runs, f))[Len(runs)]

Flags == [i \in Indices |-> Usable(i)]

LEMMA SubEpisodesAre == SubEpisodes = Split(Runs(Flags))
BY DEF SubEpisodes, Split, IsSplit, More, Flags

(* Runs of a sequence of n flags.                                            *)
RunsOf(runs, n) ==
  /\ runs \in Seq(Nat \X Nat) /\ Apart(runs)
  /\ \A k \in DOMAIN runs : 1 <= runs[k][1] /\ runs[k][1] <= runs[k][2] /\ runs[k][2] <= n

LEMMA MoreTiles ==
  ASSUME NEW run \in Nat \X Nat, 1 <= run[1], run[1] <= run[2]
  PROVE  /\ More(run) \in Seq(Nat \X Nat) /\ Apart(More(run))
         /\ \A k \in DOMAIN More(run) : Piece(run, More(run)[k])
         /\ \A x \in run[1]..run[2] : Within(x, More(run)) \/ run[2] - x + 1 < MinFrames
<1>1. CASE Length(run) >= MinFrames BY <1>1, PiecesTile DEF More
<1>2. CASE ~ (Length(run) >= MinFrames)
  <2>1. More(run) = <<>> /\ DOMAIN More(run) = {} BY <1>2 DEF More
  <2>2. run[1] \in Nat /\ run[2] \in Nat OBVIOUS
  <2>3. \A x \in run[1]..run[2] : run[2] - x + 1 < MinFrames
    BY <1>2, <2>2, Constants DEF Length
  <2> QED BY <2>1, <2>3 DEF Apart
<1> QED BY <1>1, <1>2

LEMMA SplitHolds ==
  ASSUME NEW runs, NEW m, RunsOf(runs, m)
  PROVE  IsSplit(runs, CHOOSE f : IsSplit(runs, f))
<1> DEFINE n == Len(runs)
           S == Seq(Nat \X Nat)
           One(i, s) == s \o More(runs[i])
           Step == [p \in (1..n) \X S |-> One(p[1], p[2])]
<1>0. n \in Nat /\ runs \in Seq(Nat \X Nat) BY DEF RunsOf
<1>1. ASSUME NEW i \in 1..n, NEW s \in S PROVE One(i, s) \in S
  <2>1. runs[i] \in Nat \X Nat /\ i \in DOMAIN runs BY <1>0
  <2>2. 1 <= runs[i][1] /\ runs[i][1] <= runs[i][2] BY <2>1 DEF RunsOf
  <2>3. More(runs[i]) \in S BY <2>1, <2>2, MoreTiles
  <2> QED BY <2>3
<1>2. <<>> \in S OBVIOUS
<1>3. \A i \in 1..n, s \in S : Step[<<i, s>>] \in S BY <1>1
<1>4. \A i \in 1..n, s \in S : Step[<<i, s>>] = One(i, s) OBVIOUS
<1> HIDE DEF Step, S, n, One
<1>5. PICK f \in [0..n -> S] : Recursion(n, <<>>, Step, f)
  BY <1>0, <1>2, <1>3, RecursionExists
<1>6. \A i \in 1..n : f[i] = One(i, f[i - 1])
  <2>1. \A i \in 1..n : i - 1 \in 0..n BY <1>0
  <2> QED BY <1>4, <1>5, <2>1 DEF Recursion
<1>7. \A i \in 0..n : f[i] = IF i = 0 THEN <<>> ELSE One(i, f[i - 1])
  <2>1. \A i \in 0..n : i = 0 \/ i \in 1..n BY <1>0
  <2> QED BY <1>5, <1>6, <2>1 DEF Recursion
<1>8. IsSplit(runs, f)
  <2>1. f = [i \in 0..n |-> f[i]] OBVIOUS
  <2>2. f = [i \in 0..n |-> IF i = 0 THEN <<>> ELSE One(i, f[i - 1])] BY <1>7, <2>1
  <2> QED BY <2>2 DEF IsSplit, n, One
<1> QED BY <1>8

(* Two sequences of stretches, the second behind the first.                  *)
Joined(s, t, z) ==
  /\ z \in Seq(Nat \X Nat) /\ Apart(z)
  /\ \A i : Within(i, s) \/ Within(i, t) => Within(i, z)
  /\ \A k \in DOMAIN z : \/ \E l \in DOMAIN s : z[k] = s[l]
                         \/ \E l \in DOMAIN t : z[k] = t[l]

LEMMA Joins ==
  ASSUME NEW s \in Seq(Nat \X Nat), NEW t \in Seq(Nat \X Nat), Apart(s), Apart(t),
         \A k \in DOMAIN s : \A l \in DOMAIN t : s[k][2] < t[l][1]
  PROVE  Joined(s, t, s \o t)
<1> DEFINE z == s \o t
<1>1. /\ z \in Seq(Nat \X Nat) /\ Len(s) \in Nat /\ Len(t) \in Nat
      /\ DOMAIN z = 1..(Len(s) + Len(t)) /\ DOMAIN s = 1..Len(s) /\ DOMAIN t = 1..Len(t)
      /\ \A k \in 1..(Len(s) + Len(t)) : z[k] = IF k <= Len(s) THEN s[k] ELSE t[k - Len(s)]
  OBVIOUS
<1> HIDE DEF z
<1>2. ASSUME NEW k \in DOMAIN z
      PROVE  IF k <= Len(s) THEN k \in DOMAIN s /\ z[k] = s[k]
             ELSE k - Len(s) \in DOMAIN t /\ z[k] = t[k - Len(s)]
  <2>1. k \in 1..(Len(s) + Len(t)) /\ k \in Nat BY <1>1
  <2>2. IF k <= Len(s) THEN k \in 1..Len(s) ELSE k - Len(s) \in 1..Len(t) BY <1>1, <2>1, SMTT(30)
  <2> QED BY <1>1, <2>1, <2>2
<1>3. Apart(z)
  <2>1. ASSUME NEW k \in DOMAIN z, NEW l \in DOMAIN z, k < l PROVE z[k][2] < z[l][1]
    <3>0. k \in Nat /\ l \in Nat /\ Len(s) \in Nat BY <1>1, SMTT(30)
    <3>1. CASE l <= Len(s)
      <4>1. k <= Len(s) BY <2>1, <3>0, <3>1
      <4>2. k \in DOMAIN s /\ z[k] = s[k] /\ l \in DOMAIN s /\ z[l] = s[l] BY <1>2, <3>1, <4>1
      <4> QED BY <2>1, <4>2 DEF Apart
    <3>2. CASE k <= Len(s) /\ ~ (l <= Len(s))
      <4>1. /\ k \in DOMAIN s /\ z[k] = s[k]
            /\ l - Len(s) \in DOMAIN t /\ z[l] = t[l - Len(s)]
        BY <1>2, <3>2
      <4> QED BY <4>1
    <3>3. CASE ~ (k <= Len(s)) /\ ~ (l <= Len(s))
      <4>1. /\ k - Len(s) \in DOMAIN t /\ z[k] = t[k - Len(s)]
            /\ l - Len(s) \in DOMAIN t /\ z[l] = t[l - Len(s)]
        BY <1>2, <3>3
      <4>2. k - Len(s) < l - Len(s) BY <2>1, <3>0
      <4> QED BY <4>1, <4>2 DEF Apart
    <3> QED BY <3>1, <3>2, <3>3
  <2> QED BY <2>1 DEF Apart
<1>4. ASSUME NEW i, Within(i, s) \/ Within(i, t) PROVE Within(i, z)
  <2>1. CASE Within(i, s)
    <3>1. PICK k \in DOMAIN s : i \in s[k][1]..s[k][2] BY <2>1 DEF Within
    <3>2. k \in 1..(Len(s) + Len(t)) /\ k <= Len(s) BY <1>1
    <3>3. k \in DOMAIN z /\ z[k] = s[k] BY <1>1, <3>2
    <3> QED BY <3>1, <3>3 DEF Within
  <2>2. CASE Within(i, t)
    <3>1. PICK k \in DOMAIN t : i \in t[k][1]..t[k][2] BY <2>2 DEF Within
    <3>2. k \in Nat /\ Len(s) + k \in 1..(Len(s) + Len(t)) /\ ~ (Len(s) + k <= Len(s))
          /\ (Len(s) + k) - Len(s) = k
      <4>1. Len(s) \in Nat /\ Len(t) \in Nat /\ k \in 1..Len(t) BY <1>1
      <4>2. \A a, b, c \in Int : 0 <= a /\ 1 <= c /\ c <= b =>
              c \in Nat /\ a + c \in 1..(a + b) /\ ~ (a + c <= a) /\ (a + c) - a = c
        OBVIOUS
      <4> QED BY <4>1, <4>2
    <3>3. Len(s) + k \in DOMAIN z /\ z[Len(s) + k] = t[k] BY <1>1, <3>2
    <3> QED BY <3>1, <3>3 DEF Within
  <2> QED BY <1>4, <2>1, <2>2
<1>5. ASSUME NEW k \in DOMAIN z
      PROVE  \/ \E l \in DOMAIN s : z[k] = s[l]
             \/ \E l \in DOMAIN t : z[k] = t[l]
  BY <1>2
<1>6. Joined(s, t, z) BY <1>1, <1>3, <1>4, <1>5 DEF Joined
<1> QED BY <1>6 DEF z

(* What the pass knows after n runs.                                         *)
SplitInv(runs, s, n) ==
  /\ s \in Seq(Nat \X Nat) /\ Apart(s)
  /\ \A k \in DOMAIN s : \E r \in 1..n : Piece(runs[r], s[k])
  /\ \A r \in 1..n : \A x \in runs[r][1]..runs[r][2] :
       Within(x, s) \/ runs[r][2] - x + 1 < MinFrames

LEMMA SplitStepKeeps ==
  ASSUME NEW runs, NEW m, RunsOf(runs, m), NEW s, NEW n \in 1..Len(runs),
         SplitInv(runs, s, n - 1)
  PROVE  SplitInv(runs, s \o More(runs[n]), n)
<1> DEFINE t == More(runs[n])
           z == s \o t
<1>0. /\ runs \in Seq(Nat \X Nat) /\ s \in Seq(Nat \X Nat) /\ Apart(s)
      /\ DOMAIN runs = 1..Len(runs) /\ Len(runs) \in Nat /\ n \in Nat /\ n \in DOMAIN runs
  BY DEF RunsOf, SplitInv
<1>1. runs[n] \in Nat \X Nat /\ 1 <= runs[n][1] /\ runs[n][1] <= runs[n][2]
  <2>1. runs[n] \in Nat \X Nat BY <1>0
  <2>2. \A k \in DOMAIN runs : 1 <= runs[k][1] /\ runs[k][1] <= runs[k][2] BY DEF RunsOf
  <2> QED BY <1>0, <2>1, <2>2
<1>2. /\ t \in Seq(Nat \X Nat) /\ Apart(t)
      /\ \A k \in DOMAIN t : Piece(runs[n], t[k])
      /\ \A x \in runs[n][1]..runs[n][2] : Within(x, t) \/ runs[n][2] - x + 1 < MinFrames
  BY <1>1, MoreTiles
<1> HIDE DEF t
<1>3. ASSUME NEW k \in DOMAIN s, NEW l \in DOMAIN t PROVE s[k][2] < t[l][1]
  <2>1. PICK r \in 1..(n - 1) : Piece(runs[r], s[k]) BY DEF SplitInv
  <2>2. r \in DOMAIN runs /\ r < n BY <1>0
  <2>3. runs[r][2] < runs[n][1] BY <1>0, <2>2 DEF RunsOf, Apart
  <2>4. s[k][2] <= runs[r][2] /\ runs[n][1] <= t[l][1] BY <1>2, <2>1 DEF Piece
  <2>5. runs[r] \in Nat \X Nat /\ s[k] \in Nat \X Nat /\ t[l] \in Nat \X Nat
    BY <1>0, <1>2, <2>2
  <2>6. /\ runs[r][2] \in Nat /\ s[k][2] \in Nat /\ t[l][1] \in Nat /\ runs[n][1] \in Nat
    BY <1>1, <2>5
  <2>7. \A w, x, y, u \in Nat : w < x /\ y <= w /\ x <= u => y < u OBVIOUS
  <2> QED BY <2>3, <2>4, <2>6, <2>7
<1>4. Joined(s, t, z) BY <1>0, <1>2, <1>3, Joins
<1> HIDE DEF z
<1>5. ASSUME NEW k \in DOMAIN z PROVE \E r \in 1..n : Piece(runs[r], z[k])
  <2>1. CASE \E l \in DOMAIN s : z[k] = s[l]
    <3>1. PICK r \in 1..(n - 1) : Piece(runs[r], z[k]) BY <2>1 DEF SplitInv
    <3>2. r \in 1..n BY <1>0
    <3> QED BY <3>1, <3>2
  <2>2. CASE \E l \in DOMAIN t : z[k] = t[l]
    <3>1. Piece(runs[n], z[k]) /\ n \in 1..n BY <1>0, <1>2, <2>2
    <3> QED BY <3>1
  <2> QED BY <1>4, <2>1, <2>2 DEF Joined
<1>6. ASSUME NEW r \in 1..n, NEW x \in runs[r][1]..runs[r][2]
      PROVE  Within(x, z) \/ runs[r][2] - x + 1 < MinFrames
  <2>1. CASE r = n
    <3>1. Within(x, t) \/ runs[r][2] - x + 1 < MinFrames BY <1>2, <2>1
    <3> QED BY <1>4, <3>1 DEF Joined
  <2>2. CASE r # n
    <3>1. r \in 1..(n - 1) BY <1>0, <2>2
    <3>2. Within(x, s) \/ runs[r][2] - x + 1 < MinFrames BY <3>1 DEF SplitInv
    <3> QED BY <1>4, <3>2 DEF Joined
  <2> QED BY <2>1, <2>2
<1>7. SplitInv(runs, z, n) BY <1>4, <1>5, <1>6 DEF SplitInv, Joined
<1> QED BY <1>7 DEF z, t

LEMMA SplitTiles ==
  ASSUME NEW runs, NEW m, RunsOf(runs, m)
  PROVE  SplitInv(runs, Split(runs), Len(runs))
<1> DEFINE n == Len(runs)
           f == CHOOSE f : IsSplit(runs, f)
           T == {i \in Nat : i <= n => SplitInv(runs, f[i], i)}
<1>0. n \in Nat BY DEF RunsOf
<1>1. IsSplit(runs, f) BY SplitHolds
<1> HIDE DEF f
<1>2. f[0] = <<>> /\ \A i \in 1..n : f[i] = f[i - 1] \o More(runs[i])
  <2>1. f = [i \in 0..n |-> IF i = 0 THEN <<>> ELSE f[i - 1] \o More(runs[i])]
    BY <1>1 DEF IsSplit
  <2>2. 0 \in 0..n /\ \A i \in 1..n : i \in 0..n /\ i # 0 BY <1>0
  <2> HIDE DEF n
  <2> QED BY <2>1, <2>2
<1>3. 0 \in T
  <2>1. DOMAIN <<>> = {} /\ 1..0 = {} /\ <<>> \in Seq(Nat \X Nat) OBVIOUS
  <2>2. SplitInv(runs, <<>>, 0) BY <2>1 DEF SplitInv, Apart
  <2> QED BY <1>2, <2>2
<1>4. ASSUME NEW i \in Nat, i \in T PROVE i + 1 \in T
  <2> SUFFICES ASSUME i + 1 <= n PROVE SplitInv(runs, f[i + 1], i + 1) OBVIOUS
  <2>1. SplitInv(runs, f[i], i) /\ i + 1 \in 1..n /\ (i + 1) - 1 = i BY <1>0, <1>4
  <2>2. f[i + 1] = f[i] \o More(runs[i + 1]) BY <1>2, <2>1
  <2>3. SplitInv(runs, f[i] \o More(runs[i + 1]), i + 1) BY <2>1, SplitStepKeeps
  <2> QED BY <2>2, <2>3
<1> HIDE DEF T
<1>5. n \in T BY <1>0, <1>3, <1>4, NatInd
<1>6. SplitInv(runs, f[n], n) BY <1>0, <1>5 DEF T
<1> QED BY <1>6 DEF Split, f

(* What EpisodesTile asks of the sub-episodes.                               *)
Tiled(s) ==
  /\ s \in Seq(Nat \X Nat) /\ Apart(s)
  /\ \A k \in DOMAIN s : /\ 1 <= s[k][1] /\ s[k][1] <= s[k][2] /\ s[k][2] <= Len(frames)
                         /\ Length(s[k]) \in MinFrames..SubLength
                         /\ \A i \in s[k][1]..s[k][2] : Usable(i)
  /\ \A i \in Indices : i + MinFrames - 1 <= Len(frames) =>
       \E j \in i..(i + MinFrames - 1) : Within(j, s) \/ ~ Usable(j)

LEMMA SubEpisodesTile == ASSUME frames \in Seq(Frame) PROVE Tiled(SubEpisodes)
<1> DEFINE n == Len(frames)
           runs == Runs(Flags)
           s == Split(runs)
<1>0. n \in Nat /\ Indices = 1..n BY DEF Indices
<1>1. /\ Len(Flags) = n /\ \A i \in 1..n : Flags[i] \in BOOLEAN /\ Flags[i] = Usable(i)
  <2>1. \A i \in 1..n : Usable(i) \in BOOLEAN BY DEF Usable
  <2>2. Flags \in [1..n -> BOOLEAN] BY <1>0, <2>1 DEF Flags
  <2>3. Len(Flags) = n BY <1>0, <2>2
  <2> QED BY <1>0, <2>1, <2>3 DEF Flags
<1>2. /\ runs \in Seq(Nat \X Nat) /\ Apart(runs)
      /\ \A k \in DOMAIN runs : Stretch(Flags, runs[k])
      /\ \A i \in 1..n : Flags[i] => Within(i, runs)
  BY <1>0, <1>1, RunsTile
<1> HIDE DEF n, runs
<1>3. RunsOf(runs, n) BY <1>1, <1>2 DEF RunsOf, Stretch
<1>4. SplitInv(runs, s, Len(runs)) BY <1>3, SplitTiles
<1> HIDE DEF s
<1>5. s \in Seq(Nat \X Nat) /\ Apart(s) /\ DOMAIN runs = 1..Len(runs)
  BY <1>2, <1>4 DEF SplitInv
<1>6. ASSUME NEW k \in DOMAIN s
      PROVE  /\ 1 <= s[k][1] /\ s[k][1] <= s[k][2] /\ s[k][2] <= n
             /\ Length(s[k]) \in MinFrames..SubLength
             /\ \A i \in s[k][1]..s[k][2] : Usable(i)
  <2>1. PICK r \in 1..Len(runs) : Piece(runs[r], s[k]) BY <1>4 DEF SplitInv
  <2>2. r \in DOMAIN runs BY <1>5
  <2>3. Stretch(Flags, runs[r]) /\ runs[r] \in Nat \X Nat /\ s[k] \in Nat \X Nat
    BY <1>2, <1>5, <2>2
  <2>4. /\ runs[r][1] \in Nat /\ runs[r][2] \in Nat /\ s[k][1] \in Nat /\ s[k][2] \in Nat
        /\ 1 <= runs[r][1] /\ runs[r][2] <= n
        /\ runs[r][1] <= s[k][1] /\ s[k][1] <= s[k][2] /\ s[k][2] <= runs[r][2]
        /\ MinFrames <= Length(s[k]) /\ Length(s[k]) <= SubLength
    BY <1>1, <2>1, <2>3 DEF Stretch, Piece
  <2>5. Length(s[k]) \in MinFrames..SubLength BY <2>4, Constants DEF Length
  <2>6. ASSUME NEW i \in s[k][1]..s[k][2] PROVE Usable(i)
    <3>1. i \in runs[r][1]..runs[r][2] /\ i \in 1..n BY <1>0, <2>4, SMTT(30)
    <3> QED BY <1>1, <2>3, <3>1 DEF Stretch
  <2> QED BY <1>0, <2>4, <2>5, <2>6
<1>7. ASSUME NEW i \in 1..n, i + MinFrames - 1 <= n,
             \A j \in i..(i + MinFrames - 1) : Usable(j) /\ ~ Within(j, s)
      PROVE  FALSE
  <2>0. i \in Nat /\ n \in Nat /\ i \in i..(i + MinFrames - 1) BY <1>0, Constants
  <2>1. Usable(i) /\ ~ Within(i, s) BY <1>7, <2>0
  <2>2. Within(i, runs) BY <1>1, <1>2, <2>1
  <2>3. PICK r \in DOMAIN runs : i \in runs[r][1]..runs[r][2] BY <2>2 DEF Within
  <2>4. Stretch(Flags, runs[r]) /\ runs[r][1] \in Nat /\ runs[r][2] \in Nat BY <1>2
  <2> DEFINE b == runs[r][2]
  <2>5. i <= b /\ b <= n /\ b \in Nat BY <1>1, <2>0, <2>3, <2>4 DEF Stretch
  <2>6. b - i + 1 < MinFrames
    <3>1. \A x \in runs[r][1]..runs[r][2] : Within(x, s) \/ runs[r][2] - x + 1 < MinFrames
      BY <1>4, <1>5 DEF SplitInv
    <3> QED BY <2>1, <2>3, <3>1
  <2> HIDE DEF b
  <2>7. b < n /\ b + 1 \in i..(i + MinFrames - 1) /\ b + 1 \in 1..n
    BY <1>7, <2>0, <2>5, <2>6, Constants
  <2>8. ~ Flags[b + 1] BY <1>1, <2>4, <2>7 DEF Stretch, b
  <2> QED BY <1>1, <1>7, <2>7, <2>8
<1>8. \A i \in Indices : i + MinFrames - 1 <= n =>
        \E j \in i..(i + MinFrames - 1) : Within(j, s) \/ ~ Usable(j)
  BY <1>0, <1>7 DEF n
<1>9. Tiled(s) BY <1>5, <1>6, <1>8 DEF Tiled, n
<1> QED BY <1>9, SubEpisodesAre DEF s, runs
-----------------------------------------------------------------------------
(* One frame of the pass over an episode's goals, and the pass.              *)
Goal(sub, n) == frames[sub[1] + n].goal

GoalStep(sub, acc, n) ==
  IF Goal(sub, n) = acc.goal THEN acc
  ELSE [goal |-> Goal(sub, n), start |-> n,
        rows |-> IF acc.goal = NoGoal THEN acc.rows
                 ELSE Append(acc.rows, <<acc.goal, acc.start, n - 1>>)]

NoRows == [goal |-> NoGoal, start |-> 0, rows |-> <<>>]

IsGoalPass(sub, f) ==
  f = [n \in 0..Length(sub) |-> IF n = 0 THEN NoRows ELSE GoalStep(sub, f[n - 1], n - 1)]

LEMMA GoalPassIs ==
  ASSUME NEW sub PROVE GoalPass(sub) = (CHOOSE f : IsGoalPass(sub, f))[Length(sub)]
BY DEF GoalPass, IsGoalPass, GoalStep, NoRows, Goal

GoalsOf(sub) == {Goal(sub, k) : k \in Nat} \cup {NoGoal}
RowType(sub) == GoalsOf(sub) \X Int \X Int

LEMMA GoalPassHolds ==
  ASSUME NEW sub, Length(sub) \in Nat
  PROVE  IsGoalPass(sub, CHOOSE f : IsGoalPass(sub, f))
<1> DEFINE n == Length(sub)
           S == [goal : GoalsOf(sub), start : Int, rows : Seq(RowType(sub))]
           Step == [p \in (1..n) \X S |-> GoalStep(sub, p[2], p[1] - 1)]
<1>0. n \in Nat OBVIOUS
<1>1. ASSUME NEW i \in 1..n, NEW acc \in S PROVE GoalStep(sub, acc, i - 1) \in S
  <2>1. i - 1 \in Nat /\ i - 1 \in Int /\ (i - 1) - 1 \in Int BY <1>0
  <2>2. Goal(sub, i - 1) \in GoalsOf(sub) BY <2>1 DEF GoalsOf
  <2>3. acc.goal \in GoalsOf(sub) /\ acc.start \in Int /\ acc.rows \in Seq(RowType(sub)) OBVIOUS
  <2>4. <<acc.goal, acc.start, (i - 1) - 1>> \in RowType(sub) BY <2>1, <2>3 DEF RowType
  <2>5. Append(acc.rows, <<acc.goal, acc.start, (i - 1) - 1>>) \in Seq(RowType(sub)) BY <2>3, <2>4
  <2> QED BY <2>1, <2>2, <2>3, <2>5 DEF GoalStep
<1>2. NoRows \in S BY DEF NoRows, GoalsOf
<1>3. \A i \in 1..n, acc \in S : Step[<<i, acc>>] \in S BY <1>1
<1>4. \A i \in 1..n, acc \in S : Step[<<i, acc>>] = GoalStep(sub, acc, i - 1) OBVIOUS
<1> HIDE DEF Step, S, n
<1>5. PICK f \in [0..n -> S] : Recursion(n, NoRows, Step, f)
  BY <1>0, <1>2, <1>3, RecursionExists
<1>6. \A i \in 1..n : f[i] = GoalStep(sub, f[i - 1], i - 1)
  <2>1. \A i \in 1..n : i - 1 \in 0..n BY <1>0
  <2> QED BY <1>4, <1>5, <2>1 DEF Recursion
<1>7. \A i \in 0..n : f[i] = IF i = 0 THEN NoRows ELSE GoalStep(sub, f[i - 1], i - 1)
  <2>1. \A i \in 0..n : i = 0 \/ i \in 1..n BY <1>0
  <2> QED BY <1>5, <1>6, <2>1 DEF Recursion
<1>8. IsGoalPass(sub, f)
  <2>1. f = [i \in 0..n |-> f[i]] OBVIOUS
  <2>2. f = [i \in 0..n |-> IF i = 0 THEN NoRows ELSE GoalStep(sub, f[i - 1], i - 1)]
    BY <1>7, <2>1
  <2> QED BY <2>2 DEF IsGoalPass, n
<1> QED BY <1>8

(* A row says what the goal of its frames is.                                *)
RowOf(sub, row) ==
  /\ row[1] # NoGoal /\ row[2] \in Nat /\ row[3] \in Nat /\ row[2] <= row[3]
  /\ \A k \in row[2]..row[3] : Goal(sub, k) = row[1]

(* Rows of the frames before upto, none of which ends while its goal lasts.  *)
RowsUpTo(sub, rows, upto) ==
  /\ rows \in Seq(RowType(sub))
  /\ \A m \in DOMAIN rows : RowOf(sub, rows[m]) /\ rows[m][3] < upto
  /\ \A k \in 0..(upto - 1) : Goal(sub, k) # NoGoal =>
       \E m \in DOMAIN rows : k \in rows[m][2]..rows[m][3]
  /\ \A m \in DOMAIN rows : rows[m][3] + 1 < upto => Goal(sub, rows[m][3] + 1) # rows[m][1]

(* The frame after a row has another goal.                                   *)
Ended(sub, rows) == \A m \in DOMAIN rows : Goal(sub, rows[m][3] + 1) # rows[m][1]

LEMMA RowAppended ==
  ASSUME NEW sub, NEW rows, NEW g \in GoalsOf(sub), NEW a \in Nat, NEW b \in Nat,
         RowsUpTo(sub, rows, a), RowOf(sub, <<g, a, b>>), Ended(sub, rows)
  PROVE  /\ RowsUpTo(sub, Append(rows, <<g, a, b>>), b + 1)
         /\ Goal(sub, b + 1) # g => Ended(sub, Append(rows, <<g, a, b>>))
<1> DEFINE z == Append(rows, <<g, a, b>>)
<1>0. /\ rows \in Seq(RowType(sub)) /\ <<g, a, b>> \in RowType(sub)
      /\ Len(rows) \in Nat /\ DOMAIN rows = 1..Len(rows)
  BY DEF RowsUpTo, RowType
<1>1. /\ z \in Seq(RowType(sub)) /\ Len(z) = Len(rows) + 1 /\ DOMAIN z = 1..(Len(rows) + 1)
      /\ \A k \in 1..(Len(rows) + 1) : z[k] = IF k = Len(rows) + 1 THEN <<g, a, b>> ELSE rows[k]
  BY <1>0
<1> HIDE DEF z
<1>2. a <= b /\ \A k \in a..b : Goal(sub, k) = g BY DEF RowOf
<1>3. ASSUME NEW m \in DOMAIN z PROVE m = Len(rows) + 1 \/ (m \in DOMAIN rows /\ z[m] = rows[m])
  BY <1>0, <1>1
<1>4. ASSUME NEW m \in DOMAIN z PROVE RowOf(sub, z[m]) /\ z[m][3] < b + 1
  <2>1. CASE m = Len(rows) + 1
    <3>1. z[m] = <<g, a, b>> BY <1>1, <2>1
    <3> QED BY <3>1
  <2>2. CASE m \in DOMAIN rows /\ z[m] = rows[m]
    <3>1. RowOf(sub, z[m]) /\ z[m][3] < a BY <2>2 DEF RowsUpTo
    <3>2. z[m][3] \in Nat BY <3>1 DEF RowOf
    <3> QED BY <1>2, <3>1, <3>2
  <2> QED BY <1>3, <2>1, <2>2
<1>5. ASSUME NEW k \in 0..b, Goal(sub, k) # NoGoal
      PROVE  \E m \in DOMAIN z : k \in z[m][2]..z[m][3]
  <2>1. CASE k < a
    <3>1. k \in 0..(a - 1) BY <2>1
    <3>2. PICK m \in DOMAIN rows : k \in rows[m][2]..rows[m][3] BY <1>5, <3>1 DEF RowsUpTo
    <3>3. m \in 1..Len(rows) /\ m \in 1..(Len(rows) + 1) /\ m # Len(rows) + 1 BY <1>0
    <3>4. m \in DOMAIN z /\ z[m] = rows[m] BY <1>1, <3>3
    <3> QED BY <3>2, <3>4
  <2>2. CASE ~ (k < a)
    <3>1. Len(rows) + 1 \in DOMAIN z /\ z[Len(rows) + 1] = <<g, a, b>> BY <1>0, <1>1
    <3>2. k \in a..b BY <2>2
    <3>3. k \in z[Len(rows) + 1][2]..z[Len(rows) + 1][3] BY <3>1, <3>2
    <3> QED BY <3>1, <3>3
  <2> QED BY <2>1, <2>2
<1>6. ASSUME NEW m \in DOMAIN z, z[m][3] + 1 < b + 1 \/ Goal(sub, b + 1) # g
      PROVE  Goal(sub, z[m][3] + 1) # z[m][1]
  <2>1. CASE m = Len(rows) + 1
    <3>1. z[m] = <<g, a, b>> BY <1>1, <2>1
    <3> QED BY <1>6, <3>1
  <2>2. CASE m \in DOMAIN rows /\ z[m] = rows[m] BY <2>2 DEF Ended
  <2> QED BY <1>3, <2>1, <2>2
<1>7. RowsUpTo(sub, z, b + 1)
  <2>1. (b + 1) - 1 = b OBVIOUS
  <2> QED BY <1>1, <1>4, <1>5, <1>6, <2>1 DEF RowsUpTo
<1>8. Goal(sub, b + 1) # g => Ended(sub, z) BY <1>6 DEF Ended
<1> QED BY <1>7, <1>8 DEF z

(* What the pass knows after n frames of the episode.                        *)
GoalInv(sub, acc, n) ==
  /\ acc.goal \in GoalsOf(sub) /\ acc.start \in Nat /\ acc.start <= n
  /\ IF n = 0 THEN acc = NoRows ELSE acc.start < n
  /\ \A k \in acc.start..(n - 1) : Goal(sub, k) = acc.goal
  /\ RowsUpTo(sub, acc.rows, acc.start)
  /\ Ended(sub, acc.rows)

(* Frames without a goal need no row.                                        *)
LEMMA NoGoalPassed ==
  ASSUME NEW sub, NEW rows, NEW a \in Nat, NEW n \in Nat, a <= n, RowsUpTo(sub, rows, a),
         Ended(sub, rows), \A k \in a..(n - 1) : Goal(sub, k) = NoGoal
  PROVE  RowsUpTo(sub, rows, n)
<1>1. ASSUME NEW m \in DOMAIN rows PROVE RowOf(sub, rows[m]) /\ rows[m][3] < n
  <2>1. RowOf(sub, rows[m]) /\ rows[m][3] < a BY DEF RowsUpTo
  <2>2. rows[m][3] \in Nat BY <2>1 DEF RowOf
  <2> QED BY <2>1, <2>2
<1>2. ASSUME NEW k \in 0..(n - 1), Goal(sub, k) # NoGoal
      PROVE  \E m \in DOMAIN rows : k \in rows[m][2]..rows[m][3]
  <2>1. k \in 0..(a - 1) \/ k \in a..(n - 1) OBVIOUS
  <2> QED BY <1>2, <2>1 DEF RowsUpTo
<1> QED BY <1>1, <1>2 DEF RowsUpTo, Ended

LEMMA GoalStepKeeps ==
  ASSUME NEW sub, NEW acc, NEW n \in Nat, GoalInv(sub, acc, n)
  PROVE  GoalInv(sub, GoalStep(sub, acc, n), n + 1)
<1> DEFINE g == Goal(sub, n)
           a == acc.start
<1>0. /\ acc.goal \in GoalsOf(sub) /\ a \in Nat /\ a <= n
      /\ RowsUpTo(sub, acc.rows, a) /\ Ended(sub, acc.rows)
      /\ \A k \in a..(n - 1) : Goal(sub, k) = acc.goal
      /\ n = 0 => acc = NoRows
      /\ n # 0 => a < n
  BY DEF GoalInv
<1>1. g \in GoalsOf(sub) BY DEF GoalsOf
<1>2. n + 1 # 0 /\ (n + 1) - 1 = n /\ n + 1 \in Nat OBVIOUS
<1>3. CASE g = acc.goal
  <2>1. GoalStep(sub, acc, n) = acc BY <1>3 DEF GoalStep
  <2>2. \A k \in a..n : Goal(sub, k) = acc.goal
    <3>1. \A k \in a..n : k \in a..(n - 1) \/ k = n BY <1>0
    <3> QED BY <1>0, <1>3, <3>1
  <2>3. a < n + 1 /\ a <= n + 1 BY <1>0
  <2> QED BY <1>0, <1>2, <2>1, <2>2, <2>3 DEF GoalInv
<1>4. CASE g # acc.goal /\ acc.goal = NoGoal
  <2>1. GoalStep(sub, acc, n) = [goal |-> g, start |-> n, rows |-> acc.rows]
    BY <1>4 DEF GoalStep
  <2>2. RowsUpTo(sub, acc.rows, n) BY <1>0, <1>4, NoGoalPassed
  <2>4. \A k \in n..n : Goal(sub, k) = g OBVIOUS
  <2>5. n < n + 1 /\ n <= n + 1 OBVIOUS
  <2> HIDE DEF g
  <2> QED BY <1>1, <1>2, <1>0, <2>1, <2>2, <2>4, <2>5 DEF GoalInv
<1>5. CASE g # acc.goal /\ acc.goal # NoGoal
  <2> DEFINE z == Append(acc.rows, <<acc.goal, a, n - 1>>)
  <2>1. GoalStep(sub, acc, n) = [goal |-> g, start |-> n, rows |-> z] BY <1>5 DEF GoalStep
  <2>2. n # 0 BY <1>0, <1>5 DEF NoRows
  <2>3. n - 1 \in Nat /\ a <= n - 1 /\ (n - 1) + 1 = n BY <1>0, <2>2
  <2>4. RowOf(sub, <<acc.goal, a, n - 1>>) BY <1>0, <1>5, <2>3 DEF RowOf
  <2>5. RowsUpTo(sub, z, (n - 1) + 1) /\ (Goal(sub, (n - 1) + 1) # acc.goal => Ended(sub, z))
    BY <1>0, <2>3, <2>4, RowAppended
  <2>6. RowsUpTo(sub, z, n) /\ Ended(sub, z) BY <1>5, <2>3, <2>5
  <2>7. \A k \in n..n : Goal(sub, k) = g OBVIOUS
  <2>8. n < n + 1 /\ n <= n + 1 OBVIOUS
  <2> HIDE DEF g, z
  <2> QED BY <1>1, <1>2, <2>1, <2>6, <2>7, <2>8 DEF GoalInv
<1> QED BY <1>3, <1>4, <1>5

LEMMA RowsSpan ==
  ASSUME NEW sub, Length(sub) \in Nat, Length(sub) > 0
  PROVE  RowsUpTo(sub, LanguageAnnotations(sub), Length(sub))
<1> DEFINE n == Length(sub)
           f == CHOOSE f : IsGoalPass(sub, f)
           T == {i \in Nat : i <= n => GoalInv(sub, f[i], i)}
<1>1. IsGoalPass(sub, f) BY GoalPassHolds
<1> HIDE DEF f
<1>2. f[0] = NoRows /\ \A i \in 1..n : f[i] = GoalStep(sub, f[i - 1], i - 1)
  <2>1. f = [i \in 0..n |-> IF i = 0 THEN NoRows ELSE GoalStep(sub, f[i - 1], i - 1)]
    BY <1>1 DEF IsGoalPass
  <2>2. 0 \in 0..n /\ \A i \in 1..n : i \in 0..n /\ i # 0 OBVIOUS
  <2> HIDE DEF n
  <2> QED BY <2>1, <2>2
<1>3. 0 \in T
  <2>1. NoRows.rows = <<>> /\ NoRows.start = 0 /\ NoRows.goal = NoGoal BY DEF NoRows
  <2>2. RowsUpTo(sub, <<>>, 0) BY DEF RowsUpTo
  <2>3. GoalInv(sub, NoRows, 0) BY <2>1, <2>2 DEF GoalInv, Ended, GoalsOf
  <2> QED BY <1>2, <2>3
<1>4. ASSUME NEW i \in Nat, i \in T PROVE i + 1 \in T
  <2> SUFFICES ASSUME i + 1 <= n PROVE GoalInv(sub, f[i + 1], i + 1) OBVIOUS
  <2>1. GoalInv(sub, f[i], i) /\ i + 1 \in 1..n /\ (i + 1) - 1 = i BY <1>4
  <2>2. f[i + 1] = GoalStep(sub, f[i], i) BY <1>2, <2>1
  <2>3. GoalInv(sub, GoalStep(sub, f[i], i), i + 1) BY <2>1, GoalStepKeeps
  <2> QED BY <2>2, <2>3
<1> HIDE DEF T
<1>5. n \in T BY <1>3, <1>4, NatInd
<1> DEFINE end == f[n]
<1>6. GoalInv(sub, end, n) BY <1>5 DEF T
<1>7. GoalPass(sub) = end BY GoalPassIs DEF f
<1> HIDE DEF end
<1>8. LanguageAnnotations(sub) = IF end.goal = NoGoal THEN end.rows
                                 ELSE Append(end.rows, <<end.goal, end.start, n - 1>>)
  BY <1>7 DEF LanguageAnnotations
<1>9. /\ end.goal \in GoalsOf(sub) /\ end.start \in Nat /\ end.start < n
      /\ RowsUpTo(sub, end.rows, end.start) /\ Ended(sub, end.rows)
      /\ \A k \in end.start..(n - 1) : Goal(sub, k) = end.goal
  BY <1>6 DEF GoalInv
<1> DEFINE a == end.start
<1>10. a \in Nat /\ n \in Nat /\ a <= n /\ n - 1 \in Nat /\ a <= n - 1 /\ (n - 1) + 1 = n
  BY <1>9
<1> HIDE DEF n
<1>11. CASE end.goal = NoGoal
  <2>1. RowsUpTo(sub, end.rows, n) BY <1>9, <1>10, <1>11, NoGoalPassed
  <2> QED BY <1>8, <1>11, <2>1 DEF n
<1>12. CASE end.goal # NoGoal
  <2>1. RowOf(sub, <<end.goal, a, n - 1>>) BY <1>9, <1>10, <1>12 DEF RowOf
  <2>2. RowsUpTo(sub, Append(end.rows, <<end.goal, a, n - 1>>), (n - 1) + 1)
    BY <1>9, <1>10, <2>1, RowAppended
  <2> QED BY <1>8, <1>10, <1>12, <2>2 DEF n
<1> QED BY <1>11, <1>12

(* What GoalsRead says of one episode.                                       *)
ReadBack(run, rows) ==
  \A i \in run[1]..run[2] :
    AnnotationTexts(rows, i - run[1]) =
      IF i < run[2] /\ frames[i + 1].goal = frames[i].goal THEN {frames[i].goal} \ {NoGoal} ELSE {}

LEMMA AnnotationsRead ==
  ASSUME NEW run \in Nat \X Nat, run[1] <= run[2]
  PROVE  ReadBack(run, LanguageAnnotations(run))
<1> DEFINE rows == LanguageAnnotations(run)
<1>0. run[1] \in Nat /\ run[2] \in Nat /\ Length(run) \in Nat /\ Length(run) > 0
      /\ Length(run) = run[2] - run[1] + 1
  BY DEF Length
<1>1. RowsUpTo(run, rows, Length(run)) BY <1>0, RowsSpan
<1> HIDE DEF rows
<1> SUFFICES ASSUME NEW i \in run[1]..run[2]
             PROVE  AnnotationTexts(rows, i - run[1]) =
                      IF i < run[2] /\ frames[i + 1].goal = frames[i].goal
                      THEN {frames[i].goal} \ {NoGoal} ELSE {}
  BY DEF ReadBack, rows
<1> DEFINE k == i - run[1]
<1>2. /\ k \in 0..(Length(run) - 1) /\ run[1] + k = i /\ run[1] + (k + 1) = i + 1
      /\ i < run[2] <=> k + 1 < Length(run)
  BY <1>0
<1>3. Goal(run, k) = frames[i].goal /\ Goal(run, k + 1) = frames[i + 1].goal BY <1>2 DEF Goal
<1> HIDE DEF k
<1>4. ASSUME NEW m \in DOMAIN rows, rows[m][2] <= k /\ k < rows[m][3]
      PROVE  /\ i < run[2] /\ frames[i + 1].goal = frames[i].goal
             /\ rows[m][1] = frames[i].goal /\ rows[m][1] # NoGoal
  <2>1. RowOf(run, rows[m]) /\ rows[m][3] < Length(run) BY <1>1 DEF RowsUpTo
  <2>2. rows[m][2] \in Nat /\ rows[m][3] \in Nat BY <2>1 DEF RowOf
  <2>3. k \in rows[m][2]..rows[m][3] /\ k + 1 \in rows[m][2]..rows[m][3] /\ k + 1 < Length(run)
    BY <1>0, <1>2, <1>4, <2>1, <2>2
  <2> QED BY <1>2, <1>3, <2>1, <2>3 DEF RowOf
<1>5. ASSUME i < run[2], frames[i + 1].goal = frames[i].goal, frames[i].goal # NoGoal
      PROVE  \E m \in DOMAIN rows : rows[m][2] <= k /\ k < rows[m][3]
  <2>1. PICK m \in DOMAIN rows : k \in rows[m][2]..rows[m][3]
    BY <1>1, <1>2, <1>3, <1>5 DEF RowsUpTo
  <2>2. /\ RowOf(run, rows[m])
        /\ rows[m][3] + 1 < Length(run) => Goal(run, rows[m][3] + 1) # rows[m][1]
    BY <1>1 DEF RowsUpTo
  <2>3. rows[m][3] \in Nat /\ rows[m][2] \in Nat /\ rows[m][1] = frames[i].goal
    BY <1>3, <2>1, <2>2 DEF RowOf
  <2>4. rows[m][3] # k BY <1>2, <1>3, <1>5, <2>2, <2>3
  <2> QED BY <1>2, <2>1, <2>3, <2>4
<1>6. AnnotationTexts(rows, k) = {rows[m][1] : m \in {m \in DOMAIN rows : rows[m][2] <= k /\ k < rows[m][3]}}
  BY DEF AnnotationTexts
<1>7. CASE i < run[2] /\ frames[i + 1].goal = frames[i].goal BY <1>4, <1>5, <1>6, <1>7 DEF k
<1>8. CASE ~ (i < run[2] /\ frames[i + 1].goal = frames[i].goal) BY <1>4, <1>6, <1>8 DEF k
<1> QED BY <1>7, <1>8
-----------------------------------------------------------------------------
Cell == {"seen", "missing", "filled", "nan"}
EpisodeType ==
  [run : Nat \X Nat, rows : Seq(({frames[i].goal : i \in Nat} \cup {NoGoal}) \X Int \X Int)]

TypeOK ==
  /\ stage \in {"loaded", "fill", "filter", "write", "done", "failed"}
  /\ frames \in Seq(Frame) /\ active \in SUBSET Hands /\ video \in Int
  /\ numbers \in [Hands -> [Indices -> Cell]] /\ hand \in Hands
  /\ gaps \in Seq(Nat \X Nat) /\ plan \in Seq(Nat \X Nat)
  /\ episodes \in Seq(EpisodeType)

(* What was planned is written in its order, and nothing else.               *)
Planned ==
  IF stage \in {"write", "done"}
  THEN /\ Len(episodes) + Len(plan) = Len(SubEpisodes)
       /\ \A n \in DOMAIN episodes : episodes[n].run = SubEpisodes[n]
       /\ \A n \in DOMAIN plan : plan[n] = SubEpisodes[Len(episodes) + n]
       /\ stage = "done" => plan = <<>>
  ELSE episodes = <<>>

PlanInv == TypeOK /\ Planned /\ GoalsRead

LEMMA SubEpisodesStay ==
  ASSUME UNCHANGED <<frames, active, video, numbers>> PROVE SubEpisodes' = SubEpisodes
<1>1. Indices' = Indices BY DEF Indices
<1>2. \A i : Usable(i)' = Usable(i) BY DEF Usable
<1>3. Flags' = Flags BY <1>1, <1>2 DEF Flags
<1>4. SubEpisodes' = Split(Runs(Flags')) BY DEF SubEpisodes, Split, IsSplit, More, Flags
<1> QED BY <1>3, <1>4, SubEpisodesAre

LEMMA GapsTyped ==
  ASSUME frames \in Seq(Frame), NEW h, NEW nums PROVE FindGaps(h, nums) \in Seq(Nat \X Nat)
<1> DEFINE flags == [i \in Indices |-> nums[h][i] = "missing"]
<1>1. Len(frames) \in Nat /\ flags \in [1..Len(frames) -> BOOLEAN] BY DEF Indices
<1>2. Len(flags) = Len(frames) /\ \A i \in 1..Len(flags) : flags[i] \in BOOLEAN BY <1>1
<1> HIDE DEF flags
<1>3. Runs(flags) \in Seq(Nat \X Nat) BY <1>1, <1>2, RunsTile
<1> QED BY <1>3 DEF FindGaps, flags

(* The next episode to be written is one of the sub-episodes.                *)
LEMMA HeadPlanned ==
  ASSUME PlanInv, stage = "write", plan # <<>>
  PROVE  /\ Head(plan) \in Nat \X Nat /\ Head(plan)[1] <= Head(plan)[2]
         /\ Head(plan) = SubEpisodes[Len(episodes) + 1]
<1>1. /\ plan \in Seq(Nat \X Nat) /\ Len(plan) \in Nat /\ Len(plan) >= 1 /\ DOMAIN plan = 1..Len(plan)
      /\ Len(episodes) \in Nat
  BY DEF PlanInv, TypeOK
<1>2. 1 \in DOMAIN plan /\ Head(plan) = plan[1] /\ Head(plan) \in Nat \X Nat BY <1>1
<1>3. Head(plan) = SubEpisodes[Len(episodes) + 1] BY <1>2 DEF PlanInv, Planned
<1>4. SubEpisodes \in Seq(Nat \X Nat) /\ Tiled(SubEpisodes)
  BY SubEpisodesTile DEF PlanInv, TypeOK, Tiled
<1>5. Len(episodes) + Len(plan) = Len(SubEpisodes) BY DEF PlanInv, Planned
<1>6. Len(episodes) + 1 \in DOMAIN SubEpisodes
  <2>1. Len(SubEpisodes) \in Nat /\ DOMAIN SubEpisodes = 1..Len(SubEpisodes) BY <1>4
  <2> QED BY <1>1, <1>5, <2>1
<1> QED BY <1>2, <1>3, <1>4, <1>6 DEF Tiled

LEMMA InitPlan == Init => PlanInv
<1> SUFFICES ASSUME Init PROVE PlanInv OBVIOUS
<1>1. PICK m \in 0..MaxFrames : frames \in [1..m -> Frame] BY DEF Init
<1>2. m \in Nat /\ frames \in Seq(Frame) /\ Len(frames) = m BY <1>1, Constants
<1>3. numbers \in [Hands -> [Indices -> Cell]]
  <2>1. \A i \in Indices : frames[i] \in Frame BY <1>1, <1>2 DEF Indices
  <2>2. \A h \in Hands, i \in Indices : frames[i][h] \in Cell
    BY <2>1, ScaleAssumption DEF ScaleAssumption, Hands, Cell
  <2> QED BY <2>2 DEF Init
<1>4. active \in SUBSET Hands BY ScaleAssumption DEF Init, ScaleAssumption, Hands
<1>5. TypeOK BY <1>2, <1>3, <1>4 DEF Init, TypeOK, Hands
<1>6. Planned /\ GoalsRead BY DEF Init, Planned, GoalsRead
<1> QED BY <1>5, <1>6 DEF PlanInv

LEMMA TypeNext == ASSUME PlanInv, [Next]_vars PROVE TypeOK'
<1> USE DEF PlanInv
<1>0. TypeOK BY DEF PlanInv
<1>1. CASE TooFewFrames BY <1>0, <1>1 DEF TooFewFrames, TypeOK, Indices, EpisodeType
<1>2. CASE Nullify
  <2>1. UNCHANGED <<frames, active, video, hand, plan, episodes>> BY <1>2 DEF Nullify
  <2>2. CASE MaxGap = 0
    <3>1. stage' = "filter" /\ UNCHANGED <<numbers, gaps>> BY <1>2, <2>2 DEF Nullify
    <3> QED BY <1>0, <2>1, <3>1 DEF TypeOK, Indices, EpisodeType
  <2>3. CASE MaxGap # 0
    <3> DEFINE nums == [h \in Hands |-> [i \in Indices |->
                          IF h \in frames[i].error THEN "missing" ELSE numbers[h][i]]]
    <3>1. stage' = "fill" /\ numbers' = nums /\ gaps' = FindGaps("left", nums)
      BY <1>2, <2>3 DEF Nullify
    <3>2. nums \in [Hands -> [Indices -> Cell]] BY <1>0 DEF TypeOK, Cell
    <3> HIDE DEF nums
    <3>3. gaps' \in Seq(Nat \X Nat) BY <1>0, <3>1, GapsTyped DEF TypeOK
    <3> QED BY <1>0, <2>1, <3>1, <3>2, <3>3 DEF TypeOK, Indices, EpisodeType
  <2> QED BY <2>2, <2>3
<1>3. CASE FillGap
  <2> DEFINE gap == Head(gaps)
             value == IF AtEdge(hand, gap) THEN "nan" ELSE "filled"
             cells == [i \in Indices |-> IF i \in gap[1]..gap[2] THEN value
                                         ELSE numbers[hand][i]]
  <2>1. /\ gaps # <<>> /\ gaps' = Tail(gaps) /\ numbers' = [numbers EXCEPT ![hand] = cells]
        /\ UNCHANGED <<stage, frames, active, video, hand, plan, episodes>>
    BY <1>3 DEF FillGap
  <2>2. gaps' \in Seq(Nat \X Nat) BY <1>0, <2>1 DEF TypeOK
  <2>3. value \in Cell BY DEF Cell
  <2> HIDE DEF value
  <2>4. cells \in [Indices -> Cell] BY <1>0, <2>3 DEF TypeOK
  <2> HIDE DEF cells
  <2>5. numbers' \in [Hands -> [Indices -> Cell]] BY <1>0, <2>1, <2>4 DEF TypeOK
  <2> QED BY <1>0, <2>1, <2>2, <2>5 DEF TypeOK, Indices, EpisodeType
<1>4. CASE LeaveGap
  <2>1. /\ gaps # <<>> /\ gaps' = Tail(gaps)
        /\ UNCHANGED <<stage, frames, active, video, numbers, hand, plan, episodes>>
    BY <1>4 DEF LeaveGap
  <2>2. gaps' \in Seq(Nat \X Nat) BY <1>0, <2>1 DEF TypeOK
  <2> QED BY <1>0, <2>1, <2>2 DEF TypeOK, Indices, EpisodeType
<1>5. CASE NextHand
  <2>1. FindGaps("right", numbers) \in Seq(Nat \X Nat) BY <1>0, GapsTyped DEF TypeOK
  <2>2. /\ UNCHANGED <<frames, active, video, numbers, plan, episodes>>
        /\ stage' \in {stage, "filter"} /\ hand' \in {hand, "right"}
        /\ gaps' \in {gaps, FindGaps("right", numbers)}
    BY <1>5 DEF NextHand
  <2> QED BY <1>0, <2>1, <2>2 DEF TypeOK, Indices, EpisodeType, Hands
<1>6. CASE Filter
  <2>1. SubEpisodes \in Seq(Nat \X Nat) BY <1>0, SubEpisodesTile DEF TypeOK, Tiled
  <2>2. /\ UNCHANGED <<frames, active, video, numbers, hand, gaps, episodes>>
        /\ stage' \in {"failed", "write"} /\ plan' = SubEpisodes
    BY <1>6 DEF Filter
  <2> QED BY <1>0, <2>1, <2>2 DEF TypeOK, Indices, EpisodeType
<1>7. CASE WriteEpisode
  <2> DEFINE e == [run |-> Head(plan), rows |-> LanguageAnnotations(Head(plan))]
  <2>1. /\ UNCHANGED <<stage, frames, active, video, numbers, hand, gaps>>
        /\ stage = "write" /\ plan # <<>> /\ plan' = Tail(plan) /\ episodes' = Append(episodes, e)
    BY <1>7 DEF WriteEpisode
  <2>2. plan' \in Seq(Nat \X Nat) /\ Head(plan) \in Nat \X Nat BY <1>0, <2>1 DEF TypeOK
  <2>3. Head(plan)[1] <= Head(plan)[2] BY <2>1, HeadPlanned
  <2>4. LanguageAnnotations(Head(plan)) \in Seq(RowType(Head(plan)))
    <3>1. Length(Head(plan)) \in Nat /\ Length(Head(plan)) > 0 BY <2>2, <2>3 DEF Length
    <3> QED BY <3>1, RowsSpan DEF RowsUpTo
  <2>5. RowType(Head(plan)) \subseteq ({frames[i].goal : i \in Nat} \cup {NoGoal}) \X Int \X Int
    <3>1. \A k \in Nat : Head(plan)[1] + k \in Nat BY <2>2
    <3>2. GoalsOf(Head(plan)) \subseteq {frames[i].goal : i \in Nat} \cup {NoGoal}
      BY <3>1 DEF GoalsOf, Goal
    <3> QED BY <3>2 DEF RowType
  <2>6. e \in EpisodeType
    <3> DEFINE X == ({frames[i].goal : i \in Nat} \cup {NoGoal}) \X Int \X Int
    <3>1. RowType(Head(plan)) \subseteq X BY <2>5
    <3> HIDE DEF X
    <3>2. LanguageAnnotations(Head(plan)) \in Seq(X) BY <2>4, <3>1
    <3> QED BY <2>2, <3>2 DEF EpisodeType, X
  <2> HIDE DEF e
  <2>7. EpisodeType' = EpisodeType BY <2>1 DEF EpisodeType
  <2>8. episodes' \in Seq(EpisodeType') BY <1>0, <2>1, <2>6, <2>7 DEF TypeOK
  <2> QED BY <1>0, <2>1, <2>2, <2>8 DEF TypeOK, Indices
<1>8. CASE Finish BY <1>0, <1>8 DEF Finish, TypeOK, Indices, EpisodeType
<1>9. CASE UNCHANGED vars BY <1>0, <1>9 DEF vars, TypeOK, Indices, EpisodeType
<1> QED BY <1>1, <1>2, <1>3, <1>4, <1>5, <1>6, <1>7, <1>8, <1>9 DEF Next

LEMMA PlannedNext == ASSUME PlanInv, [Next]_vars PROVE Planned'
<1>0. TypeOK /\ Planned BY DEF PlanInv
<1>1. CASE stage \in {"loaded", "fill"} /\ Next
  <2>1. episodes' = episodes /\ stage' \in {"loaded", "fill", "filter", "failed"}
    BY <1>1 DEF Next, TooFewFrames, Nullify, FillGap, LeaveGap, NextHand, Filter, WriteEpisode, Finish
  <2> QED BY <1>0, <1>1, <2>1 DEF Planned
<1>2. CASE Filter
  <2>1. /\ stage = "filter" /\ plan' = SubEpisodes /\ episodes' = episodes
        /\ stage' = (IF SubEpisodes = <<>> THEN "failed" ELSE "write")
        /\ UNCHANGED <<frames, active, video, numbers>>
    BY <1>2 DEF Filter
  <2>2. episodes = <<>> BY <1>0, <2>1 DEF Planned
  <2>3. SubEpisodes' = SubEpisodes BY <2>1, SubEpisodesStay
  <2>4. SubEpisodes \in Seq(Nat \X Nat) BY <1>0, SubEpisodesTile DEF TypeOK, Tiled
  <2>5. CASE SubEpisodes = <<>> BY <2>1, <2>2, <2>5 DEF Planned
  <2>6. CASE SubEpisodes # <<>>
    <3>1. Len(episodes') + Len(plan') = Len(SubEpisodes') BY <2>1, <2>2, <2>3, <2>4
    <3>2. \A n \in DOMAIN plan' : plan'[n] = SubEpisodes'[Len(episodes') + n]
      <4>1. \A n \in DOMAIN plan' : n \in Nat /\ Len(episodes') + n = n BY <2>1, <2>2, <2>4
      <4> QED BY <2>1, <2>3, <4>1
    <3>3. DOMAIN episodes' = {} BY <2>1, <2>2
    <3> QED BY <2>1, <2>6, <3>1, <3>2, <3>3 DEF Planned
  <2> QED BY <2>5, <2>6
<1>3. CASE WriteEpisode
  <2> DEFINE e == [run |-> Head(plan), rows |-> LanguageAnnotations(Head(plan))]
  <2>1. /\ UNCHANGED <<stage, frames, active, video, numbers>>
        /\ stage = "write" /\ plan # <<>> /\ plan' = Tail(plan) /\ episodes' = Append(episodes, e)
        /\ e.run = Head(plan)
    BY <1>3 DEF WriteEpisode
  <2> HIDE DEF e
  <2>2. SubEpisodes' = SubEpisodes BY <2>1, SubEpisodesStay
  <2>3. Head(plan) = SubEpisodes[Len(episodes) + 1] BY <2>1, HeadPlanned
  <2>4. plan \in Seq(Nat \X Nat) /\ episodes \in Seq(EpisodeType) BY <1>0 DEF TypeOK
  <2>5. /\ Len(plan) \in Nat /\ Len(plan) >= 1 /\ DOMAIN plan = 1..Len(plan)
        /\ Len(plan') = Len(plan) - 1 /\ DOMAIN plan' = 1..(Len(plan) - 1)
        /\ \A n \in 1..(Len(plan) - 1) : plan'[n] = plan[n + 1]
    BY <2>1, <2>4
  <2>6. /\ Len(episodes) \in Nat /\ DOMAIN episodes = 1..Len(episodes)
        /\ Len(episodes') = Len(episodes) + 1 /\ DOMAIN episodes' = 1..(Len(episodes) + 1)
        /\ \A n \in 1..Len(episodes) : episodes'[n] = episodes[n]
        /\ episodes'[Len(episodes) + 1] = e
    BY <2>1, <2>4
  <2>7. Len(episodes) + Len(plan) = Len(SubEpisodes) BY <1>0, <2>1 DEF Planned
  <2>8. Len(episodes') + Len(plan') = Len(SubEpisodes')
    <3>1. Len(SubEpisodes') = Len(SubEpisodes) BY <2>2
    <3>2. \A a, b \in Nat : (a + 1) + (b - 1) = a + b OBVIOUS
    <3> QED BY <2>5, <2>6, <2>7, <3>1, <3>2
  <2>9. \A n \in DOMAIN episodes' : episodes'[n].run = SubEpisodes'[n]
    <3>1. \A n \in 1..Len(episodes) : episodes[n].run = SubEpisodes[n] BY <1>0, <2>1, <2>6 DEF Planned
    <3>2. \A n \in 1..(Len(episodes) + 1) : n \in 1..Len(episodes) \/ n = Len(episodes) + 1
      BY <2>6
    <3> QED BY <2>1, <2>2, <2>3, <2>6, <3>1, <3>2
  <2>10. \A n \in DOMAIN plan' : plan'[n] = SubEpisodes'[Len(episodes') + n]
    <3>1. ASSUME NEW n \in 1..(Len(plan) - 1) PROVE plan'[n] = SubEpisodes'[Len(episodes') + n]
      <4>1. n + 1 \in 1..Len(plan) /\ Len(episodes) + (n + 1) = Len(episodes') + n BY <2>5, <2>6
      <4>2. plan[n + 1] = SubEpisodes[Len(episodes) + (n + 1)]
        BY <1>0, <2>1, <2>5, <4>1 DEF Planned
      <4> QED BY <2>2, <2>5, <4>1, <4>2
    <3> QED BY <2>5, <3>1
  <2> QED BY <2>1, <2>8, <2>9, <2>10 DEF Planned
<1>4. CASE Finish
  <2>1. /\ stage = "write" /\ plan = <<>> /\ stage' = "done"
        /\ UNCHANGED <<frames, active, video, numbers, plan, episodes>>
    BY <1>4 DEF Finish
  <2>2. SubEpisodes' = SubEpisodes BY <2>1, SubEpisodesStay
  <2> QED BY <1>0, <2>1, <2>2 DEF Planned
<1>5. CASE UNCHANGED vars
  <2>1. SubEpisodes' = SubEpisodes BY <1>5, SubEpisodesStay DEF vars
  <2> QED BY <1>0, <1>5, <2>1 DEF Planned, vars
<1>6. Next => (stage \in {"loaded", "fill"} /\ Next) \/ Filter \/ WriteEpisode \/ Finish
  BY DEF Next, TooFewFrames, Nullify, FillGap, LeaveGap, NextHand
<1> QED BY <1>1, <1>2, <1>3, <1>4, <1>5, <1>6

LEMMA ReadBackIs ==
  GoalsRead <=> \A n \in DOMAIN episodes : ReadBack(episodes[n].run, episodes[n].rows)
BY DEF GoalsRead, ReadBack

LEMMA ReadNext == ASSUME PlanInv, [Next]_vars PROVE GoalsRead'
<1>1. \A n \in DOMAIN episodes : ReadBack(episodes[n].run, episodes[n].rows)
  BY ReadBackIs DEF PlanInv
<1>2. frames' = frames
  BY DEF Next, vars, TooFewFrames, Nullify, FillGap, LeaveGap, NextHand, Filter, WriteEpisode, Finish
<1>4. CASE UNCHANGED episodes
  <2>1. \A n \in DOMAIN episodes' : (ReadBack(episodes[n].run, episodes[n].rows))'
    BY <1>1, <1>2, <1>4 DEF ReadBack
  <2> QED BY <2>1 DEF GoalsRead, ReadBack
<1>5. CASE WriteEpisode
  <2> DEFINE e == [run |-> Head(plan), rows |-> LanguageAnnotations(Head(plan))]
  <2>1. stage = "write" /\ plan # <<>> /\ episodes' = Append(episodes, e)
        /\ e.run = Head(plan) /\ e.rows = LanguageAnnotations(Head(plan))
    BY <1>5 DEF WriteEpisode
  <2> HIDE DEF e
  <2>2. ReadBack(e.run, e.rows) BY <2>1, HeadPlanned, AnnotationsRead
  <2>3. episodes \in Seq(EpisodeType) BY DEF PlanInv, TypeOK
  <2>4. \A n \in DOMAIN episodes' : episodes'[n] = e \/ (n \in DOMAIN episodes /\ episodes'[n] = episodes[n])
    BY <2>1, <2>3
  <2>5. \A n \in DOMAIN episodes' : ReadBack(episodes'[n].run, episodes'[n].rows)
    BY <1>1, <2>2, <2>4
  <2>6. \A n \in DOMAIN episodes' : (ReadBack(episodes[n].run, episodes[n].rows))'
    BY <1>2, <2>5 DEF ReadBack
  <2> QED BY <2>6 DEF GoalsRead, ReadBack
<1>6. UNCHANGED episodes \/ WriteEpisode
  BY DEF Next, vars, TooFewFrames, Nullify, FillGap, LeaveGap, NextHand, Filter, Finish
<1> QED BY <1>4, <1>5, <1>6

LEMMA PlanHolds == Spec => []PlanInv
<1>1. ASSUME PlanInv, [Next]_vars PROVE PlanInv'
  BY <1>1, TypeNext, PlannedNext, ReadNext DEF PlanInv
<1> QED BY InitPlan, <1>1, PTL DEF Spec

(* The conversion keeps to its types.                                        *)
THEOREM ConversionTypeCorrect == Spec => []TypeOK
<1>1. PlanInv => TypeOK BY DEF PlanInv
<1> QED BY PlanHolds, <1>1, PTL

(* The reader gives a frame its own sub-goal and no other, and gives it      *)
(* unless the frame is the last of its span (_build_language_annotations and *)
(* _annotation_text_for_frame), for every way the goals of a recording       *)
(* change and every cut of it.                                               *)
THEOREM GoalsAreRead == Spec => []GoalsRead
<1>1. PlanInv => GoalsRead BY DEF PlanInv
<1> QED BY PlanHolds, <1>1, PTL

LEMMA PlanTiles == PlanInv => EpisodesTile
<1> SUFFICES ASSUME PlanInv, stage = "done" PROVE EpisodesTile BY DEF EpisodesTile
<1> DEFINE s == SubEpisodes
<1>1. Tiled(s) /\ s \in Seq(Nat \X Nat) /\ episodes \in Seq(EpisodeType)
  BY SubEpisodesTile DEF PlanInv, TypeOK, Tiled
<1>2. Len(episodes) + Len(plan) = Len(s) /\ plan = <<>>
      /\ \A n \in DOMAIN episodes : episodes[n].run = s[n]
  BY DEF PlanInv, Planned
<1> HIDE DEF s
<1>3. /\ DOMAIN s = 1..Len(s) /\ DOMAIN episodes = 1..Len(s) /\ Len(s) \in Nat
      /\ Len(episodes) \in Nat /\ Len(episodes) = Len(s)
  BY <1>1, <1>2
<1>4. ASSUME NEW n \in DOMAIN episodes
      PROVE  /\ Length(episodes[n].run) \in MinFrames..SubLength
             /\ \A i \in episodes[n].run[1]..episodes[n].run[2] : Usable(i)
             /\ n > 1 => episodes[n].run[1] > episodes[n - 1].run[2]
  <2>1. n \in DOMAIN s /\ episodes[n].run = s[n] BY <1>2, <1>3
  <2>2. Length(s[n]) \in MinFrames..SubLength /\ \A i \in s[n][1]..s[n][2] : Usable(i)
    BY <1>1, <2>1 DEF Tiled
  <2>3. ASSUME n > 1 PROVE episodes[n].run[1] > episodes[n - 1].run[2]
    <3>1. n - 1 \in 1..Len(s) /\ n - 1 < n BY <1>3, <2>3
    <3>2. n - 1 \in DOMAIN s /\ n - 1 \in DOMAIN episodes /\ episodes[n - 1].run = s[n - 1]
      BY <1>2, <1>3, <3>1
    <3>3. s[n - 1][2] < s[n][1] BY <1>1, <2>1, <3>1, <3>2 DEF Tiled, Apart
    <3>4. s[n - 1][2] \in Nat /\ s[n][1] \in Nat BY <1>1, <2>1, <3>2, SMTT(30)
    <3> QED BY <2>1, <3>2, <3>3, <3>4
  <2> QED BY <2>1, <2>2, <2>3
<1>5. \A j : Within(j, s) => j \in Written BY <1>2, <1>3 DEF Within, Written
<1>6. \A i \in Indices : i + MinFrames - 1 <= Len(frames) =>
        \E j \in i..(i + MinFrames - 1) : j \in Written \/ ~ Usable(j)
  BY <1>1, <1>5 DEF Tiled
<1> QED BY <1>4, <1>6 DEF EpisodesTile

(* The episodes written tile the usable stretches of the recording           *)
(* (_contiguous_runs, sub_episode_plans), whatever its length and the        *)
(* lengths MIN_EPISODE_FRAMES and SUB_EPISODE_LENGTH.                        *)
THEOREM EpisodesDoTile == Spec => []EpisodesTile
BY PlanHolds, PlanTiles, PTL
-----------------------------------------------------------------------------
(* A gap still to be looked at: missing, and it ends at seen frames.         *)
GapOf(gap, cells) ==
  /\ 1 <= gap[1] /\ gap[1] <= gap[2] /\ gap[2] <= Len(frames)
  /\ \A i \in gap[1]..gap[2] : cells[i] = "missing"
  /\ gap[1] > 1 => cells[gap[1] - 1] = "seen"
  /\ gap[2] < Len(frames) => cells[gap[2] + 1] = "seen"

GapsOpen ==
  stage = "fill" =>
    Apart(gaps) /\ \A k \in DOMAIN gaps : GapOf(gaps[k], numbers[hand])

(* Before the repair a hand is seen or missing; the left one is first.       *)
Unrepaired ==
  /\ stage = "loaded" => hand = "left"
  /\ \A h \in Hands, i \in Indices :
       stage = "loaded" \/ (stage = "fill" /\ hand = "left" /\ h = "right")
         => numbers[h][i] \in {"seen", "missing"}

(* What was marked wrong has lost its numbers.                               *)
Marked ==
  stage \in {"fill", "filter", "write", "done"} =>
    \A i \in Indices : \A h \in frames[i].error : numbers[h][i] # "seen"

(* Nowhere are more than MaxGap frames in a row interpolated.                *)
Short(cells) ==
  \A a \in Indices : a + MaxGap <= Len(frames) =>
    \E j \in a..(a + MaxGap) : cells[j] \notin {"filled", "nan"}

FilledShort == \A h \in Hands : Short(numbers[h])

(* What is not a number reaches to an end of the recording.                  *)
Edged(cells) ==
  \A i \in Indices : cells[i] = "nan" =>
    \/ \A j \in 1..i : cells[j] = "nan"
    \/ \A j \in i..Len(frames) : cells[j] = "nan"

NansEdged == \A h \in Hands : Edged(numbers[h])

RepairInv == TypeOK /\ GapsOpen /\ Unrepaired /\ Marked /\ FilledShort /\ NansEdged

(* Cells that are seen or missing have no interpolated one among them.       *)
LEMMA UnrepairedIsShort ==
  ASSUME NEW cells, \A i \in Indices : cells[i] \in {"seen", "missing"}
  PROVE  Short(cells)
<1> SUFFICES ASSUME NEW a \in Indices, a + MaxGap <= Len(frames)
             PROVE  \E j \in a..(a + MaxGap) : cells[j] \notin {"filled", "nan"}
  BY DEF Short
<1>1. a \in a..(a + MaxGap) BY Constants DEF Indices
<1> QED BY <1>1

LEMMA UnrepairedIsEdged ==
  ASSUME NEW cells, \A i \in Indices : cells[i] \in {"seen", "missing"}
  PROVE  Edged(cells)
BY DEF Edged

(* The gaps that are found are open.                                         *)
LEMMA GapsFound ==
  ASSUME frames \in Seq(Frame), NEW h, NEW nums,
         \A i \in Indices : nums[h][i] \in {"seen", "missing"}
  PROVE  /\ Apart(FindGaps(h, nums))
         /\ \A k \in DOMAIN FindGaps(h, nums) : GapOf(FindGaps(h, nums)[k], nums[h])
<1> DEFINE flags == [i \in Indices |-> nums[h][i] = "missing"]
           n == Len(frames)
<1>1. n \in Nat /\ Indices = 1..n /\ flags \in [1..n -> BOOLEAN] BY DEF Indices
<1>2. Len(flags) = n /\ \A i \in 1..Len(flags) : flags[i] \in BOOLEAN BY <1>1
<1>3. \A i \in 1..n : flags[i] <=> nums[h][i] = "missing" BY <1>1
<1> HIDE DEF flags
<1>4. /\ Runs(flags) \in Seq(Nat \X Nat) /\ Apart(Runs(flags))
      /\ \A k \in DOMAIN Runs(flags) : Stretch(flags, Runs(flags)[k])
  BY <1>1, <1>2, RunsTile
<1>5. ASSUME NEW gap \in Nat \X Nat, Stretch(flags, gap) PROVE GapOf(gap, nums[h])
  <2>1. gap[1] \in Nat /\ gap[2] \in Nat OBVIOUS
  <2>2. 1 <= gap[1] /\ gap[1] <= gap[2] /\ gap[2] <= n BY <1>2, <1>5 DEF Stretch
  <2>3. \A i \in gap[1]..gap[2] : i \in 1..n /\ flags[i] BY <1>1, <1>5, <2>1, <2>2 DEF Stretch
  <2>4. gap[1] > 1 => gap[1] - 1 \in 1..n /\ ~ flags[gap[1] - 1]
    BY <1>1, <1>5, <2>1, <2>2 DEF Stretch
  <2>5. gap[2] < n => gap[2] + 1 \in 1..n /\ ~ flags[gap[2] + 1]
    BY <1>1, <1>2, <1>5, <2>1, <2>2 DEF Stretch
  <2>6. \A i \in 1..n : ~ flags[i] => nums[h][i] = "seen" BY <1>1, <1>3
  <2> QED BY <1>3, <2>2, <2>3, <2>4, <2>5, <2>6 DEF GapOf
<1>6. \A k \in DOMAIN Runs(flags) : GapOf(Runs(flags)[k], nums[h]) BY <1>4, <1>5
<1> QED BY <1>4, <1>6 DEF FindGaps, flags

(* Filling one gap no longer than MaxGap leaves a seen frame at its end in   *)
(* every window that reaches over it.                                        *)
LEMMA FillKeepsShort ==
  ASSUME frames \in Seq(Frame), NEW cells, NEW gap \in Nat \X Nat, NEW value,
         GapOf(gap, cells), Length(gap) <= MaxGap, Short(cells)
  PROVE  Short([i \in Indices |-> IF i \in gap[1]..gap[2] THEN value ELSE cells[i]])
<1> DEFINE new == [i \in Indices |-> IF i \in gap[1]..gap[2] THEN value ELSE cells[i]]
           n == Len(frames)
<1>0. /\ n \in Nat /\ Indices = 1..n /\ gap[1] \in Nat /\ gap[2] \in Nat
      /\ 1 <= gap[1] /\ gap[1] <= gap[2] /\ gap[2] <= n /\ gap[2] - gap[1] + 1 <= MaxGap
      /\ MaxGap \in Nat
  BY Constants DEF Indices, GapOf, Length
<1>1. \A i \in 1..n : new[i] = IF i \in gap[1]..gap[2] THEN value ELSE cells[i] BY <1>0
<1> HIDE DEF new
<1>2. ASSUME NEW a \in 1..n, a + MaxGap <= n
      PROVE  \E j \in a..(a + MaxGap) : new[j] \notin {"filled", "nan"}
  <2>1. CASE a > gap[2] \/ a + MaxGap < gap[1]
    <3>1. PICK j \in a..(a + MaxGap) : cells[j] \notin {"filled", "nan"}
      BY <1>0, <1>2 DEF Short
    <3>2. j \in 1..n /\ j \notin gap[1]..gap[2] BY <1>0, <1>2, <2>1
    <3> QED BY <1>1, <3>1, <3>2
  <2>2. CASE a < gap[1] /\ a + MaxGap >= gap[1]
    <3>1. /\ gap[1] - 1 \in a..(a + MaxGap) /\ gap[1] - 1 \in 1..n
          /\ gap[1] - 1 \notin gap[1]..gap[2] /\ gap[1] > 1
      BY <1>0, <1>2, <2>2
    <3>2. cells[gap[1] - 1] = "seen" BY <3>1 DEF GapOf
    <3> QED BY <1>1, <3>1, <3>2
  <2>3. CASE a >= gap[1] /\ a <= gap[2]
    <3>1. /\ gap[2] + 1 \in a..(a + MaxGap) /\ gap[2] + 1 \in 1..n
          /\ gap[2] + 1 \notin gap[1]..gap[2] /\ gap[2] < n
      BY <1>0, <1>2, <2>3
    <3>2. cells[gap[2] + 1] = "seen" BY <3>1 DEF GapOf
    <3> QED BY <1>1, <3>1, <3>2
  <2> QED BY <1>0, <2>1, <2>2, <2>3
<1>3. Short(new) BY <1>0, <1>2 DEF Short
<1> QED BY <1>3 DEF new

(* A gap with frames on both sides has anchors on both sides.                *)
LEMMA EdgeGap ==
  ASSUME TypeOK, NEW gap \in Nat \X Nat, GapOf(gap, numbers[hand]), Interpolable(hand, gap),
         AtEdge(hand, gap)
  PROVE  gap[1] = 1 \/ gap[2] = Len(frames)
<1> DEFINE n == Len(frames)
<1>0. /\ n \in Nat /\ Indices = 1..n /\ gap[1] \in Nat /\ gap[2] \in Nat /\ Context \in Nat
      /\ 1 <= gap[1] /\ gap[1] <= gap[2] /\ gap[2] <= n
  BY Constants, ScaleAssumption DEF TypeOK, Indices, GapOf, ScaleAssumption
<1>1. Context >= 1
  <2>1. PICK i \in Anchors(hand, gap) : TRUE BY DEF Interpolable
  <2>2. i \in 1..n /\ i >= gap[1] - Context /\ i <= gap[2] + Context /\ i \notin gap[1]..gap[2]
    BY <1>0, <2>1 DEF Anchors
  <2> HIDE DEF n
  <2> QED BY <1>0, <2>2
<1> SUFFICES ASSUME gap[1] > 1, gap[2] < n PROVE FALSE BY <1>0
<1>2. numbers[hand][gap[1] - 1] = "seen" /\ numbers[hand][gap[2] + 1] = "seen" BY DEF GapOf
<1>3. /\ gap[1] - 1 \in 1..n /\ gap[1] - 1 >= gap[1] - Context /\ gap[1] - 1 <= gap[2] + Context
      /\ gap[1] - 1 \notin gap[1]..gap[2] /\ gap[1] - 1 < gap[2] + 1
      /\ gap[2] + 1 \in 1..n /\ gap[2] + 1 >= gap[1] - Context /\ gap[2] + 1 <= gap[2] + Context
      /\ gap[2] + 1 \notin gap[1]..gap[2]
      /\ ~ (gap[1] - 1 > gap[2]) /\ ~ (gap[2] + 1 < gap[1])
  BY <1>0, <1>1
<1>4. gap[1] - 1 \in Anchors(hand, gap) BY <1>0, <1>2, <1>3 DEF Anchors
<1>5. gap[2] + 1 \in Anchors(hand, gap) BY <1>0, <1>2, <1>3 DEF Anchors
<1> QED BY <1>3, <1>4, <1>5 DEF AtEdge

(* Filling a gap, with numbers or at an end of the recording, keeps what is  *)
(* not a number at the ends.                                                 *)
LEMMA FillKeepsEdged ==
  ASSUME frames \in Seq(Frame), NEW cells, NEW gap \in Nat \X Nat, NEW value \in {"filled", "nan"},
         GapOf(gap, cells), Edged(cells),
         value = "nan" => gap[1] = 1 \/ gap[2] = Len(frames)
  PROVE  Edged([i \in Indices |-> IF i \in gap[1]..gap[2] THEN value ELSE cells[i]])
<1> DEFINE new == [i \in Indices |-> IF i \in gap[1]..gap[2] THEN value ELSE cells[i]]
           n == Len(frames)
<1>0. /\ n \in Nat /\ Indices = 1..n /\ gap[1] \in Nat /\ gap[2] \in Nat
      /\ 1 <= gap[1] /\ gap[1] <= gap[2] /\ gap[2] <= n
  BY DEF Indices, GapOf
<1>1. \A i \in 1..n : new[i] = IF i \in gap[1]..gap[2] THEN value ELSE cells[i] BY <1>0
<1> HIDE DEF new
<1>2. \A i \in 1..n : cells[i] = "nan" => new[i] = "nan" BY <1>0, <1>1 DEF GapOf
<1>3. ASSUME NEW i \in 1..n, new[i] = "nan"
      PROVE  (\A j \in 1..i : new[j] = "nan") \/ (\A j \in i..n : new[j] = "nan")
  <2>1. CASE i \in gap[1]..gap[2]
    <3>1. value = "nan" BY <1>1, <1>3, <2>1
    <3>2. CASE gap[1] = 1
      <4>1. \A j \in 1..i : j \in 1..n /\ j \in gap[1]..gap[2] BY <1>0, <2>1, <3>2
      <4> QED BY <1>1, <3>1, <4>1
    <3>3. CASE gap[2] = n
      <4>1. \A j \in i..n : j \in 1..n /\ j \in gap[1]..gap[2] BY <1>0, <2>1, <3>3
      <4> QED BY <1>1, <3>1, <4>1
    <3> QED BY <3>1, <3>2, <3>3
  <2>2. CASE i \notin gap[1]..gap[2]
    <3>1. (\A j \in 1..i : cells[j] = "nan") \/ (\A j \in i..n : cells[j] = "nan")
      BY <1>0, <1>1, <1>3, <2>2 DEF Edged
    <3>2. (\A j \in 1..i : j \in 1..n) /\ (\A j \in i..n : j \in 1..n) BY <1>0
    <3> QED BY <1>2, <3>1, <3>2
  <2> QED BY <2>1, <2>2
<1>4. Edged(new) BY <1>0, <1>3 DEF Edged
<1> QED BY <1>4 DEF new

(* The other gaps stay open.                                                 *)
LEMMA FillKeepsGaps ==
  ASSUME frames \in Seq(Frame), NEW cells, NEW gap \in Nat \X Nat, NEW other \in Nat \X Nat,
         NEW value, GapOf(gap, cells), GapOf(other, cells), gap[2] < other[1]
  PROVE  GapOf(other, [i \in Indices |-> IF i \in gap[1]..gap[2] THEN value ELSE cells[i]])
<1> DEFINE new == [i \in Indices |-> IF i \in gap[1]..gap[2] THEN value ELSE cells[i]]
           n == Len(frames)
<1>0. /\ n \in Nat /\ Indices = 1..n /\ gap[1] \in Nat /\ gap[2] \in Nat
      /\ other[1] \in Nat /\ other[2] \in Nat
      /\ 1 <= other[1] /\ other[1] <= other[2] /\ other[2] <= n
  BY DEF Indices, GapOf
<1>1. \A i \in 1..n : new[i] = IF i \in gap[1]..gap[2] THEN value ELSE cells[i] BY <1>0
<1> HIDE DEF new
<1>2. \A i \in other[1]..other[2] : i \in 1..n /\ i \notin gap[1]..gap[2] BY <1>0
<1>3. \A i \in other[1]..other[2] : new[i] = "missing" BY <1>1, <1>2 DEF GapOf
<1>4. ASSUME other[1] > 1 PROVE new[other[1] - 1] = "seen"
  <2>1. cells[other[1] - 1] = "seen" /\ other[1] - 1 \in 1..n BY <1>0, <1>4 DEF GapOf
  <2>2. other[1] - 1 \notin gap[1]..gap[2] BY <2>1 DEF GapOf
  <2> QED BY <1>1, <2>1, <2>2
<1>5. ASSUME other[2] < n PROVE new[other[2] + 1] = "seen"
  <2>1. cells[other[2] + 1] = "seen" /\ other[2] + 1 \in 1..n BY <1>0, <1>5 DEF GapOf
  <2>2. other[2] + 1 \notin gap[1]..gap[2] BY <2>1 DEF GapOf
  <2> QED BY <1>1, <2>1, <2>2
<1>6. GapOf(other, new) BY <1>0, <1>3, <1>4, <1>5 DEF GapOf
<1> QED BY <1>6 DEF new

LEMMA InitRepair == Init => RepairInv
<1> SUFFICES ASSUME Init PROVE RepairInv OBVIOUS
<1>0. TypeOK /\ stage = "loaded" /\ hand = "left" BY InitPlan DEF PlanInv, Init
<1>1. PICK m \in 0..MaxFrames : frames \in [1..m -> Frame] BY DEF Init
<1>2. \A h \in Hands, i \in Indices : numbers[h][i] \in {"seen", "missing"}
  <2>1. m \in Nat /\ Len(frames) = m BY <1>1, Constants
  <2>2. \A i \in Indices : frames[i] \in Frame BY <1>1, <2>1 DEF Indices
  <2>3. \A h \in Hands, i \in Indices : frames[i][h] \in {"seen", "missing"}
    BY <2>2, ScaleAssumption DEF ScaleAssumption, Hands
  <2>4. \A h \in Hands, i \in Indices : numbers[h][i] = frames[i][h] BY DEF Init
  <2> QED BY <2>3, <2>4
<1>3. FilledShort BY <1>2, UnrepairedIsShort DEF FilledShort
<1>4. NansEdged BY <1>2, UnrepairedIsEdged DEF NansEdged
<1> QED BY <1>0, <1>2, <1>3, <1>4 DEF RepairInv, GapsOpen, Unrepaired, Marked

LEMMA NullifyRepairs ==
  ASSUME RepairInv, MaxGap # 0, Nullify
  PROVE  (GapsOpen /\ Unrepaired /\ Marked /\ FilledShort /\ NansEdged)'
<1> DEFINE nums == [h \in Hands |-> [i \in Indices |->
                      IF h \in frames[i].error THEN "missing" ELSE numbers[h][i]]]
<1>1. /\ stage = "loaded" /\ stage' = "fill" /\ numbers' = nums /\ gaps' = FindGaps("left", nums)
      /\ UNCHANGED <<frames, hand>>
  BY DEF Nullify
<1>2. hand = "left" /\ "left" \in Hands BY <1>1 DEF RepairInv, Unrepaired, Hands
<1>3. \A h \in Hands, i \in Indices : /\ nums[h][i] \in {"seen", "missing"}
                                      /\ h \in frames[i].error => nums[h][i] = "missing"
  BY <1>1 DEF RepairInv, Unrepaired
<1>4. Indices' = Indices BY <1>1 DEF Indices
<1> HIDE DEF nums
<1>5. Unrepaired' BY <1>1, <1>3, <1>4 DEF Unrepaired
<1>6. Marked'
  <2>1. \A i \in Indices : \A h \in frames[i].error : h \in Hands
    <3>1. \A i \in Indices : frames[i] \in Frame BY DEF RepairInv, TypeOK, Indices
    <3> QED BY <3>1, ScaleAssumption DEF ScaleAssumption, Hands
  <2>2. \A i \in Indices : \A h \in frames[i].error : nums[h][i] # "seen" BY <1>3, <2>1
  <2> QED BY <1>1, <1>4, <2>2 DEF Marked
<1>7. FilledShort'
  <2>1. \A h \in Hands : Short(nums[h]) BY <1>3, UnrepairedIsShort
  <2> QED BY <1>1, <1>4, <2>1 DEF FilledShort, Short
<1>8. GapsOpen'
  <2>1. /\ Apart(FindGaps("left", nums))
        /\ \A k \in DOMAIN FindGaps("left", nums) : GapOf(FindGaps("left", nums)[k], nums["left"])
    BY <1>2, <1>3, GapsFound DEF RepairInv, TypeOK
  <2> QED BY <1>1, <1>2, <2>1 DEF GapsOpen, GapOf
<1>9. NansEdged'
  <2>1. \A h \in Hands : Edged(nums[h]) BY <1>3, UnrepairedIsEdged
  <2> QED BY <1>1, <1>4, <2>1 DEF NansEdged, Edged
<1> QED BY <1>5, <1>6, <1>7, <1>8, <1>9

(* The tail of gaps that are apart.                                          *)
LEMMA TailApart ==
  ASSUME NEW s \in Seq(Nat \X Nat), s # <<>>, Apart(s)
  PROVE  /\ Tail(s) \in Seq(Nat \X Nat) /\ Apart(Tail(s)) /\ Head(s) \in Nat \X Nat
         /\ 1 \in DOMAIN s /\ Head(s) = s[1]
         /\ \A k \in DOMAIN Tail(s) : /\ k + 1 \in DOMAIN s /\ Tail(s)[k] = s[k + 1]
                                      /\ Head(s)[2] < s[k + 1][1]
<1> DEFINE z == Tail(s)
<1>1. /\ z \in Seq(Nat \X Nat) /\ Head(s) \in Nat \X Nat /\ Head(s) = s[1]
      /\ Len(s) \in Nat /\ Len(s) >= 1 /\ DOMAIN s = 1..Len(s) /\ DOMAIN z = 1..(Len(s) - 1)
      /\ \A k \in 1..(Len(s) - 1) : z[k] = s[k + 1]
  OBVIOUS
<1> HIDE DEF z
<1>2. ASSUME NEW k \in DOMAIN z PROVE k \in Nat /\ k + 1 \in DOMAIN s /\ z[k] = s[k + 1] /\ 1 < k + 1
  <2>1. Len(s) \in Nat /\ k \in 1..(Len(s) - 1) BY <1>1
  <2>2. \A l \in Nat : \A j \in 1..(l - 1) : j \in Nat /\ j + 1 \in 1..l /\ 1 < j + 1 OBVIOUS
  <2> QED BY <1>1, <2>1, <2>2
<1>3. 1 \in DOMAIN s BY <1>1
<1>4. \A k \in DOMAIN z : s[1][2] < s[k + 1][1] BY <1>2, <1>3 DEF Apart
<1>5. Apart(z)
  <2>1. ASSUME NEW k \in DOMAIN z, NEW l \in DOMAIN z, k < l PROVE z[k][2] < z[l][1]
    <3>1. k + 1 < l + 1 BY <1>2, <2>1
    <3> QED BY <1>2, <3>1 DEF Apart
  <2> QED BY <2>1 DEF Apart
<1> QED BY <1>1, <1>2, <1>3, <1>4, <1>5 DEF z

LEMMA FillRepairs ==
  ASSUME RepairInv, FillGap
  PROVE  (GapsOpen /\ Unrepaired /\ Marked /\ FilledShort /\ NansEdged)'
<1> DEFINE gap == Head(gaps)
           value == IF AtEdge(hand, gap) THEN "nan" ELSE "filled"
           cells == [i \in Indices |-> IF i \in gap[1]..gap[2] THEN value
                                       ELSE numbers[hand][i]]
<1>1. /\ stage = "fill" /\ stage' = "fill" /\ gaps # <<>> /\ gaps' = Tail(gaps)
      /\ numbers' = [numbers EXCEPT ![hand] = cells]
      /\ Length(gap) <= MaxGap /\ Interpolable(hand, gap) /\ UNCHANGED <<frames, hand>>
  BY DEF FillGap, Fillable
<1>2. /\ gaps \in Seq(Nat \X Nat) /\ Apart(gaps) /\ frames \in Seq(Frame) /\ hand \in Hands
      /\ numbers \in [Hands -> [Indices -> Cell]]
      /\ \A k \in DOMAIN gaps : GapOf(gaps[k], numbers[hand])
  BY <1>1 DEF RepairInv, TypeOK, GapsOpen
<1>3. /\ Apart(gaps') /\ gap \in Nat \X Nat /\ 1 \in DOMAIN gaps /\ gap = gaps[1]
      /\ \A k \in DOMAIN gaps' : /\ k + 1 \in DOMAIN gaps /\ gaps'[k] = gaps[k + 1]
                                 /\ gap[2] < gaps[k + 1][1]
  BY <1>1, <1>2, TailApart
<1>4. value \in {"nan", "filled"} /\ (value = "nan" => AtEdge(hand, gap)) OBVIOUS
<1> HIDE DEF value, gap
<1>5. GapOf(gap, numbers[hand]) BY <1>2, <1>3
<1>6. \A k \in DOMAIN gaps' : GapOf(gaps'[k], cells)
  <2>1. ASSUME NEW k \in DOMAIN gaps' PROVE GapOf(gaps'[k], cells)
    <3>1. /\ gaps[k + 1] \in Nat \X Nat /\ GapOf(gaps[k + 1], numbers[hand])
          /\ gap[2] < gaps[k + 1][1]
      BY <1>2, <1>3
    <3>2. GapOf(gaps[k + 1], cells)
      <4> DEFINE old == numbers[hand]
                 other == gaps[k + 1]
      <4>1. /\ frames \in Seq(Frame) /\ gap \in Nat \X Nat /\ other \in Nat \X Nat
            /\ GapOf(gap, old) /\ GapOf(other, old) /\ gap[2] < other[1]
        BY <1>2, <1>3, <1>5, <3>1, SMTT(30)
      <4>2. cells = [i \in Indices |-> IF i \in gap[1]..gap[2] THEN value ELSE old[i]] OBVIOUS
      <4> HIDE DEF old, other, cells
      <4>3. GapOf(other, [i \in Indices |-> IF i \in gap[1]..gap[2] THEN value ELSE old[i]])
        BY <4>1, FillKeepsGaps, ZenonT(30)
      <4> QED BY <4>2, <4>3 DEF other
    <3> QED BY <1>3, <3>2
  <2> QED BY <2>1
<1>7. Short(cells)
  <2>1. Short(numbers[hand]) BY <1>2 DEF RepairInv, FilledShort
  <2> DEFINE old == numbers[hand]
             new == [i \in Indices |-> IF i \in gap[1]..gap[2] THEN value ELSE old[i]]
  <2>2. /\ frames \in Seq(Frame) /\ gap \in Nat \X Nat
        /\ GapOf(gap, old) /\ Length(gap) <= MaxGap /\ Short(old)
    <3>1. Length(gap) <= MaxGap BY <1>1
    <3> QED BY <1>2, <1>3, <1>5, <2>1, <3>1
  <2>3. cells = new OBVIOUS
  <2> HIDE DEF old, cells
  <2>4. Short(new) BY <2>2, FillKeepsShort
  <2> QED BY <2>3, <2>4
<1>8. Edged(cells)
  <2>1. Edged(numbers[hand]) BY <1>2 DEF RepairInv, NansEdged
  <2>2. value = "nan" => gap[1] = 1 \/ gap[2] = Len(frames)
    BY <1>1, <1>3, <1>4, <1>5, EdgeGap DEF RepairInv
  <2> DEFINE old == numbers[hand]
             new == [i \in Indices |-> IF i \in gap[1]..gap[2] THEN value ELSE old[i]]
  <2>3. /\ frames \in Seq(Frame) /\ gap \in Nat \X Nat /\ value \in {"filled", "nan"}
        /\ GapOf(gap, old) /\ Edged(old) /\ (value = "nan" => gap[1] = 1 \/ gap[2] = Len(frames))
    BY <1>2, <1>3, <1>4, <1>5, <2>1, <2>2
  <2>4. cells = new OBVIOUS
  <2> HIDE DEF old, cells
  <2>5. Edged(new) BY <2>3, FillKeepsEdged
  <2> QED BY <2>4, <2>5
<1>9. \A i \in Indices : cells[i] = (IF i \in gap[1]..gap[2] THEN value ELSE numbers[hand][i])
  OBVIOUS
<1>10. Indices' = Indices BY <1>1 DEF Indices
<1> HIDE DEF cells
<1>11. \A h \in Hands : numbers'[h] = IF h = hand THEN cells ELSE numbers[h] BY <1>1, <1>2
<1>12. GapsOpen'
  <2>1. numbers'[hand'] = cells BY <1>1, <1>2, <1>11
  <2>2. \A k \in DOMAIN gaps' : (GapOf(gaps[k], numbers[hand]))'
    BY <1>1, <1>6, <2>1 DEF GapOf
  <2> QED BY <1>3, <2>2 DEF GapsOpen, Apart
<1>13. Unrepaired'
  <2>1. \A h \in Hands, i \in Indices : hand = "left" /\ h = "right" => numbers'[h][i] = numbers[h][i]
    BY <1>11
  <2>2. \A h \in Hands, i \in Indices : hand = "left" /\ h = "right" => numbers[h][i] \in {"seen", "missing"}
    BY <1>1 DEF RepairInv, Unrepaired
  <2> QED BY <1>1, <1>10, <2>1, <2>2 DEF Unrepaired
<1>14. Marked'
  <2>1. \A i \in Indices : \A h \in frames[i].error : h \in Hands /\ numbers[h][i] # "seen"
    <3>1. \A i \in Indices : frames[i] \in Frame BY <1>2 DEF Indices
    <3>2. \A i \in Indices : \A h \in frames[i].error : h \in Hands
      BY <3>1, ScaleAssumption DEF ScaleAssumption, Hands
    <3> QED BY <1>1, <3>2 DEF RepairInv, Marked
  <2>2. \A i \in Indices : \A h \in frames[i].error : numbers'[h][i] # "seen"
    BY <1>4, <1>9, <1>11, <2>1
  <2> QED BY <1>1, <1>10, <2>2 DEF Marked
<1>15. FilledShort'
  <2>1. \A h \in Hands : Short(numbers'[h]) BY <1>7, <1>11 DEF RepairInv, FilledShort
  <2> QED BY <1>1, <1>10, <2>1 DEF FilledShort, Short
<1>16. NansEdged'
  <2>1. \A h \in Hands : Edged(numbers'[h]) BY <1>11, <1>8 DEF RepairInv, NansEdged
  <2> QED BY <1>1, <1>10, <2>1 DEF NansEdged, Edged
<1> QED BY <1>12, <1>13, <1>14, <1>15, <1>16

LEMMA NextHandRepairs ==
  ASSUME RepairInv, NextHand
  PROVE  (GapsOpen /\ Unrepaired /\ Marked /\ FilledShort /\ NansEdged)'
<1>1. stage = "fill" /\ UNCHANGED <<frames, numbers>> BY DEF NextHand
<1>2. Indices' = Indices BY <1>1 DEF Indices
<1>3. FilledShort' /\ NansEdged'
  BY <1>1, <1>2 DEF RepairInv, FilledShort, Short, NansEdged, Edged
<1>4. Marked'
  <2>1. \A i \in Indices : \A h \in frames[i].error : numbers[h][i] # "seen"
    BY <1>1 DEF RepairInv, Marked
  <2> QED BY <1>1, <1>2, <2>1 DEF Marked
<1>5. CASE hand = "left"
  <2>1. hand' = "right" /\ gaps' = FindGaps("right", numbers) /\ stage' = "fill"
    BY <1>1, <1>5 DEF NextHand
  <2>2. \A i \in Indices : numbers["right"][i] \in {"seen", "missing"}
    BY <1>1, <1>5 DEF RepairInv, Unrepaired, Hands
  <2>3. /\ Apart(FindGaps("right", numbers))
        /\ \A k \in DOMAIN FindGaps("right", numbers) :
             GapOf(FindGaps("right", numbers)[k], numbers["right"])
    BY <2>2, GapsFound DEF RepairInv, TypeOK
  <2>4. GapsOpen' BY <1>1, <2>1, <2>3 DEF GapsOpen, GapOf
  <2>5. Unrepaired' BY <2>1 DEF Unrepaired
  <2> QED BY <1>3, <1>4, <2>4, <2>5
<1>6. CASE hand # "left"
  <2>1. stage' = "filter" BY <1>6 DEF NextHand
  <2> QED BY <1>3, <1>4, <2>1 DEF GapsOpen, Unrepaired
<1> QED BY <1>5, <1>6

LEMMA RepairNext ==
  ASSUME MaxGap # 0, PlanInv, RepairInv, [Next]_vars PROVE RepairInv'
<1>0. TypeOK' BY TypeNext
<1>1. CASE Nullify BY <1>0, <1>1, NullifyRepairs DEF RepairInv
<1>2. CASE FillGap BY <1>0, <1>2, FillRepairs DEF RepairInv
<1>3. CASE NextHand BY <1>0, <1>3, NextHandRepairs DEF RepairInv
<1>4. CASE LeaveGap
  <2>1. /\ stage = "fill" /\ stage' = "fill" /\ gaps # <<>> /\ gaps' = Tail(gaps)
        /\ UNCHANGED <<frames, numbers, hand>>
    BY <1>4 DEF LeaveGap
  <2>2. gaps \in Seq(Nat \X Nat) /\ Apart(gaps) /\ \A k \in DOMAIN gaps : GapOf(gaps[k], numbers[hand])
    BY <2>1 DEF RepairInv, TypeOK, GapsOpen
  <2>3. Apart(gaps') /\ \A k \in DOMAIN gaps' : GapOf(gaps'[k], numbers[hand])
    BY <2>1, <2>2, TailApart
  <2>4. \A k \in DOMAIN gaps' : (GapOf(gaps[k], numbers[hand]))' BY <2>1, <2>3 DEF GapOf
  <2>5. GapsOpen' BY <2>3, <2>4 DEF GapsOpen, Apart
  <2> QED BY <1>0, <2>1, <2>5 DEF RepairInv, Unrepaired, Marked, FilledShort, Short, NansEdged,
                                  Edged, Indices
<1>5. CASE /\ TooFewFrames \/ Filter \/ WriteEpisode \/ Finish \/ UNCHANGED vars
  <2>1. /\ UNCHANGED <<frames, numbers, hand, gaps>>
        /\ \/ stage' = stage
           \/ stage \in {"filter", "write"} /\ stage' \in {"write", "done", "failed"}
           \/ stage' = "failed"
    BY <1>5 DEF TooFewFrames, Filter, WriteEpisode, Finish, vars
  <2>2. Unrepaired' BY <2>1 DEF RepairInv, Unrepaired, Indices
  <2>3. Marked' BY <2>1 DEF RepairInv, Marked, Indices
  <2>4. FilledShort' /\ NansEdged'
    BY <2>1 DEF RepairInv, FilledShort, Short, NansEdged, Edged, Indices
  <2>5. GapsOpen' BY <2>1 DEF RepairInv, GapsOpen, GapOf, Apart
  <2> QED BY <1>0, <2>2, <2>3, <2>4, <2>5 DEF RepairInv
<1> QED BY <1>1, <1>2, <1>3, <1>4, <1>5 DEF Next

LEMMA HandsAre == ASSUME PlanInv, RepairInv PROVE HandsExplained
<1> SUFFICES ASSUME stage = "done", NEW i \in Written, NEW h \in active
             PROVE  /\ numbers[h][i] = "missing" => h \notin frames[i].error
                    /\ numbers[h][i] # "missing" /\ h \in frames[i].error =>
                         /\ numbers[h][i] \in {"filled", "nan"}
                         /\ \A a \in 1..i : i <= a + MaxGap /\ a + MaxGap <= Len(frames) =>
                              \E j \in a..(a + MaxGap) : numbers[h][j] \notin {"filled", "nan"}
                    /\ numbers[h][i] = "nan" =>
                         \/ \A j \in 1..i : numbers[h][j] = "nan"
                         \/ \A j \in i..Len(frames) : numbers[h][j] = "nan"
  BY DEF HandsExplained
<1>1. h \in Hands BY DEF PlanInv, TypeOK
<1>2. PICK n \in DOMAIN episodes : i \in episodes[n].run[1]..episodes[n].run[2] BY DEF Written
<1>3. Usable(i)
  <2>1. EpisodesTile BY PlanTiles
  <2> QED BY <1>2, <2>1 DEF EpisodesTile
<1>4. i \in Indices
  <2>1. /\ SubEpisodes \in Seq(Nat \X Nat) /\ Tiled(SubEpisodes) /\ frames \in Seq(Frame)
        /\ episodes \in Seq(EpisodeType)
    BY SubEpisodesTile DEF PlanInv, TypeOK, Tiled
  <2>2. Len(episodes) + Len(plan) = Len(SubEpisodes) /\ plan = <<>>
        /\ episodes[n].run = SubEpisodes[n]
    BY DEF PlanInv, Planned
  <2>3. n \in DOMAIN SubEpisodes BY <2>1, <2>2
  <2>4. 1 <= SubEpisodes[n][1] /\ SubEpisodes[n][2] <= Len(frames) BY <2>1, <2>3 DEF Tiled
  <2>5. SubEpisodes[n] \in Nat \X Nat /\ Len(frames) \in Nat BY <2>1, <2>3
  <2> QED BY <1>2, <2>2, <2>4, <2>5 DEF Indices
<1>5. ASSUME numbers[h][i] = "missing" PROVE h \notin frames[i].error
  BY <1>3, <1>5 DEF Usable
<1>6. ASSUME numbers[h][i] # "missing", h \in frames[i].error
      PROVE  numbers[h][i] \in {"filled", "nan"}
  <2>1. numbers[h][i] # "seen" BY <1>4, <1>6 DEF RepairInv, Marked
  <2>2. numbers[h][i] \in Cell BY <1>1, <1>4 DEF PlanInv, TypeOK
  <2> QED BY <1>6, <2>1, <2>2 DEF Cell
<1>7. ASSUME NEW a \in 1..i, a + MaxGap <= Len(frames)
      PROVE  \E j \in a..(a + MaxGap) : numbers[h][j] \notin {"filled", "nan"}
  <2>1. a \in Indices
    <3>1. Len(frames) \in Nat BY DEF PlanInv, TypeOK
    <3> QED BY <1>4, <3>1 DEF Indices
  <2> QED BY <1>1, <1>7, <2>1 DEF RepairInv, FilledShort, Short
<1>8. numbers[h][i] = "nan" => \/ \A j \in 1..i : numbers[h][j] = "nan"
                               \/ \A j \in i..Len(frames) : numbers[h][j] = "nan"
  BY <1>1, <1>4 DEF RepairInv, NansEdged, Edged
<1> QED BY <1>5, <1>6, <1>7, <1>8

(* Where gaps are interpolated at all (a limit of zero turns the repair off, *)
(* and its nullification with it), a hand that was marked wrong is written   *)
(* with interpolated numbers over a short gap, or with what is not a number  *)
(* at an end of the recording, or not at all (interpolate_hand_gaps,         *)
(* _build_validity_mask).                                                    *)
THEOREM HandsAreExplained == ASSUME MaxGap # 0 PROVE Spec => []HandsExplained
<1>1. ASSUME PlanInv, RepairInv, [Next]_vars PROVE RepairInv' BY <1>1, RepairNext
<1>2. PlanInv /\ RepairInv => HandsExplained BY HandsAre
<1> QED BY PlanHolds, InitRepair, <1>1, <1>2, PTL DEF Spec
==============================================================================
