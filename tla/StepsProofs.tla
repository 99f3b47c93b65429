---------------------------- MODULE StepsProofs ----------------------------
EXTENDS StepEditor, FiniteSetTheorems, SequenceTheorems, WellFoundedInduction, TLAPS

-------------------------------------------------------------------------------
(***************************************************************************)
(* Numbers.                                                                *)
(***************************************************************************)
\* A set of numbers has a least one.
LEMMA LeastNumber ==
  ASSUME NEW T \in SUBSET Nat, T # {}
  PROVE  \E n \in T : \A m \in T : n <= m
<1>1. IsWellFoundedOn(OpToRel(<, Nat), Nat)
  BY NatLessThanWellFounded
<1>2. PICK n \in T : \A m \in T : ~(<<m, n>> \in OpToRel(<, Nat))
  BY <1>1, WFMin
<1>3. \A m \in T : ~(m < n)
  BY <1>2 DEF OpToRel
<1> QED
  BY <1>3

\* ... and, when it is bounded, a greatest one, which Max chooses.
LEMMA GreatestIs ==
  ASSUME NEW b \in Nat, NEW T \in SUBSET (0..b), T # {}
  PROVE  Max(T) \in T /\ \A m \in T : m <= Max(T)
<1> DEFINE D == {k \in Nat : \E m \in T : k = b - m}
<1>1. \A m \in T : b - m \in D
  OBVIOUS
<1>2. PICK d \in D : \A k \in D : d <= k
  BY <1>1, LeastNumber
<1>3. PICK n \in T : d = b - n
  BY <1>2
<1>4. \A m \in T : n >= m
  BY <1>1, <1>2, <1>3
<1> QED
  BY <1>4 DEF Max

\* A quotient is no more than q when the dividend does not reach q + 1 times the divisor,
\* and no less than q when it reaches q times the divisor.
LEMMA DivAtMost ==
  ASSUME NEW a \in Nat, NEW d \in Nat \ {0}, NEW q \in Nat, a < q * d + d
  PROVE  a \div d \in 0..q
<1>1. PICK x \in Int : x = a \div d
  OBVIOUS
<1>2. d * x <= a /\ a < d * x + d
  BY <1>1
<1>3. x >= 0
  <2>1. SUFFICES ASSUME x <= -1 PROVE FALSE
    OBVIOUS
  <2>2. d * x <= -d
    BY <2>1
  <2> QED
    BY <1>2, <2>2
<1>4. x <= q
  <2>1. SUFFICES ASSUME x >= q + 1 PROVE FALSE
    OBVIOUS
  <2>2. d * x >= d * q + d
    BY <2>1
  <2> QED
    BY <1>2, <2>2
<1> QED
  BY <1>1, <1>3, <1>4

LEMMA DivAtLeast ==
  ASSUME NEW a \in Nat, NEW d \in Nat \ {0}, NEW q \in Nat, q * d <= a
  PROVE  a \div d \in Nat /\ q <= a \div d /\ (a \div d) * d <= a /\ a \div d <= a
<1>1. PICK x \in Int : x = a \div d
  OBVIOUS
<1>2. d * x <= a /\ a < d * x + d
  BY <1>1
<1>3. x >= q
  <2>1. SUFFICES ASSUME x + 1 <= q PROVE FALSE
    OBVIOUS
  <2>2. d * x + d <= d * q
    BY <2>1
  <2> QED
    BY <1>2, <2>2
<1>4. x <= a
  <2>1. SUFFICES ASSUME x >= a + 1 PROVE FALSE
    OBVIOUS
  <2>2. d * x >= x
    BY <1>3
  <2> QED
    BY <1>2, <2>1, <2>2
<1> QED
  BY <1>1, <1>2, <1>3, <1>4

-------------------------------------------------------------------------------
(***************************************************************************)
(* The short steps of a glide.                                             *)
(***************************************************************************)
\* Between two values a straight line stays between them, and does not move when they
\* are one.
LEMMA LerpIs ==
  ASSUME NEW a \in 0..Full, NEW b \in 0..Full, NEW n \in Nat \ {0}, NEW k \in 0..n
  PROVE  Lerp(a, b, k, n) \in 0..Full /\ (a = b => Lerp(a, b, k, n) = a)
<1>0. Full \in Nat
  BY StepConstants
<1>1. PICK m \in Nat : m = n - k
  OBVIOUS
<1>2. PICK x \in Nat : x = a * m + b * k
  OBVIOUS
<1>3. Lerp(a, b, k, n) = (2 * x + n) \div (2 * n)
  BY <1>1, <1>2 DEF Lerp
<1>4. x <= Full * n
  <2>1. a * m <= Full * m /\ b * k <= Full * k
    BY <1>0, <1>1
  <2>2. Full * m + Full * k = Full * n
    BY <1>0, <1>1
  <2> QED
    BY <1>0, <1>1, <1>2, <2>1, <2>2
<1>5. 2 * x + n < Full * (2 * n) + 2 * n
  BY <1>0, <1>4
<1>6. Lerp(a, b, k, n) \in 0..Full
  BY <1>0, <1>3, <1>5, DivAtMost
<1>7. ASSUME a = b PROVE Lerp(a, b, k, n) = a
  <2>1. x = a * n
    BY <1>1, <1>2, <1>7
  <2>2. 2 * x + n < a * (2 * n) + 2 * n /\ a * (2 * n) <= 2 * x + n
    BY <2>1
  <2>3. (2 * x + n) \div (2 * n) \in 0..a
    BY <2>2, DivAtMost
  <2>4. a <= (2 * x + n) \div (2 * n)
    BY <2>2, DivAtLeast
  <2> QED
    BY <1>3, <2>3, <2>4
<1> QED
  BY <1>6, <1>7

\* A step with no glides.
FlatStep == {step \in Step : step.glide = {}}

\* How many short steps: at least one, and when more, no more than values on the way.
LEMMA ShortStepsIs ==
  ASSUME NEW step \in Step, NEW next \in Step
  PROVE  /\ ShortSteps(step, next) \in Nat \ {0}
         /\ ShortSteps(step, next) > 1 => ShortSteps(step, next) <= Full
<1>0. Full \in Nat /\ GlideStepMs \in Nat /\ MaxMs \in Nat
  BY StepConstants
<1> DEFINE T == {0} \cup {Apart(step.at[c][k], next.at[c][k]) : c \in step.glide, k \in 1 .. 2}
<1>1. ASSUME NEW c \in step.glide, NEW k \in 1..2
      PROVE  Apart(step.at[c][k], next.at[c][k]) \in 0..Full
  <2>1. step.at[c] \in Position /\ next.at[c] \in Position
    BY DEF Step
  <2>2. step.at[c][k] \in 0..Full /\ next.at[c][k] \in 0..Full
    BY <2>1 DEF Position
  <2> QED
    BY <1>0, <2>2 DEF Apart, Most, Least
<1>2. T \in SUBSET (0..Full) /\ T # {}
  BY <1>0, <1>1
<1>3. LargestChange(step, next) \in 0..Full
  <2> HIDE DEF T
  <2>1. Max(T) \in 0..Full
    BY <1>0, <1>2, GreatestIs
  <2> QED
    BY <2>1 DEF T, LargestChange
<1>4. step.ms \in Nat
  BY <1>0 DEF Step
<1>5. CASE GlideStepMs = 0
  BY <1>5 DEF ShortSteps
<1>6. CASE GlideStepMs # 0
  <2>1. (step.ms + GlideStepMs - 1) \div GlideStepMs \in Int
    BY <1>0, <1>4, <1>6
  <2> QED
    BY <1>0, <1>3, <1>6, <2>1 DEF ShortSteps, Most, Least
<1> QED
  BY <1>5, <1>6

\* The short steps of a gliding step are steps without glides, each with the buttons of the
\* step and each control on its line.
LEMMA ExpandStepIs ==
  ASSUME NEW step \in Step, NEW next \in Step,
         NEW n, n = ShortSteps(step, next), NEW run, run = ExpandStep(step, next)
  PROVE  /\ run \in Seq(FlatStep) /\ Len(run) = n /\ n \in Nat \ {0}
         /\ \A k \in 1..n, c \in Controls :
              run[k].at[c] = IF c \in step.glide THEN Along(step.at[c], next.at[c], k - 1, n)
                             ELSE step.at[c]
<1>0. Full \in Nat /\ MaxMs \in Nat
  BY StepConstants
<1>1. n \in Nat \ {0}
  BY ShortStepsIs
<1>2. step.ms \in 0..MaxMs
  BY DEF Step
<1>3. PICK each \in Nat : each = step.ms \div n /\ each * n <= step.ms
  <2>1. 0 * n <= step.ms /\ step.ms \in Nat
    BY <1>0, <1>1, <1>2
  <2> QED
    BY <1>1, <2>1, DivAtLeast
<1> DEFINE ms(k) == IF k = n THEN step.ms - each * (n - 1) ELSE each
           at(k) == [c \in Controls |->
                       IF c \in step.glide THEN Along(step.at[c], next.at[c], k - 1, n)
                       ELSE step.at[c]]
<1>4. ASSUME NEW k \in 1..n PROVE ms(k) \in 0..MaxMs
  <2>1. each * (n - 1) = each * n - each
    BY <1>1
  <2>2. each <= each * n /\ each * n \in Nat
    BY <1>1
  <2> QED
    BY <1>0, <1>2, <1>3, <2>1, <2>2
<1>5. ASSUME NEW k \in 1..n PROVE at(k) \in [Controls -> Position]
  <2>1. ASSUME NEW c \in Controls PROVE step.at[c] \in Position /\ next.at[c] \in Position
    BY DEF Step
  <2>2. ASSUME NEW c \in Controls PROVE Along(step.at[c], next.at[c], k - 1, n) \in Position
    <3>1. /\ step.at[c][1] \in 0..Full /\ next.at[c][1] \in 0..Full
          /\ step.at[c][2] \in 0..Full /\ next.at[c][2] \in 0..Full
      BY <2>1, <2>2 DEF Position
    <3>2. PICK m : m = k - 1 /\ m \in 0..n
      BY <1>1
    <3>3. /\ Lerp(step.at[c][1], next.at[c][1], m, n) \in 0..Full
          /\ Lerp(step.at[c][2], next.at[c][2], m, n) \in 0..Full
      BY <1>1, <3>1, <3>2, LerpIs
    <3>4. Along(step.at[c], next.at[c], m, n) \in Position
      BY <3>3 DEF Along, Position
    <3> QED
      BY <3>2, <3>4
  <2> QED
    BY <2>1, <2>2
<1>6. run = [k \in 1..n |-> [step EXCEPT !.ms = ms(k), !.glide = {}, !.at = at(k)]]
  BY <1>3 DEF ExpandStep
<1> HIDE DEF ms, at
<1>7. ASSUME NEW k \in 1..n
      PROVE  run[k] \in FlatStep /\ run[k].at = at(k)
  <2>1. run[k] = [step EXCEPT !.ms = ms(k), !.glide = {}, !.at = at(k)]
    BY <1>6
  <2> QED
    BY <1>4, <1>5, <2>1 DEF Step, FlatStep
<1>8. run \in [1..n -> FlatStep]
  BY <1>6, <1>7
<1>9. run \in Seq(FlatStep) /\ Len(run) = n
  BY <1>1, <1>8
<1>10. \A k \in 1..n, c \in Controls :
         at(k)[c] = IF c \in step.glide THEN Along(step.at[c], next.at[c], k - 1, n)
                    ELSE step.at[c]
  BY DEF at
<1> QED
  BY <1>1, <1>7, <1>9, <1>10

\* What flattens is made of the parts' elements.
LEMMA FlatIs ==
  ASSUME NEW T, NEW seqs \in Seq(Seq(T))
  PROVE  FlattenSeq(seqs) \in Seq(T)
<1> DEFINE N == Len(seqs)
           Body(f, i) == IF i = 1 THEN seqs[i] ELSE f[i - 1] \o seqs[i]
           Fits(f, k) == f = [i \in 1..k |-> f[i]] /\ \A i \in 1..k : f[i] = Body(f, i)
           Can(k) == \E f : Fits(f, k)
           Bad == {k \in Nat : k <= N /\ ~Can(k)}
           F == CHOOSE f : f = [i \in 1..N |-> Body(f, i)]
<1>0. N \in Nat /\ \A i \in 1..N : seqs[i] \in Seq(T)
  OBVIOUS
<1>1. Bad = {}
  <2> SUFFICES ASSUME Bad # {} PROVE FALSE
    OBVIOUS
  <2>1. Bad \in SUBSET Nat
    OBVIOUS
  <2>2. PICK k \in Bad : \A m \in Bad : k <= m
    <3> HIDE DEF Bad
    <3> QED
      BY <2>1, LeastNumber
  <2>3. CASE k = 0
    <3>1. PICK f : f = [i \in 1..0 |-> i]
      OBVIOUS
    <3>2. f = [i \in 1..0 |-> f[i]]
      BY <3>1
    <3>3. Fits(f, 0)
      BY <3>2
    <3>4. Can(0)
      BY <3>3
    <3> HIDE DEF Can
    <3> QED
      BY <2>2, <2>3, <3>4
  <2>4. CASE k # 0
    <3>1. PICK f : Fits(f, k - 1)
      <4>1. Can(k - 1)
        <5> HIDE DEF Can
        <5>1. k - 1 \in Nat /\ k - 1 <= N /\ k - 1 < k
          BY <2>2, <2>4
        <5> QED
          BY <2>2, <5>1
      <4> QED
        BY <4>1
    <3>2. PICK g : g = [i \in 1..k |-> IF i = k THEN Body(f, k) ELSE f[i]]
      OBVIOUS
    <3>3. g = [i \in 1..k |-> g[i]]
      BY <3>2
    <3>4. \A i \in 1..k : g[i] = IF i = k THEN Body(f, k) ELSE f[i]
      BY <3>2
    <3>5. ASSUME NEW i \in 1..k PROVE g[i] = Body(g, i)
      <4>1. i = 1 \/ g[i - 1] = f[i - 1]
        <5> HIDE DEF Body, Fits, Can
        <5>1. i = 1 \/ (i - 1 \in 1..k /\ i - 1 # k)
          BY <2>2
        <5> QED
          BY <3>4, <5>1
      <4>2. Body(g, i) = Body(f, i)
        BY <4>1
      <4>3. i = k \/ f[i] = Body(f, i)
        <5>1. i = k \/ i \in 1..(k - 1)
          BY <2>2
        <5>2. \A j \in 1..(k - 1) : f[j] = Body(f, j)
          BY <3>1
        <5> HIDE DEF Body, Fits, Can
        <5> QED
          BY <5>1, <5>2
      <4> HIDE DEF Body, Fits, Can
      <4> QED
        BY <3>4, <4>2, <4>3
    <3>6. Fits(g, k)
      BY <3>3, <3>5
    <3>7. Can(k)
      BY <3>6
    <3> HIDE DEF Can
    <3> QED
      BY <2>2, <3>7
  <2> QED
    BY <2>3, <2>4
<1>2. CASE N = 0
  BY <1>2 DEF FlattenSeq
<1>3. CASE N # 0
  <2>1. PICK f : Fits(f, N)
    <3>1. Can(N)
      <4> HIDE DEF Can
      <4> QED
        BY <1>0, <1>1
    <3> QED
      BY <3>1
  <2>2. f = [i \in 1..N |-> Body(f, i)]
    BY <2>1
  <2>3. F = [i \in 1..N |-> Body(F, i)]
    BY <2>2
  <2>4. FlattenSeq(seqs) = F[N]
    BY <1>3 DEF FlattenSeq
  <2> HIDE DEF F
  <2>5. \A i \in 1..N : F[i] = Body(F, i)
    BY <2>3
  <2> DEFINE Off == {k \in 1..N : F[k] \notin Seq(T)}
  <2>6. Off = {}
    <3> SUFFICES ASSUME Off # {} PROVE FALSE
      OBVIOUS
    <3>1. Off \in SUBSET Nat
      OBVIOUS
    <3>2. PICK k \in Off : \A m \in Off : k <= m
      <4> HIDE DEF Off
      <4> QED
        BY <3>1, LeastNumber
    <3>3. CASE k = 1
      BY <1>0, <2>5, <3>2, <3>3
    <3>4. CASE k # 1
      <4>1. k - 1 \in 1..N /\ k - 1 \notin Off
        BY <3>2, <3>4
      <4>2. F[k - 1] \in Seq(T) /\ seqs[k] \in Seq(T)
        BY <1>0, <3>2, <4>1
      <4>3. F[k] = F[k - 1] \o seqs[k]
        BY <2>5, <3>2, <3>4
      <4>4. F[k] \in Seq(T)
        BY <4>2, <4>3
      <4> QED
        BY <3>2, <4>4
    <3> QED
      BY <3>3, <3>4
  <2> QED
    BY <1>0, <1>3, <2>4, <2>6
<1> QED
  BY <1>2, <1>3

\* A pad records steps without glides.
LEMMA ExpandIs ==
  ASSUME NEW list \in Seq(Step)
  PROVE  Expand(list) \in Seq(FlatStep)
<1> DEFINE part(i) == IF Glides(list, i) THEN ExpandStep(list[i], list[i + 1])
                      ELSE << [list[i] EXCEPT !.glide = {}] >>
<1>1. ASSUME NEW i \in 1..Len(list) PROVE part(i) \in Seq(FlatStep)
  <2>1. list[i] \in Step
    OBVIOUS
  <2>2. CASE Glides(list, i)
    <3>1. list[i + 1] \in Step
      BY <2>2 DEF Glides
    <3> QED
      BY <2>1, <2>2, <3>1, ExpandStepIs
  <2>3. CASE ~Glides(list, i)
    <3>1. PICK flat : flat = [list[i] EXCEPT !.glide = {}]
      OBVIOUS
    <3>2. flat \in FlatStep
      BY <2>1, <3>1 DEF Step, FlatStep
    <3> QED
      BY <2>3, <3>1, <3>2
  <2> QED
    BY <2>2, <2>3
<1>2. PICK seqs : seqs = [i \in 1..Len(list) |-> part(i)]
  OBVIOUS
<1>3. seqs \in Seq(Seq(FlatStep))
  <2>1. seqs \in [1..Len(list) -> Seq(FlatStep)]
    BY <1>1, <1>2
  <2> QED
    BY <2>1
<1> QED
  BY <1>2, <1>3, FlatIs DEF Expand

\* The time of a step list is a number.
LEMMA TotalMsIs ==
  ASSUME NEW list \in Seq(Step)
  PROVE  TotalMs(list) \in Nat
<1> DEFINE S == DOMAIN list
           Body(f, T) == IF T = {} THEN 0
                         ELSE LET x == CHOOSE x \in T : TRUE IN list[x].ms + f[T \ {x}]
           Sets(k) == {T \in SUBSET S : Cardinality(T) <= k}
           Fits(f, k) == f = [T \in Sets(k) |-> f[T]] /\ \A T \in Sets(k) : f[T] = Body(f, T)
           Can(k) == \E f : Fits(f, k)
           Bad == {k \in Nat : ~Can(k)}
           F == CHOOSE f : f = [T \in SUBSET S |-> Body(f, T)]
<1>0. MaxMs \in Nat /\ S = 1..Len(list) /\ Len(list) \in Nat
  BY StepConstants
<1>1. IsFiniteSet(S) /\ Cardinality(S) \in Nat
  BY <1>0, FS_Interval, FS_CardinalityType
<1>2. ASSUME NEW T \in SUBSET S
      PROVE  /\ IsFiniteSet(T) /\ Cardinality(T) \in Nat /\ Cardinality(T) <= Cardinality(S)
             /\ Cardinality(T) = 0 <=> T = {}
             /\ T # {} => /\ (CHOOSE x \in T : TRUE) \in T
                          /\ \A x \in T : /\ T \ {x} \in SUBSET S
                                          /\ Cardinality(T \ {x}) = Cardinality(T) - 1
  <2>1. IsFiniteSet(T) /\ Cardinality(T) \in Nat /\ Cardinality(T) <= Cardinality(S)
    BY <1>1, FS_Subset, FS_CardinalityType
  <2>2. Cardinality(T) = 0 <=> T = {}
    BY <2>1, FS_EmptySet
  <2>3. \A x \in T : Cardinality(T \ {x}) = Cardinality(T) - 1
    BY <2>1, FS_RemoveElement
  <2> QED
    BY <2>1, <2>2, <2>3
<1>3. ASSUME NEW i \in S PROVE list[i].ms \in Nat
  <2>1. list[i] \in Step
    BY <1>0
  <2> QED
    BY <1>0, <2>1 DEF Step
<1>4. Bad = {}
  <2> SUFFICES ASSUME Bad # {} PROVE FALSE
    OBVIOUS
  <2>1. Bad \in SUBSET Nat
    OBVIOUS
  <2>2. PICK k \in Bad : \A m \in Bad : k <= m
    <3> HIDE DEF Bad
    <3> QED
      BY <2>1, LeastNumber
  <2>3. CASE k = 0
    <3>1. PICK f : f = [T \in Sets(0) |-> 0]
      OBVIOUS
    <3>2. f = [T \in Sets(0) |-> f[T]]
      BY <3>1
    <3>3. \A T \in Sets(0) : T = {}
      BY <1>2
    <3>4. Fits(f, 0)
      BY <3>1, <3>2, <3>3
    <3>5. Can(0)
      BY <3>4
    <3> HIDE DEF Can
    <3> QED
      BY <2>2, <2>3, <3>5
  <2>4. CASE k # 0
    <3>1. PICK f : Fits(f, k - 1)
      <4>1. Can(k - 1)
        <5> HIDE DEF Can
        <5>1. k - 1 \in Nat /\ k - 1 < k
          BY <2>2, <2>4
        <5> QED
          BY <2>2, <5>1
      <4> QED
        BY <4>1
    <3>2. PICK g : g = [T \in Sets(k) |-> IF Cardinality(T) = k THEN Body(f, T) ELSE f[T]]
      OBVIOUS
    <3>3. g = [T \in Sets(k) |-> g[T]]
      BY <3>2
    <3>4. \A T \in Sets(k) : g[T] = IF Cardinality(T) = k THEN Body(f, T) ELSE f[T]
      BY <3>2
    <3>5. ASSUME NEW T \in Sets(k) PROVE g[T] = Body(g, T)
      <4>1. ASSUME T # {}, NEW x \in T PROVE g[T \ {x}] = f[T \ {x}]
        <5>1. T \in SUBSET S /\ Cardinality(T) <= k
          OBVIOUS
        <5>2. T \ {x} \in SUBSET S /\ Cardinality(T \ {x}) = Cardinality(T) - 1
          BY <1>2, <4>1, <5>1
        <5>3. Cardinality(T) \in Nat
          BY <1>2, <5>1
        <5>4. T \ {x} \in Sets(k) /\ Cardinality(T \ {x}) # k
          BY <2>2, <5>1, <5>2, <5>3
        <5> HIDE DEF Body, Fits, Can, Sets
        <5> QED
          BY <3>4, <5>4
      <4>2. Body(g, T) = Body(f, T)
        <5>1. CASE T = {}
          BY <5>1
        <5>2. CASE T # {}
          <6>1. PICK x \in T : x = CHOOSE y \in T : TRUE
            BY <1>2, <5>2
          <6>2. g[T \ {x}] = f[T \ {x}]
            BY <4>1, <5>2
          <6> QED
            BY <5>2, <6>1, <6>2
        <5> QED
          BY <5>1, <5>2
      <4>3. Cardinality(T) = k \/ f[T] = Body(f, T)
        <5>0. Cardinality(T) \in Nat /\ Cardinality(T) <= k /\ T \in SUBSET S
          BY <1>2
        <5>1. Cardinality(T) = k \/ T \in Sets(k - 1)
          BY <2>2, <5>0
        <5>2. \A U \in Sets(k - 1) : f[U] = Body(f, U)
          BY <3>1
        <5> HIDE DEF Body, Fits, Can, Sets
        <5> QED
          BY <5>1, <5>2
      <4> HIDE DEF Body, Fits, Can, Sets
      <4> QED
        BY <3>4, <4>2, <4>3
    <3>6. Fits(g, k)
      BY <3>3, <3>5
    <3>7. Can(k)
      BY <3>6
    <3> HIDE DEF Can
    <3> QED
      BY <2>2, <3>7
  <2> QED
    BY <2>3, <2>4
<1>5. F = [T \in SUBSET S |-> Body(F, T)]
  <2>1. PICK f : Fits(f, Cardinality(S))
    <3>1. Can(Cardinality(S))
      <4> HIDE DEF Can
      <4> QED
        BY <1>1, <1>4
    <3> QED
      BY <3>1
  <2>2. Sets(Cardinality(S)) = SUBSET S
    BY <1>2
  <2>3. f = [T \in SUBSET S |-> Body(f, T)]
    <3> HIDE DEF Sets, Body
    <3> QED
      BY <2>1, <2>2
  <2> HIDE DEF Body
  <2> QED
    BY <2>3
<1>6. TotalMs(list) = F[S]
  BY DEF TotalMs, MapThenSumSet, MapThenFoldSet
<1> HIDE DEF F
<1>7. \A T \in SUBSET S : F[T] = Body(F, T)
  <2> HIDE DEF Body
  <2> QED
    BY <1>5
<1> DEFINE Off == {k \in Nat : \E T \in SUBSET S : Cardinality(T) = k /\ F[T] \notin Nat}
<1>8. Off = {}
  <2> SUFFICES ASSUME Off # {} PROVE FALSE
    OBVIOUS
  <2>1. Off \in SUBSET Nat
    OBVIOUS
  <2>2. PICK k \in Off : \A m \in Off : k <= m
    <3> HIDE DEF Off
    <3> QED
      BY <2>1, LeastNumber
  <2>3. PICK T \in SUBSET S : Cardinality(T) = k /\ F[T] \notin Nat
    BY <2>2
  <2>4. T # {}
    BY <1>7, <2>3
  <2>5. PICK x \in T : x = CHOOSE y \in T : TRUE
    BY <1>2, <2>4
  <2>6. F[T] = list[x].ms + F[T \ {x}]
    BY <1>7, <2>4, <2>5
  <2>7. T \ {x} \in SUBSET S /\ Cardinality(T \ {x}) = k - 1 /\ k - 1 \in Nat
    <3>1. T \ {x} \in SUBSET S /\ Cardinality(T \ {x}) = Cardinality(T) - 1
      BY <1>2, <2>4
    <3>2. Cardinality(T) # 0 /\ Cardinality(T) \in Nat
      BY <1>2, <2>4
    <3> QED
      BY <2>3, <3>1, <3>2
  <2>8. F[T \ {x}] \in Nat
    BY <2>2, <2>7
  <2> QED
    BY <1>3, <2>3, <2>6, <2>8
<1> QED
  <2>1. S \in SUBSET S
    OBVIOUS
  <2> QED
    BY <1>1, <1>6, <1>8, <2>1

\* A trigger that is on or off is let go or pulled.
Pulled(step) == OnOff => \A c \in Triggers : step.at[c] \in {<<0, 0>>, <<Full, Full>>}

\* On a straight line of two or more points, no more than values on the way, the second
\* point is neither end.
LEMMA LerpLeaves ==
  ASSUME NEW n \in Nat, n > 1, n <= Full
  PROVE  /\ Lerp(0, Full, 1, n) # 0 /\ Lerp(0, Full, 1, n) # Full
         /\ Lerp(Full, 0, 1, n) # 0 /\ Lerp(Full, 0, 1, n) # Full
<1>0. Full \in Nat /\ Full >= 2
  BY StepConstants
<1>1. /\ Lerp(0, Full, 1, n) = (2 * Full + n) \div (2 * n)
      /\ Lerp(Full, 0, 1, n) = (2 * (Full * (n - 1)) + n) \div (2 * n)
  <2>1. 0 * (n - 1) + Full * 1 = Full /\ Full * (n - 1) + 0 * 1 = Full * (n - 1)
    BY <1>0
  <2> QED
    BY <2>1 DEF Lerp
<1>2. PICK q \in Nat : q = Full - 1
  BY <1>0
<1>3. PICK r \in Nat : r = Full * (n - 1)
  BY <1>0
<1>4. Full * n = r + Full /\ q * n = Full * n - n
  BY <1>0, <1>2, <1>3
<1>5. r >= Full /\ r + n + 0 >= n
  BY <1>0, <1>3
<1>6. 1 * (2 * n) <= 2 * Full + n /\ 1 * (2 * n) <= 2 * r + n
  BY <1>0, <1>5
<1>7. 2 * Full + n < q * (2 * n) + 2 * n /\ 2 * r + n < q * (2 * n) + 2 * n
  <2>1. q * (2 * n) + 2 * n = 2 * r + 2 * Full
    BY <1>0, <1>2, <1>4
  <2>2. n < 2 * Full /\ n < 2 * r
    BY <1>0, <1>5
  <2> QED
    BY <2>1, <2>2, <1>0, <1>3
<1>8. (2 * Full + n) \div (2 * n) \in 0..q /\ (2 * r + n) \div (2 * n) \in 0..q
  BY <1>0, <1>2, <1>3, <1>7, DivAtMost
<1>9. 1 <= (2 * Full + n) \div (2 * n) /\ 1 <= (2 * r + n) \div (2 * n)
  BY <1>0, <1>3, <1>6, DivAtLeast
<1> QED
  BY <1>0, <1>1, <1>2, <1>3, <1>8, <1>9

\* A run that folds is one step whose glides lead elsewhere, none of them of a trigger that
\* is on or off.
LEMMA FoldedIs ==
  ASSUME NEW run \in Seq(FlatStep), run # <<>>, NEW next \in Step, FoldsTo(run, next),
         Pulled(next), \A i \in DOMAIN run : Pulled(run[i])
  PROVE  /\ Folded(run) \in Step /\ Folded(run).at = run[1].at
         /\ \A c \in Folded(run).glide :
              next.at[c] # Folded(run).at[c] /\ ~(OnOff /\ c \in Triggers)
<1>0. Full \in Nat /\ MaxMs \in Nat
  BY StepConstants
<1>1. run[1] \in FlatStep /\ run \in Seq(Step)
  BY DEF FlatStep
<1>2. PICK total \in Nat : total = TotalMs(run)
  BY <1>1, TotalMsIs
<1>3. PICK glide \in SUBSET Controls :
        glide = {c \in Controls : \E i \in DOMAIN run : run[i].at[c] # run[1].at[c]}
  OBVIOUS
<1>4. PICK step : step = Folded(run) /\ step = [run[1] EXCEPT !.ms = total, !.glide = glide]
  BY <1>2, <1>3 DEF Folded
<1>5. step.ms = total /\ step.glide = glide /\ step.at = run[1].at
  BY <1>1, <1>4 DEF FlatStep, Step
<1>6. step.ms <= MaxMs /\ run = ExpandStep(step, next)
  BY <1>4 DEF FoldsTo
<1>7. step \in Step
  <2>1. total \in 0..MaxMs
    BY <1>0, <1>5, <1>6
  <2> QED
    BY <1>1, <1>4, <2>1 DEF FlatStep, Step
<1>8. PICK n \in Nat \ {0} :
        /\ Len(run) = n /\ n = ShortSteps(step, next)
        /\ \A k \in 1..n, c \in Controls :
             run[k].at[c] = IF c \in step.glide THEN Along(step.at[c], next.at[c], k - 1, n)
                            ELSE step.at[c]
  <2>1. PICK n : n = ShortSteps(step, next)
    OBVIOUS
  <2>2. Len(run) = n /\ n \in Nat \ {0}
    BY <1>6, <1>7, <2>1, ExpandStepIs
  <2>3. ASSUME NEW k \in 1..n, NEW c \in Controls
        PROVE  run[k].at[c] = IF c \in step.glide
                              THEN Along(step.at[c], next.at[c], k - 1, n) ELSE step.at[c]
    BY <1>6, <1>7, <2>1, ExpandStepIs
  <2> QED
    BY <2>1, <2>2, <2>3
<1>9. ASSUME NEW c \in step.glide
      PROVE  next.at[c] # step.at[c] /\ ~(OnOff /\ c \in Triggers)
  <2>1. PICK i \in 1..n : run[i].at[c] # step.at[c]
    BY <1>3, <1>5, <1>8, <1>9
  <2>2. c \in Controls
    BY <1>3, <1>5, <1>9
  <2>3. \A k \in 1..n : run[k].at[c] = Along(step.at[c], next.at[c], k - 1, n)
    BY <1>8, <1>9, <2>2
  <2>4. step.at[c] \in Position /\ next.at[c] \in Position
    BY <1>7, <2>2 DEF Step
  <2>5. PICK a \in 0..Full, b \in 0..Full : step.at[c] = <<a, b>>
    BY <2>4 DEF Position
  <2>6. next.at[c] # step.at[c]
    <3> SUFFICES ASSUME next.at[c] = step.at[c] PROVE FALSE
      OBVIOUS
    <3>1. PICK k : k = i - 1 /\ k \in 0..n
      BY <1>8
    <3>2. Lerp(a, a, k, n) = a /\ Lerp(b, b, k, n) = b
      BY <1>8, <3>1, LerpIs
    <3>3. run[i].at[c] = <<Lerp(a, a, k, n), Lerp(b, b, k, n)>>
      <4>1. run[i].at[c] = Along(step.at[c], next.at[c], k, n)
        BY <2>3, <3>1
      <4>2. PICK p : p = <<a, b>> /\ step.at[c] = p /\ next.at[c] = p
        BY <2>5
      <4>3. Along(p, p, k, n) = <<Lerp(a, a, k, n), Lerp(b, b, k, n)>>
        BY <4>2 DEF Along
      <4> QED
        BY <4>1, <4>2, <4>3
    <3> QED
      BY <2>1, <2>5, <3>2, <3>3
  <2>7. ~(OnOff /\ c \in Triggers)
    <3> SUFFICES ASSUME OnOff, c \in Triggers PROVE FALSE
      OBVIOUS
    <3>1. step.at[c] \in {<<0, 0>>, <<Full, Full>>} /\ next.at[c] \in {<<0, 0>>, <<Full, Full>>}
      BY <1>5, <1>8 DEF Pulled
    <3>2. n > 1
      BY <1>5, <1>8, <2>1
    <3>3. n <= Full
      BY <1>7, <1>8, <3>2, ShortStepsIs
    <3>4. 2 \in 1..n
      BY <1>8, <3>2
    <3>5. run[2].at[c] \in {<<0, 0>>, <<Full, Full>>}
      BY <1>8, <3>4 DEF Pulled
    <3>6. run[2].at[c] = Along(step.at[c], next.at[c], 1, n)
      BY <2>3, <3>4
    <3>7. \/ run[2].at[c][1] = Lerp(0, Full, 1, n)
          \/ run[2].at[c][1] = Lerp(Full, 0, 1, n)
      BY <2>6, <3>1, <3>6 DEF Along
    <3> QED
      BY <3>2, <3>3, <3>5, <3>7, LerpLeaves
  <2> QED
    BY <2>6, <2>7
<1> QED
  BY <1>4, <1>5, <1>7, <1>9

\* A step list that the checks take: its glides lead elsewhere.
Right(list) == list \in Seq(Step) /\ GlidesAreRight(list, OnOff)

\* A step before a right list: what it glides to is the list's first step.
LEMMA RightBefore ==
  ASSUME NEW step \in Step, NEW rest, Right(rest),
         \A c \in step.glide : /\ rest # <<>> /\ rest[1].at[c] # step.at[c]
                               /\ ~(OnOff /\ c \in Triggers)
  PROVE  Right(<<step>> \o rest) /\ (<<step>> \o rest) # <<>> /\ (<<step>> \o rest)[1] = step
<1>1. PICK s : s = <<step>> \o rest
  OBVIOUS
<1>2. /\ s \in Seq(Step) /\ Len(s) = Len(rest) + 1 /\ s[1] = step
      /\ \A i \in 2..Len(s) : s[i] = rest[i - 1]
      /\ rest \in Seq(Step)
  BY <1>1 DEF Right
<1>3. ASSUME NEW i \in DOMAIN s, NEW c \in s[i].glide
      PROVE  Leads(s, i, c) /\ ~(OnOff /\ c \in Triggers)
  <2>1. CASE i = 1
    <3>1. rest # <<>> /\ rest[1].at[c] # step.at[c] /\ ~(OnOff /\ c \in Triggers)
      BY <1>2, <1>3, <2>1
    <3>2. 2 \in 2..Len(s) /\ s[2] = rest[1]
      BY <1>2, <3>1
    <3> QED
      BY <1>2, <2>1, <3>1, <3>2 DEF Leads
  <2>2. CASE i # 1
    <3>1. i - 1 \in DOMAIN rest /\ s[i] = rest[i - 1]
      BY <1>2, <2>2
    <3>2. Leads(rest, i - 1, c) /\ ~(OnOff /\ c \in Triggers)
      BY <1>3, <3>1 DEF Right, GlidesAreRight
    <3>3. i < Len(s) /\ s[i + 1] = rest[i] /\ rest[i].at[c] # rest[i - 1].at[c]
      BY <1>2, <2>2, <3>1, <3>2 DEF Leads
    <3> QED
      BY <3>1, <3>2, <3>3 DEF Leads
  <2> QED
    BY <2>1, <2>2
<1>4. Right(s)
  BY <1>2, <1>3 DEF Right, GlidesAreRight
<1> QED
  BY <1>1, <1>2, <1>4

\* The `n` elements of a sequence from its `i`-th on.
LEMMA SliceIs ==
  ASSUME NEW T, NEW s \in Seq(T), NEW i \in Nat, NEW n \in Nat,
         i >= 1, n >= 1, i + n - 1 <= Len(s)
  PROVE  /\ SubSeq(s, i, i + n - 1) \in Seq(T)
         /\ Len(SubSeq(s, i, i + n - 1)) = n
         /\ \A j \in 1..n : SubSeq(s, i, i + n - 1)[j] = s[i + j - 1]
<1>1. PICK top \in Nat : top = i + n - 1
  OBVIOUS
<1>2. i <= top /\ top - i + 1 = n /\ i \in Int /\ top \in Int
  BY <1>1
<1>3. \A j \in i..top : s[j] \in T
  BY <1>1, <1>2
<1>4. /\ SubSeq(s, i, top) \in Seq(T)
      /\ Len(SubSeq(s, i, top)) = IF i <= top THEN top - i + 1 ELSE 0
      /\ \A j \in 1..(top - i + 1) : SubSeq(s, i, top)[j] = s[i + j - 1]
  BY <1>2, <1>3, SubSeqProperties
<1>5. /\ SubSeq(s, i, top) \in Seq(T) /\ Len(SubSeq(s, i, top)) = n
      /\ \A j \in 1..n : SubSeq(s, i, top)[j] = s[i + j - 1]
  BY <1>2, <1>4
<1> QED
  BY <1>1, <1>5

\* What is read of recorded steps without glides, with triggers that are on or off at
\* either end, has right glides.
LEMMA FoldIsRight ==
  ASSUME NEW list \in Seq(FlatStep), \A i \in DOMAIN list : Pulled(list[i])
  PROVE  Right(Fold(list))
<1> DEFINE N == Len(list)
           Body(f, i) ==
             IF i > N THEN <<>>
             ELSE LET lengths == FoldLengths(list, i)
                  IN  IF lengths = {} THEN <<list[i]>> \o f[i + 1]
                      ELSE LET n == Max(lengths)
                           IN  <<Folded(SubSeq(list, i, i + n - 1))>> \o f[i + n]
           Fits(f, k) == /\ f = [i \in k..(N + 1) |-> f[i]]
                         /\ \A i \in k..(N + 1) : f[i] = Body(f, i)
           Can(k) == \E f : Fits(f, N + 1 - k)
           Bad == {k \in Nat : k <= N /\ ~Can(k)}
           F == CHOOSE f : f = [i \in 1..(N + 1) |-> Body(f, i)]
<1>0. N \in Nat /\ \A i \in 1..N : list[i] \in FlatStep /\ list[i] \in Step
  BY DEF FlatStep
<1>1. ASSUME NEW i \in 1..N, FoldLengths(list, i) # {}
      PROVE  /\ Max(FoldLengths(list, i)) \in FoldLengths(list, i)
             /\ Max(FoldLengths(list, i)) \in Nat /\ Max(FoldLengths(list, i)) >= 2
             /\ i + Max(FoldLengths(list, i)) \in (i + 2)..N
  <2>1. MinFoldRun \in Nat /\ MinFoldRun >= 2
    BY StepConstants
  <2>2. FoldLengths(list, i) \in SUBSET (MinFoldRun..(N - i))
    BY DEF FoldLengths
  <2>3. FoldLengths(list, i) \in SUBSET (0..N)
    BY <1>0, <2>1, <2>2
  <2>4. Max(FoldLengths(list, i)) \in FoldLengths(list, i)
    BY <1>0, <1>1, <2>3, GreatestIs
  <2>5. Max(FoldLengths(list, i)) \in MinFoldRun..(N - i)
    BY <2>2, <2>4
  <2> QED
    BY <1>0, <2>1, <2>4, <2>5
<1>2. Bad = {}
  <2> SUFFICES ASSUME Bad # {} PROVE FALSE
    OBVIOUS
  <2>1. Bad \in SUBSET Nat
    OBVIOUS
  <2>2. PICK k \in Bad : \A m \in Bad : k <= m
    <3> HIDE DEF Bad
    <3> QED
      BY <2>1, LeastNumber
  <2>3. CASE k = 0
    <3>1. PICK f : f = [i \in (N + 1)..(N + 1) |-> <<>>]
      OBVIOUS
    <3>2. f = [i \in (N + 1)..(N + 1) |-> f[i]]
      BY <3>1
    <3>3. \A i \in (N + 1)..(N + 1) : f[i] = Body(f, i)
      BY <1>0, <3>1
    <3>4. Fits(f, N + 1)
      BY <3>2, <3>3
    <3>5. N + 1 - 0 = N + 1
      BY <1>0
    <3>6. Can(0)
      BY <3>4, <3>5
    <3> HIDE DEF Can
    <3> QED
      BY <2>2, <2>3, <3>6
  <2>4. CASE k # 0
    <3>0. PICK at \in 1..N : at = N + 1 - k /\ N + 1 - (k - 1) = at + 1
      BY <1>0, <2>2, <2>4
    <3>1. PICK f : Fits(f, at + 1)
      <4>1. Can(k - 1)
        <5> HIDE DEF Can
        <5>1. k - 1 \in Nat /\ k - 1 < k /\ k - 1 <= N
          BY <2>2, <2>4
        <5> QED
          BY <2>2, <5>1
      <4> QED
        BY <3>0, <4>1
    <3>2. PICK g : g = [i \in at..(N + 1) |-> IF i = at THEN Body(f, at) ELSE f[i]]
      OBVIOUS
    <3>3. g = [i \in at..(N + 1) |-> g[i]]
      BY <3>2
    <3>4. \A i \in at..(N + 1) : g[i] = IF i = at THEN Body(f, at) ELSE f[i]
      BY <3>2
    <3>5. ASSUME NEW i \in at..(N + 1) PROVE g[i] = Body(g, i)
      <4>1. \A j \in (i + 1)..(N + 1) : g[j] = f[j]
        <5> HIDE DEF Body, Fits, Can
        <5>1. \A j \in (i + 1)..(N + 1) : j \in at..(N + 1) /\ j # at
          BY <1>0, <3>0
        <5> QED
          BY <3>4, <5>1
      <4>2. Body(g, i) = Body(f, i)
        <5>1. CASE i = N + 1
          BY <1>0, <5>1
        <5>2. CASE i # N + 1
          <6>1. i \in 1..N
            BY <1>0, <3>0, <5>2
          <6>2. g[i + 1] = f[i + 1]
            BY <1>0, <4>1, <6>1
          <6>3. CASE FoldLengths(list, i) = {}
            BY <1>0, <6>1, <6>2, <6>3
          <6>4. CASE FoldLengths(list, i) # {}
            <7>1. PICK n \in Nat : n = Max(FoldLengths(list, i)) /\ i + n \in (i + 2)..N
              BY <1>1, <6>1, <6>4
            <7>2. g[i + n] = f[i + n]
              <8>1. i + n \in (i + 1)..(N + 1)
                BY <1>0, <6>1, <7>1
              <8> HIDE DEF Body, Fits, Can
              <8> QED
                BY <4>1, <8>1
            <7> QED
              BY <1>0, <6>1, <6>4, <7>1, <7>2
          <6> QED
            BY <6>3, <6>4
        <5> QED
          BY <5>1, <5>2
      <4>3. i = at \/ f[i] = Body(f, i)
        <5>1. i = at \/ i \in (at + 1)..(N + 1)
          BY <1>0, <3>0
        <5>2. \A j \in (at + 1)..(N + 1) : f[j] = Body(f, j)
          BY <3>1
        <5> HIDE DEF Body, Fits, Can
        <5> QED
          BY <5>1, <5>2
      <4> HIDE DEF Body, Fits, Can
      <4> QED
        BY <3>4, <4>2, <4>3
    <3>6. Fits(g, at)
      <4> HIDE DEF Body
      <4> QED
        BY <3>3, <3>5
    <3>7. Can(k)
      <4> HIDE DEF Fits
      <4> QED
        BY <3>0, <3>6
    <3> HIDE DEF Can
    <3> QED
      BY <2>2, <3>7
  <2> QED
    BY <2>3, <2>4
<1>3. F = [i \in 1..(N + 1) |-> Body(F, i)]
  <2>1. PICK f : Fits(f, 1)
    <3>1. Can(N)
      <4> HIDE DEF Can
      <4> QED
        BY <1>0, <1>2
    <3>2. N + 1 - N = 1
      BY <1>0
    <3> HIDE DEF Fits
    <3> QED
      BY <3>1, <3>2
  <2> HIDE DEF Body
  <2>2. f = [i \in 1..(N + 1) |-> Body(f, i)]
    BY <2>1
  <2> QED
    BY <2>2
<1>4. Fold(list) = IF GlideStepMs = 0 THEN list ELSE F[1]
  BY DEF Fold
<1> HIDE DEF F
<1>5. \A i \in 1..(N + 1) : F[i] = Body(F, i)
  <2> HIDE DEF Body
  <2> QED
    BY <1>3
<1> DEFINE Good(i) == Right(F[i]) /\ (i <= N => F[i] # <<>> /\ F[i][1].at = list[i].at)
           Off == {k \in Nat : k <= N /\ ~Good(N + 1 - k)}
<1>6. Off = {}
  <2> SUFFICES ASSUME Off # {} PROVE FALSE
    OBVIOUS
  <2>1. Off \in SUBSET Nat
    OBVIOUS
  <2>2. PICK k \in Off : \A m \in Off : k <= m
    <3> HIDE DEF Off
    <3> QED
      BY <2>1, LeastNumber
  <2>3. PICK i \in 1..(N + 1) : i = N + 1 - k /\ ~Good(i)
    <3> HIDE DEF Good
    <3> QED
      BY <1>0, <2>2
  <2>4. ASSUME NEW j \in (i + 1)..(N + 1) PROVE Good(j)
    <3> HIDE DEF Good
    <3>1. N + 1 - j \in Nat /\ N + 1 - j <= N /\ N + 1 - j < k /\ N + 1 - (N + 1 - j) = j
      BY <1>0, <2>2, <2>3
    <3> QED
      BY <2>2, <3>1
  <2>5. CASE i = N + 1
    <3>0. F[i] = Body(F, i)
      <4> HIDE DEF Body
      <4> QED
        BY <1>5
    <3>1. F[i] = <<>>
      BY <1>0, <2>5, <3>0
    <3>2. Right(F[i])
      BY <3>1 DEF Right, GlidesAreRight
    <3> QED
      BY <1>0, <2>3, <2>5, <3>2
  <2>6. CASE i # N + 1 /\ FoldLengths(list, i) = {}
    <3>0. F[i] = Body(F, i)
      <4> HIDE DEF Body
      <4> QED
        BY <1>5
    <3>1. i \in 1..N /\ F[i] = <<list[i]>> \o F[i + 1]
      BY <1>0, <2>6, <3>0
    <3>2. Right(F[i + 1])
      BY <1>0, <2>4, <3>1
    <3>3. list[i] \in Step /\ list[i].glide = {}
      BY <3>1 DEF FlatStep
    <3>4. Right(F[i]) /\ F[i] # <<>> /\ F[i][1] = list[i]
      BY <3>1, <3>2, <3>3, RightBefore
    <3> QED
      BY <2>3, <3>4
  <2>7. CASE i # N + 1 /\ FoldLengths(list, i) # {}
    <3>1. i \in 1..N
      BY <1>0, <2>7
    <3>2. PICK n \in Nat : /\ n = Max(FoldLengths(list, i)) /\ n \in FoldLengths(list, i)
                           /\ n >= 2 /\ i + n \in (i + 2)..N
      BY <1>1, <2>7, <3>1
    <3>3. PICK run : run = SubSeq(list, i, i + n - 1)
      OBVIOUS
    <3>4. /\ run \in Seq(FlatStep) /\ Len(run) = n /\ run # <<>> /\ run[1] = list[i]
          /\ \A j \in DOMAIN run : run[j] = list[i + j - 1] /\ i + j - 1 \in DOMAIN list
      <4>1. i + n - 1 \in i..N
        BY <1>0, <3>1, <3>2
      <4>2. /\ Len(run) = n /\ run \in Seq(FlatStep)
            /\ \A j \in 1..n : run[j] = list[i + j - 1]
        <5>1. i \in Nat /\ i >= 1 /\ n >= 1 /\ i + n - 1 <= Len(list)
          BY <1>0, <3>1, <3>2, <4>1
        <5> HIDE DEF N, Body, Fits, Can, Bad, Good, Off
        <5> QED
          BY <3>3, <5>1, SliceIs
      <4>3. \A j \in 1..n : i + j - 1 \in 1..N
        BY <1>0, <3>1, <3>2
      <4>4. run[1] = list[i + 1 - 1] /\ i + 1 - 1 = i
        BY <3>1, <3>2, <4>2
      <4>5. DOMAIN run = 1..n /\ DOMAIN list = 1..N
        BY <1>0, <4>2
      <4>6. run # <<>>
        BY <3>2, <4>2
      <4>7. ASSUME NEW j \in DOMAIN run
            PROVE  run[j] = list[i + j - 1] /\ i + j - 1 \in DOMAIN list
        <5>1. j \in 1..n
          BY <4>5
        <5> QED
          BY <4>2, <4>3, <4>5, <5>1
      <4>8. run[1] = list[i]
        BY <4>4
      <4> QED
        BY <4>2, <4>6, <4>7, <4>8
    <3>5. PICK step : step = Folded(run)
      OBVIOUS
    <3>6. F[i] = <<step>> \o F[i + n]
      <4>1. F[i] = Body(F, i)
        <5> HIDE DEF Body
        <5> QED
          BY <1>5
      <4>2. Body(F, i) = <<Folded(SubSeq(list, i, i + n - 1))>> \o F[i + n]
        <5>1. ~(i > N)
          BY <1>0, <3>1
        <5>2. n = Max(FoldLengths(list, i))
          BY <3>2
        <5> QED
          BY <2>7, <5>1, <5>2, Zenon
      <4> HIDE DEF Body
      <4> QED
        BY <3>3, <3>5, <4>1, <4>2
    <3>7. i + n \in 1..N /\ list[i + n] \in Step /\ Pulled(list[i + n])
      BY <1>0, <3>1, <3>2
    <3>8. FoldsTo(run, list[i + n])
      BY <3>2, <3>3 DEF FoldLengths
    <3>9. \A j \in DOMAIN run : Pulled(run[j])
      BY <3>4
    <3>10. /\ step \in Step /\ step.at = run[1].at
           /\ \A c \in step.glide : list[i + n].at[c] # step.at[c] /\ ~(OnOff /\ c \in Triggers)
      <4>1. PICK next \in Step : next = list[i + n]
        BY <3>7
      <4>2. FoldsTo(run, next) /\ Pulled(next)
        BY <3>7, <3>8, <4>1
      <4>3. step \in Step /\ step.at = run[1].at
        BY <3>4, <3>5, <3>9, <4>2, FoldedIs
      <4>4. ASSUME NEW c \in step.glide
            PROVE  next.at[c] # step.at[c] /\ ~(OnOff /\ c \in Triggers)
        <5>1. c \in Folded(run).glide
          BY <3>5
        <5>2. next.at[c] # Folded(run).at[c] /\ ~(OnOff /\ c \in Triggers)
          BY <3>4, <3>9, <4>2, <5>1, FoldedIs
        <5> QED
          BY <3>5, <5>2
      <4> QED
        BY <4>1, <4>3, <4>4
    <3>11. Right(F[i + n]) /\ F[i + n] # <<>> /\ F[i + n][1].at = list[i + n].at
      <4>1. i + n \in (i + 1)..(N + 1)
        BY <1>0, <3>1, <3>2
      <4>2. Good(i + n)
        BY <2>4, <4>1
      <4> QED
        BY <3>7, <4>2
    <3>12. Right(F[i]) /\ F[i] # <<>> /\ F[i][1] = step
      <4>1. PICK rest : rest = F[i + n]
        OBVIOUS
      <4>2. Right(rest) /\ rest # <<>> /\ rest[1].at = list[i + n].at
        BY <3>11, <4>1
      <4>3. \A c \in step.glide : rest[1].at[c] # step.at[c] /\ ~(OnOff /\ c \in Triggers)
        BY <3>10, <4>2
      <4>4. Right(<<step>> \o rest) /\ (<<step>> \o rest) # <<>> /\ (<<step>> \o rest)[1] = step
        BY <3>10, <4>2, <4>3, RightBefore
      <4> QED
        BY <3>6, <4>1, <4>4
    <3> QED
      BY <2>3, <3>4, <3>10, <3>12
  <2> QED
    BY <2>5, <2>6, <2>7
<1>7. Right(F[1])
  <2>1. Good(N + 1 - N)
    <3> HIDE DEF Good
    <3> QED
      BY <1>0, <1>6
  <2>2. N + 1 - N = 1
    BY <1>0
  <2> QED
    BY <2>1, <2>2
<1>8. Right(list)
  BY <1>0 DEF Right, GlidesAreRight, FlatStep
<1> QED
  BY <1>4, <1>7, <1>8

\* What a pad is read as has right glides.
LEMMA ReadAsIs ==
  ASSUME NEW recorded \in Seq(Step)
  PROVE  Right(ReadAs(recorded))
<1>1. PICK onPad \in Seq(FlatStep) : onPad = Expand(recorded)
  BY ExpandIs
<1>2. PICK kept : kept = [i \in 1 .. Len(onPad) |-> Kept(onPad[i])]
  OBVIOUS
<1>3. ASSUME NEW i \in 1 .. Len(onPad) PROVE Kept(onPad[i]) \in FlatStep /\ Pulled(Kept(onPad[i]))
  <2>1. PICK step \in FlatStep : step = onPad[i]
    OBVIOUS
  <2>2. CASE ~OnOff
    BY <2>1, <2>2 DEF Kept, Pulled
  <2>3. CASE OnOff
    <3>1. PICK at : at = [c \in Controls |->
                       IF c \notin Triggers THEN step.at[c]
                       ELSE IF step.at[c][1] > 0 THEN <<Full, Full>> ELSE <<0, 0>>]
      OBVIOUS
    <3>2. Kept(step) = [step EXCEPT !.at = at]
      BY <2>3, <3>1 DEF Kept
    <3>3. <<Full, Full>> \in Position /\ <<0, 0>> \in Position
      BY StepConstants DEF Position
    <3>4. at \in [Controls -> Position]
      BY <3>1, <3>3 DEF FlatStep, Step
    <3>5. Kept(step) \in FlatStep /\ Kept(step).at = at
      BY <3>2, <3>4 DEF FlatStep, Step
    <3>6. \A c \in Triggers : at[c] \in {<<0, 0>>, <<Full, Full>>}
      BY <3>1 DEF Controls
    <3> QED
      BY <2>1, <3>5, <3>6 DEF Pulled
  <2> QED
    BY <2>2, <2>3
<1>4. /\ kept \in Seq(FlatStep)
      /\ \A i \in DOMAIN kept : Pulled(kept[i])
  <2>1. kept \in [1 .. Len(onPad) -> FlatStep]
    BY <1>2, <1>3
  <2> QED
    BY <1>2, <1>3, <2>1
<1>5. Right(Fold(kept))
  BY <1>4, FoldIsRight
<1> QED
  BY <1>1, <1>2, <1>5 DEF ReadAs

-------------------------------------------------------------------------------
(***************************************************************************)
(* The edits of a step list.                                               *)
(***************************************************************************)
\* No trigger that is on or off glides.
DrawnStep == {step \in Step : OnOff => step.glide \cap Triggers = {}}

LEMMA RightIsDrawn ==
  ASSUME NEW list, Right(list)
  PROVE  list \in Seq(DrawnStep)
<1>1. list \in Seq(Step)
  BY DEF Right
<1>2. ASSUME NEW i \in 1..Len(list) PROVE list[i] \in DrawnStep
  BY <1>1 DEF Right, GlidesAreRight, DrawnStep
<1> QED
  BY <1>1, <1>2

\* Pruning leaves the glides that lead elsewhere.
LEMMA PruneIs ==
  ASSUME NEW list \in Seq(DrawnStep)
  PROVE  /\ Right(Prune(list)) /\ Len(Prune(list)) = Len(list)
         /\ \A i \in 1..Len(list) :
              Prune(list)[i].glide = {c \in list[i].glide : Leads(list, i, c)}
<1> DEFINE left(i) == {c \in list[i].glide : Leads(list, i, c)}
<1>1. PICK p : p = Prune(list)
  OBVIOUS
<1>2. p = [i \in 1..Len(list) |-> [list[i] EXCEPT !.glide = left(i)]]
  BY <1>1 DEF Prune
<1>3. ASSUME NEW i \in 1..Len(list)
      PROVE  p[i] \in DrawnStep /\ p[i].glide = left(i) /\ p[i].at = list[i].at
  <2>1. PICK g : g = left(i)
    OBVIOUS
  <2>2. p[i] = [list[i] EXCEPT !.glide = g]
    BY <1>2, <2>1
  <2>3. list[i] \in DrawnStep /\ g \subseteq list[i].glide
    BY <2>1
  <2>4. p[i] \in DrawnStep /\ p[i].glide = g /\ p[i].at = list[i].at
    BY <2>2, <2>3 DEF DrawnStep, Step
  <2> QED
    BY <2>1, <2>4
<1>4. p \in Seq(DrawnStep) /\ Len(p) = Len(list)
  <2>1. p \in [1..Len(list) -> DrawnStep]
    BY <1>2, <1>3
  <2> QED
    BY <2>1
<1>5. p \in Seq(Step)
  BY <1>4 DEF DrawnStep
<1>6. ASSUME NEW i \in 1..Len(list), NEW c \in p[i].glide
      PROVE  Leads(p, i, c) /\ ~(OnOff /\ c \in Triggers)
  <2>1. Leads(list, i, c)
    BY <1>3, <1>6
  <2>2. i + 1 \in 1..Len(list)
    BY <2>1 DEF Leads
  <2>3. p[i].at = list[i].at /\ p[i + 1].at = list[i + 1].at
    BY <1>3, <2>2
  <2>4. Leads(p, i, c)
    BY <1>4, <2>1, <2>3 DEF Leads
  <2>5. ~(OnOff /\ c \in Triggers)
    BY <1>3, <1>6 DEF DrawnStep
  <2> QED
    BY <2>4, <2>5
<1>7. Right(p)
  BY <1>4, <1>5, <1>6 DEF Right, GlidesAreRight
<1> QED
  BY <1>1, <1>3, <1>4, <1>7

LEMMA RestStepIs == RestStep(NewStepMs) \in DrawnStep
<1>1. <<Rest, Rest>> \in Position /\ <<0, 0>> \in Position /\ NewStepMs \in 0..MaxMs
  BY StepConstants DEF Position
<1>2. PICK at : at = [c \in Controls |-> IF c \in Sticks THEN <<Rest, Rest>> ELSE <<0, 0>>]
  OBVIOUS
<1>3. at \in [Controls -> Position]
  BY <1>1, <1>2
<1>4. RestStep(NewStepMs) = [ms |-> NewStepMs, press |-> {}, glide |-> {}, at |-> at]
  BY <1>2 DEF RestStep
<1> QED
  BY <1>1, <1>3, <1>4 DEF DrawnStep, Step

\* A control half way through a step is at a value on its way.
LEMMA HalfWayIs ==
  ASSUME NEW list \in Seq(Step), NEW i \in DOMAIN list, list[i].ms >= 2, NEW c \in Controls
  PROVE  HalfWay(list, i, c) \in Position
<1>0. Full \in Nat /\ MaxMs \in Nat
  BY StepConstants
<1>1. list[i] \in Step /\ list[i].at[c] \in Position
  <2>1. list[i] \in Step
    OBVIOUS
  <2> QED
    BY <2>1 DEF Step
<1>2. CASE ~(i < Len(list) /\ c \in list[i].glide)
  BY <1>1, <1>2 DEF HalfWay
<1>3. CASE i < Len(list) /\ c \in list[i].glide
  <2>1. list[i + 1] \in Step /\ list[i + 1].at[c] \in Position
    <3>1. list[i + 1] \in Step
      BY <1>3
    <3> QED
      BY <3>1 DEF Step
  <2>2. PICK ms \in Nat : ms = list[i].ms /\ ms >= 2
    BY <1>0, <1>1 DEF Step
  <2>3. PICK half \in 0..ms : half = ms \div 2
    BY <2>2
  <2> DEFINE way(a, b) == (2 * (a * ms + (b - a) * half) + ms) \div (2 * ms)
  <2>4. ASSUME NEW a \in 0..Full, NEW b \in 0..Full PROVE way(a, b) \in 0..Full
    <3>1. PICK m \in Nat : m = ms - half
      BY <2>2
    <3>2. half \in Nat /\ m \in Nat /\ ms = m + half /\ a \in Nat /\ b \in Nat /\ a <= Full /\ b <= Full
      BY <1>0, <2>2, <3>1
    <3>3. PICK x \in Nat : x = a * m + b * half
      BY <3>2
    <3>4. a * ms + (b - a) * half = x
      <4>1. a * (m + half) + (b - a) * half = a * m + b * half
        BY <3>2
      <4> QED
        BY <3>2, <3>3, <4>1
    <3>5. x <= Full * ms
      <4>1. a * m <= Full * m /\ b * half <= Full * half
        BY <1>0, <3>2
      <4>2. Full * m + Full * half = Full * (m + half)
        BY <1>0, <3>2
      <4>3. Full * m \in Nat /\ Full * half \in Nat /\ a * m \in Nat /\ b * half \in Nat
        BY <1>0, <3>2
      <4> QED
        BY <3>2, <3>3, <4>1, <4>2, <4>3
    <3>6. (2 * x + ms) \div (2 * ms) \in 0..Full
      <4>1. PICK y \in Nat : y = Full * ms
        BY <1>0, <2>2
      <4>2. PICK d \in Nat : d = 2 * ms /\ d > 0
        BY <2>2
      <4>3. Full * d = 2 * y
        BY <1>0, <2>2, <4>1, <4>2
      <4>4. 2 * x + ms < Full * d + d
        <5>1. x <= y /\ ms < d
          BY <2>2, <3>5, <4>1, <4>2
        <5>2. PICK e \in Nat : e = Full * d
          BY <1>0, <4>2
        <5>3. e = 2 * y
          BY <4>3, <5>2
        <5>4. 2 * x + ms < e + d
          BY <5>1, <5>3
        <5> QED
          BY <5>2, <5>4
      <4>5. PICK z \in Nat : z = 2 * x + ms
        BY <2>2
      <4>6. z \div d \in 0..Full
        BY <1>0, <4>2, <4>4, <4>5, DivAtMost
      <4> QED
        BY <4>2, <4>5, <4>6
    <3> QED
      BY <3>4, <3>6
  <2>5. HalfWay(list, i, c) = <<way(list[i].at[c][1], list[i + 1].at[c][1]),
                                 way(list[i].at[c][2], list[i + 1].at[c][2])>>
    BY <1>3, <2>2, <2>3 DEF HalfWay
  <2>6. /\ list[i].at[c][1] \in 0..Full /\ list[i + 1].at[c][1] \in 0..Full
        /\ list[i].at[c][2] \in 0..Full /\ list[i + 1].at[c][2] \in 0..Full
    BY <1>1, <2>1 DEF Position
  <2> HIDE DEF way
  <2>7. /\ way(list[i].at[c][1], list[i + 1].at[c][1]) \in 0..Full
        /\ way(list[i].at[c][2], list[i + 1].at[c][2]) \in 0..Full
    BY <2>4, <2>6
  <2> QED
    BY <2>5, <2>7 DEF Position
<1> QED
  BY <1>2, <1>3

\* A step put into a list.
LEMMA InsertIs ==
  ASSUME NEW list \in Seq(DrawnStep), NEW i \in DOMAIN list, NEW step \in DrawnStep
  PROVE  InsertAt(list, i + 1, step) \in Seq(DrawnStep)
<1>1. SubSeq(list, 1, i + 1 - 1) \in Seq(DrawnStep)
  OBVIOUS
<1>2. SubSeq(list, i + 1, Len(list)) \in Seq(DrawnStep)
  <2>1. \A j \in (i + 1)..Len(list) : list[j] \in DrawnStep
    OBVIOUS
  <2> QED
    BY <2>1
<1> QED
  BY <1>1, <1>2 DEF InsertAt

\* Every edit that moves, adds or takes away steps leaves a list with right glides.
LEMMA EditsAreRight ==
  ASSUME NEW list, Right(list), NEW i \in DOMAIN list
  PROVE  /\ Right(AddAfter(list, i)) /\ Right(Duplicate(list, i)) /\ Right(Split(list, i))
         /\ Right(Move(list, i, i - 1)) /\ Right(Move(list, i, i + 1))
         /\ Right(Delete(list, i))
<1>1. list \in Seq(DrawnStep) /\ list[i] \in DrawnStep
  BY RightIsDrawn
<1>2. Right(AddAfter(list, i))
  BY <1>1, RestStepIs, InsertIs, PruneIs DEF AddAfter
<1>3. Right(Duplicate(list, i))
  BY <1>1, InsertIs, PruneIs DEF Duplicate
<1>4. Right(Split(list, i))
  <2>1. CASE list[i].ms < 2
    BY <2>1 DEF Split
  <2>2. CASE ~(list[i].ms < 2)
    <3>1. MaxMs \in Nat /\ list[i].ms \in 0..MaxMs /\ list[i].ms >= 2
      BY <1>1, <2>2, StepConstants DEF DrawnStep, Step
    <3>2. PICK half \in 0..MaxMs : half = list[i].ms \div 2 /\ list[i].ms - half \in 0..MaxMs
      BY <3>1
    <3>3. PICK at : at = [c \in Controls |-> HalfWay(list, i, c)]
      OBVIOUS
    <3>4. at \in [Controls -> Position]
      BY <3>1, <3>3, HalfWayIs DEF Right
    <3>5. PICK second : second = [list[i] EXCEPT !.ms = @ - half, !.at = at]
      OBVIOUS
    <3>6. PICK first : first = [list[i] EXCEPT !.ms = half]
      OBVIOUS
    <3>7. second \in DrawnStep /\ first \in DrawnStep
      BY <1>1, <3>2, <3>4, <3>5, <3>6 DEF DrawnStep, Step
    <3>8. PICK s : s = [list EXCEPT ![i] = first]
      OBVIOUS
    <3>9. s \in Seq(DrawnStep) /\ i \in DOMAIN s
      BY <1>1, <3>7, <3>8
    <3>10. Split(list, i) = Prune(InsertAt(s, i + 1, second))
      BY <2>2, <3>2, <3>3, <3>5, <3>6, <3>8 DEF Split
    <3> QED
      BY <3>7, <3>9, <3>10, InsertIs, PruneIs
  <2> QED
    BY <2>1, <2>2
<1>5. ASSUME NEW j \in Int PROVE Right(Move(list, i, j))
  <2>1. CASE j \in DOMAIN list
    <3>1. PICK s : s = [list EXCEPT ![i] = list[j], ![j] = list[i]]
      OBVIOUS
    <3>2. s \in Seq(DrawnStep)
      BY <1>1, <2>1, <3>1
    <3> QED
      BY <2>1, <3>1, <3>2, PruneIs DEF Move
  <2> QED
    BY <2>1 DEF Move
<1>6. Right(Delete(list, i))
  <2>1. RemoveAt(list, i) \in Seq(DrawnStep)
    <3>1. SubSeq(list, 1, i - 1) \in Seq(DrawnStep)
      <4>1. \A j \in 1..(i - 1) : list[j] \in DrawnStep
        BY <1>1
      <4> QED
        BY <1>1, <4>1
    <3>2. SubSeq(list, i + 1, Len(list)) \in Seq(DrawnStep)
      <4>1. \A j \in (i + 1)..Len(list) : list[j] \in DrawnStep
        BY <1>1
      <4> QED
        BY <1>1, <4>1
    <3> QED
      BY <3>1, <3>2 DEF RemoveAt
  <2> QED
    BY <2>1, PruneIs DEF Delete
<1>7. i - 1 \in Int /\ i + 1 \in Int
  BY <1>1
<1> QED
  BY <1>2, <1>3, <1>4, <1>5, <1>6, <1>7

\* The switch of a glide is offered exactly where the glide stays on.
LEMMA GlideStays ==
  ASSUME NEW list, Right(list), NEW i \in DOMAIN list, NEW c \in Controls
  PROVE  CanGlide(list, i, c)
           <=> c \in Prune([list EXCEPT ![i].glide = @ \cup {c}])[i].glide
<1>1. list \in Seq(Step)
  BY DEF Right
<1>2. PICK s : s = [list EXCEPT ![i].glide = @ \cup {c}]
  OBVIOUS
<1>3. Len(s) = Len(list) /\ DOMAIN s = DOMAIN list /\ \A j \in DOMAIN s : s[j].at = list[j].at
  BY <1>1, <1>2 DEF Step
<1>4. c \in s[i].glide
  <2>1. s[i] = [list[i] EXCEPT !.glide = @ \cup {c}] /\ list[i] \in Step
    BY <1>1, <1>2
  <2> QED
    BY <2>1 DEF Step
<1>5. c \in Prune(s)[i].glide <=> Leads(s, i, c)
  <2>1. PICK left : left = {d \in s[i].glide : Leads(s, i, d)}
    OBVIOUS
  <2>2. i \in 1..Len(s) /\ Prune(s)[i] = [s[i] EXCEPT !.glide = left]
    BY <1>1, <1>3, <2>1 DEF Prune
  <2>3. s[i] = [list[i] EXCEPT !.glide = @ \cup {c}] /\ list[i] \in Step
    BY <1>1, <1>2
  <2>4. Prune(s)[i].glide = left
    BY <2>2, <2>3 DEF Step
  <2> QED
    BY <1>4, <2>1, <2>4
<1>6. Leads(s, i, c) <=> CanGlide(list, i, c)
  BY <1>1, <1>3 DEF Leads, CanGlide
<1> QED
  BY <1>2, <1>5, <1>6

-------------------------------------------------------------------------------
(***************************************************************************)
(* The undo list.                                                          *)
(***************************************************************************)
\* No entry between i and j is of the macro of entry i.
NoneBetween(u, i, j) == \A k \in i + 1 .. j - 1 : u[k].n # u[i].n

\* The entries of each macro of the pad `p` lead from one to the next, up to the step lists
\* `now`, except where the macro changed in another way: the counts `at` tell where.
Linked(u, p) ==
    /\ \A i \in DOMAIN u : u[i].pad = p
    /\ \A i, j \in DOMAIN u : i < j /\ u[i].n = u[j].n =>
         /\ u[i].since <= u[j].since
         /\ (u[i].since = u[j].since /\ NoneBetween(u, i, j)) => u[i].after = u[j].before

LeadsTo(u, now, at) ==
    \A i \in DOMAIN u :
      /\ u[i].since <= at[u[i].n]
      /\ (u[i].since = at[u[i].n] /\ NoneBetween(u, i, Len(u) + 1)) => u[i].after = now[u[i].n]

\* The oldest entry may go.
LEMMA TailLinks ==
  ASSUME NEW u \in Seq(Entry), u # <<>>, NEW p, NEW now, NEW at, Linked(u, p), LeadsTo(u, now, at)
  PROVE  /\ Tail(u) \in Seq(Entry) /\ Len(Tail(u)) = Len(u) - 1
         /\ Linked(Tail(u), p) /\ LeadsTo(Tail(u), now, at)
<1>1. PICK t \in Seq(Entry) : t = Tail(u)
  BY HeadTailProperties
<1>2. Len(t) = Len(u) - 1 /\ \A i \in 1..Len(t) : t[i] = u[i + 1] /\ i + 1 \in DOMAIN u
  BY <1>1, HeadTailProperties
<1>3. ASSUME NEW i \in DOMAIN t, NEW j \in 1..Len(t) + 1, NoneBetween(t, i, j)
      PROVE  NoneBetween(u, i + 1, j + 1)
  <2>1. SUFFICES ASSUME NEW k \in i + 2 .. j PROVE u[k].n # u[i + 1].n
    BY DEF NoneBetween
  <2>2. k - 1 \in i + 1 .. j - 1 /\ k - 1 \in 1..Len(t) /\ t[k - 1] = u[k] /\ t[i] = u[i + 1]
    BY <1>2
  <2> QED
    BY <1>3, <2>2 DEF NoneBetween
<1>4. Linked(t, p)
  <2>1. \A i \in DOMAIN t : t[i].pad = p
    BY <1>2 DEF Linked
  <2>2. ASSUME NEW i \in DOMAIN t, NEW j \in DOMAIN t, i < j, t[i].n = t[j].n
        PROVE  /\ t[i].since <= t[j].since
               /\ (t[i].since = t[j].since /\ NoneBetween(t, i, j)) => t[i].after = t[j].before
    <3>1. /\ i + 1 \in DOMAIN u /\ j + 1 \in DOMAIN u /\ i + 1 < j + 1
          /\ t[i] = u[i + 1] /\ t[j] = u[j + 1]
      BY <1>2, <2>2
    <3>2. NoneBetween(t, i, j) => NoneBetween(u, i + 1, j + 1)
      BY <1>3
    <3> QED
      BY <2>2, <3>1, <3>2 DEF Linked
  <2> QED
    BY <2>1, <2>2 DEF Linked
<1>5. LeadsTo(t, now, at)
  <2>1. ASSUME NEW i \in DOMAIN t
        PROVE  /\ t[i].since <= at[t[i].n]
               /\ (t[i].since = at[t[i].n] /\ NoneBetween(t, i, Len(t) + 1))
                    => t[i].after = now[t[i].n]
    <3>1. i + 1 \in DOMAIN u /\ t[i] = u[i + 1] /\ Len(t) + 2 = Len(u) + 1 /\ Len(t) + 1 \in 1..Len(t) + 1
      BY <1>2
    <3>2. NoneBetween(t, i, Len(t) + 1) => NoneBetween(u, i + 1, Len(u) + 1)
      BY <1>3, <3>1
    <3> QED
      BY <3>1, <3>2 DEF LeadsTo
  <2> QED
    BY <2>1 DEF LeadsTo
<1> QED
  BY <1>1, <1>2, <1>4, <1>5

\* An edit becomes the latest entry.
LEMMA AppendLinks ==
  ASSUME NEW u \in Seq(Entry), NEW p, NEW now, NEW at \in [MacroSlots -> Nat],
         Linked(u, p), LeadsTo(u, now, at),
         NEW e \in Entry, e.pad = p, e.since = at[e.n], e.before = now[e.n],
         NEW next, next[e.n] = e.after, \A n \in MacroSlots \ {e.n} : next[n] = now[n]
  PROVE  Linked(Append(u, e), p) /\ LeadsTo(Append(u, e), next, at)
<1>1. PICK t \in Seq(Entry) : t = Append(u, e)
  BY AppendProperties
<1>2. /\ Len(t) = Len(u) + 1 /\ t[Len(t)] = e
      /\ \A i \in DOMAIN u : t[i] = u[i] /\ i \in DOMAIN t /\ u[i] \in Entry
  BY <1>1
<1>3. DOMAIN t = DOMAIN u \cup {Len(t)}
  BY <1>2
<1>4. ASSUME NEW i \in DOMAIN u, NEW j \in 1..Len(u) + 1, NoneBetween(t, i, j)
      PROVE  NoneBetween(u, i, j)
  <2>1. \A k \in i + 1 .. j - 1 : k \in DOMAIN u
    OBVIOUS
  <2> QED
    BY <1>2, <1>4, <2>1 DEF NoneBetween
<1>5. Linked(t, p)
  <2>1. \A i \in DOMAIN t : t[i].pad = p
    BY <1>2, <1>3 DEF Linked
  <2>2. ASSUME NEW i \in DOMAIN t, NEW j \in DOMAIN t, i < j, t[i].n = t[j].n
        PROVE  /\ t[i].since <= t[j].since
               /\ (t[i].since = t[j].since /\ NoneBetween(t, i, j)) => t[i].after = t[j].before
    <3>1. i \in DOMAIN u /\ t[i] = u[i]
      BY <1>2, <2>2
    <3>2. CASE j \in DOMAIN u
      BY <1>2, <1>4, <2>2, <3>1, <3>2 DEF Linked
    <3>3. CASE j = Len(u) + 1
      <4>1. t[j] = e
        BY <1>2, <3>3
      <4>2. NoneBetween(t, i, j) => NoneBetween(u, i, Len(u) + 1)
        BY <1>4, <3>1, <3>3
      <4> QED
        BY <2>2, <3>1, <4>1, <4>2 DEF LeadsTo
    <3> QED
      BY <1>2, <3>2, <3>3
  <2> QED
    BY <2>1, <2>2 DEF Linked
<1>6. LeadsTo(t, next, at)
  <2>1. ASSUME NEW i \in DOMAIN t
        PROVE  /\ t[i].since <= at[t[i].n]
               /\ (t[i].since = at[t[i].n] /\ NoneBetween(t, i, Len(t) + 1))
                    => t[i].after = next[t[i].n]
    <3>1. CASE i = Len(t)
      <4>1. at[e.n] \in Nat
        BY DEF Entry
      <4> QED
        BY <1>2, <3>1, <4>1
    <3>2. CASE i \in DOMAIN u
      <4>1. t[i] = u[i] /\ u[i].since <= at[u[i].n]
        BY <1>2, <3>2 DEF LeadsTo
      <4>2. CASE u[i].n = e.n
        <5>1. Len(t) \in i + 1 .. Len(t) + 1 - 1
          BY <1>2, <3>2
        <5>2. ~NoneBetween(t, i, Len(t) + 1)
          BY <1>2, <4>1, <4>2, <5>1 DEF NoneBetween
        <5> QED
          BY <4>1, <5>2
      <4>3. CASE u[i].n # e.n
        <5>1. next[u[i].n] = now[u[i].n]
          BY <1>2, <3>2, <4>3 DEF Entry
        <5>2. NoneBetween(t, i, Len(t) + 1) => NoneBetween(u, i, Len(u) + 1)
          <6>1. NoneBetween(t, i, Len(t) + 1) => NoneBetween(t, i, Len(u) + 1)
            BY <1>2, <3>2 DEF NoneBetween
          <6> QED
            BY <1>2, <1>4, <3>2, <6>1
        <5> QED
          BY <3>2, <4>1, <5>1, <5>2 DEF LeadsTo
      <4> QED
        BY <4>2, <4>3
    <3> QED
      BY <1>3, <3>1, <3>2
  <2> QED
    BY <2>1 DEF LeadsTo
<1> QED
  BY <1>1, <1>5, <1>6

\* Only the macro n changed, to the step list `after`.
Becomes(n, after, next, now) == next[n] = after /\ \A m \in MacroSlots \ {n} : next[m] = now[m]

\* The undo list with its latest entry joined by an edit.
Joined(u, after) == [u EXCEPT ![Len(u)].after = after]

\* An edit joins the latest entry.
LEMMA JoinLinks ==
  ASSUME NEW u \in Seq(Entry), Len(u) > 0, NEW p, NEW now, NEW at,
         Linked(u, p), LeadsTo(u, now, at),
         NEW after \in Seq(Step), NEW next,
         Becomes(u[Len(u)].n, after, next, now)
  PROVE  /\ Joined(u, after) \in Seq(Entry)
         /\ Linked(Joined(u, after), p) /\ LeadsTo(Joined(u, after), next, at)
<1>0. next[u[Len(u)].n] = after /\ \A n \in MacroSlots \ {u[Len(u)].n} : next[n] = now[n]
  BY DEF Becomes
<1>1. PICK t : t = Joined(u, after) /\ t = [u EXCEPT ![Len(u)].after = after]
  BY DEF Joined
<1>2. /\ Len(u) \in DOMAIN u /\ u[Len(u)] \in Entry
      /\ DOMAIN t = DOMAIN u /\ Len(t) = Len(u)
  BY <1>1
<1>3. t[Len(u)] = [u[Len(u)] EXCEPT !.after = after]
  BY <1>1, <1>2
<1>4. /\ t[Len(u)] \in Entry /\ t[Len(u)].after = after
      /\ \A i \in DOMAIN u : i # Len(u) => t[i] = u[i]
      /\ \A i \in DOMAIN u : /\ t[i].n = u[i].n /\ t[i].pad = u[i].pad /\ t[i].since = u[i].since
                             /\ t[i].before = u[i].before
  <2>1. \A i \in DOMAIN u : i # Len(u) => t[i] = u[i]
    BY <1>1
  <2>2. PICK e \in Entry : e = u[Len(u)]
    BY <1>2
  <2>3. /\ t[Len(u)] \in Entry /\ t[Len(u)].after = after
        /\ t[Len(u)].n = e.n /\ t[Len(u)].pad = e.pad /\ t[Len(u)].since = e.since
        /\ t[Len(u)].before = e.before
    BY <1>3, <2>2 DEF Entry
  <2> QED
    BY <2>1, <2>2, <2>3
<1>5. t \in Seq(Entry)
  <2>1. t \in [1..Len(u) -> Entry]
    BY <1>1, <1>2, <1>4
  <2> QED
    BY <2>1
<1>6. ASSUME NEW i \in DOMAIN u, NEW j \in 1..Len(u) + 1
      PROVE  NoneBetween(t, i, j) <=> NoneBetween(u, i, j)
  <2>1. \A k \in i + 1 .. j - 1 : k \in DOMAIN u
    OBVIOUS
  <2> QED
    BY <1>4, <2>1 DEF NoneBetween
<1>7. Linked(t, p)
  <2>1. \A i \in DOMAIN t : t[i].pad = p
    BY <1>2, <1>4 DEF Linked
  <2>2. ASSUME NEW i \in DOMAIN u, NEW j \in DOMAIN u, i < j, t[i].n = t[j].n
        PROVE  /\ t[i].since <= t[j].since
               /\ (t[i].since = t[j].since /\ NoneBetween(t, i, j)) => t[i].after = t[j].before
    <3>1. t[i] = u[i]
      BY <1>4, <2>2
    <3>2. t[j].n = u[j].n /\ t[j].since = u[j].since /\ t[j].before = u[j].before
      BY <1>4
    <3>3. NoneBetween(t, i, j) <=> NoneBetween(u, i, j)
      BY <1>6
    <3> QED
      BY <2>2, <3>1, <3>2, <3>3 DEF Linked
  <2> QED
    BY <1>2, <2>1, <2>2 DEF Linked
<1>8. LeadsTo(t, next, at)
  <2>1. ASSUME NEW i \in DOMAIN u
        PROVE  /\ t[i].since <= at[t[i].n]
               /\ (t[i].since = at[t[i].n] /\ NoneBetween(t, i, Len(t) + 1))
                    => t[i].after = next[t[i].n]
    <3>1. t[i].since <= at[t[i].n]
      BY <1>4 DEF LeadsTo
    <3>2. CASE i = Len(u)
      <4>1. t[i].after = after /\ t[i].n = u[Len(u)].n
        BY <1>2, <1>4, <3>2
      <4>2. next[u[Len(u)].n] = after
        BY <1>0
      <4> QED
        BY <3>1, <4>1, <4>2
    <3>3. CASE i # Len(u) /\ u[i].n = u[Len(u)].n
      <4>1. Len(u) \in i + 1 .. Len(t) + 1 - 1
        BY <1>2, <3>3
      <4>2. ~NoneBetween(t, i, Len(t) + 1)
        BY <1>2, <1>4, <3>3, <4>1 DEF NoneBetween
      <4> QED
        BY <3>1, <4>2
    <3>4. CASE i # Len(u) /\ u[i].n # u[Len(u)].n
      <4>1. t[i] = u[i] /\ u[i].n \in MacroSlots \ {u[Len(u)].n}
        <5>1. u[i] \in Entry /\ t[i] = u[i]
          BY <1>4, <3>4
        <5>2. u[i].n \in MacroSlots
          BY <5>1 DEF Entry
        <5> QED
          BY <1>2, <3>4, <5>1, <5>2
      <4>2. NoneBetween(t, i, Len(t) + 1) <=> NoneBetween(u, i, Len(u) + 1)
        BY <1>2, <1>6
      <4>3. next[u[i].n] = now[u[i].n]
        BY <1>0, <4>1
      <4>4. (u[i].since = at[u[i].n] /\ NoneBetween(u, i, Len(u) + 1)) => u[i].after = now[u[i].n]
        BY DEF LeadsTo
      <4>5. t[i].n = u[i].n /\ t[i].since = u[i].since /\ t[i].after = u[i].after
        BY <4>1
      <4> QED
        BY <3>1, <4>2, <4>3, <4>4, <4>5
    <3> QED
      BY <3>2, <3>3, <3>4
  <2> QED
    BY <1>2, <2>1 DEF LeadsTo
<1> QED
  BY <1>1, <1>5, <1>7, <1>8

\* Ctrl+Z takes the latest entry k of its macro out, and the macro is as before it.
LEMMA RemoveLinks ==
  ASSUME NEW u \in Seq(Entry), NEW p, NEW now, NEW at \in [MacroSlots -> Nat],
         Linked(u, p), LeadsTo(u, now, at),
         NEW k \in DOMAIN u, \A j \in DOMAIN u : u[j].n = u[k].n => j <= k,
         NEW next, next[u[k].n] = u[k].before, \A n \in MacroSlots \ {u[k].n} : next[n] = now[n]
  PROVE  /\ RemoveAt(u, k) \in Seq(Entry) /\ Len(RemoveAt(u, k)) = Len(u) - 1
         /\ \A i \in DOMAIN RemoveAt(u, k) : \E j \in DOMAIN u : RemoveAt(u, k)[i] = u[j]
         /\ Linked(RemoveAt(u, k), p) /\ LeadsTo(RemoveAt(u, k), next, at)
<1> DEFINE old(i) == IF i < k THEN i ELSE i + 1
<1>1. PICK t : t = RemoveAt(u, k)
  OBVIOUS
<1>2. /\ t \in Seq(Entry) /\ Len(t) = Len(u) - 1
      /\ \A i \in 1..Len(t) : t[i] = u[old(i)]
  <2>1. PICK a \in Seq(Entry) : a = SubSeq(u, 1, k - 1)
    <3>1. PICK h \in Int : h = k - 1
      OBVIOUS
    <3>2. 1 \in Int /\ \A i \in 1..h : u[i] \in Entry
      BY <3>1
    <3>3. SubSeq(u, 1, h) \in Seq(Entry)
      BY <3>2, SubSeqProperties
    <3> QED
      BY <3>1, <3>3
  <2>2. PICK b \in Seq(Entry) : b = SubSeq(u, k + 1, Len(u))
    <3>1. k + 1 \in Int /\ Len(u) \in Int /\ \A i \in (k + 1)..Len(u) : u[i] \in Entry
      OBVIOUS
    <3> QED
      BY <3>1, SubSeqProperties
  <2>3. Len(a) = k - 1 /\ \A i \in 1..Len(a) : a[i] = u[i]
    BY <2>1
  <2>4. Len(b) = Len(u) - k /\ \A i \in 1..Len(b) : b[i] = u[i + k]
    BY <2>2
  <2>5. t = a \o b
    BY <1>1, <2>1, <2>2 DEF RemoveAt
  <2>6. t \in Seq(Entry) /\ Len(t) = Len(u) - 1
    BY <2>3, <2>4, <2>5
  <2>7. ASSUME NEW i \in 1..Len(t) PROVE t[i] = u[old(i)]
    <3>1. CASE i < k
      BY <2>3, <2>5, <2>6, <3>1
    <3>2. CASE ~(i < k)
      <4>1. t[i] = b[i - (k - 1)] /\ i - (k - 1) \in 1..Len(b)
        BY <2>3, <2>4, <2>5, <2>6, <3>2
      <4>2. i - (k - 1) + k = i + 1
        BY <2>6
      <4> QED
        BY <2>4, <3>2, <4>1, <4>2
    <3> QED
      BY <3>1, <3>2
  <2> QED
    BY <2>6, <2>7
<1>3. ASSUME NEW i \in 1..Len(t)
      PROVE  /\ old(i) \in DOMAIN u /\ old(i) # k /\ t[i] = u[old(i)]
             /\ u[old(i)].n = u[k].n => old(i) < k /\ old(i) = i
  <2>1. old(i) \in DOMAIN u /\ old(i) # k /\ t[i] = u[old(i)]
    BY <1>2
  <2>2. u[old(i)].n = u[k].n => old(i) <= k
    BY <2>1
  <2> QED
    BY <2>1, <2>2
<1>4. ASSUME NEW i \in 1..Len(t), NEW j \in 1..Len(t) + 1, i < j, NoneBetween(t, i, j),
             u[old(i)].n # u[k].n
      PROVE  NoneBetween(u, old(i), old(j))
  <2>1. SUFFICES ASSUME NEW m \in old(i) + 1 .. old(j) - 1 PROVE u[m].n # u[old(i)].n
    BY DEF NoneBetween
  <2>2. CASE m = k
    BY <1>4, <2>2
  <2>3. CASE m < k
    <3>1. m \in i + 1 .. j - 1 /\ m \in 1..Len(t) /\ old(m) = m
      BY <1>2, <2>3
    <3>2. t[m] = u[m] /\ t[i] = u[old(i)]
      BY <1>3, <3>1
    <3>3. t[m].n # t[i].n
      BY <1>4, <3>1 DEF NoneBetween
    <3> QED
      BY <3>2, <3>3
  <2>4. CASE m > k
    <3>1. m - 1 \in i + 1 .. j - 1 /\ m - 1 \in 1..Len(t) /\ old(m - 1) = m
      BY <1>2, <2>4
    <3>2. t[m - 1] = u[m] /\ t[i] = u[old(i)]
      BY <1>3, <3>1
    <3>3. t[m - 1].n # t[i].n
      BY <1>4, <3>1 DEF NoneBetween
    <3> QED
      BY <3>2, <3>3
  <2> QED
    BY <2>2, <2>3, <2>4
<1>5. ASSUME NEW i \in 1..Len(t), NEW j \in 1..Len(t) + 1, i < j, NoneBetween(t, i, j),
             u[old(i)].n = u[k].n, old(j) <= k + 1
      PROVE  NoneBetween(u, i, Least(old(j), k))
  <2>1. SUFFICES ASSUME NEW m \in i + 1 .. Least(old(j), k) - 1 PROVE u[m].n # u[i].n
    BY DEF NoneBetween
  <2>2. m < k /\ m \in i + 1 .. j - 1 /\ m \in 1..Len(t) /\ old(m) = m /\ old(i) = i
    BY <1>2, <1>3, <1>5 DEF Least
  <2>3. t[m] = u[m] /\ t[i] = u[i]
    BY <1>3, <2>2
  <2>4. t[m].n # t[i].n
    BY <1>5, <2>2 DEF NoneBetween
  <2> QED
    BY <2>3, <2>4
<1> HIDE DEF old
<1>6. ASSUME NEW i \in 1..Len(t), NEW j \in 1..Len(t) + 1, i < j
      PROVE  old(i) < old(j)
  <2>1. i \in Int /\ j \in Int /\ k \in Int
    BY <1>2
  <2> QED
    BY <1>6, <2>1 DEF old
<1>7. Linked(t, p)
  <2>1. \A i \in DOMAIN t : t[i].pad = p
    BY <1>2, <1>3 DEF Linked
  <2>2. ASSUME NEW i \in DOMAIN t, NEW j \in DOMAIN t, i < j, t[i].n = t[j].n
        PROVE  /\ t[i].since <= t[j].since
               /\ (t[i].since = t[j].since /\ NoneBetween(t, i, j)) => t[i].after = t[j].before
    <3>1. i \in 1..Len(t) /\ j \in 1..Len(t) /\ j \in 1..Len(t) + 1
      BY <1>2
    <3>2. /\ old(i) \in DOMAIN u /\ t[i] = u[old(i)] /\ old(j) \in DOMAIN u /\ t[j] = u[old(j)]
          /\ old(i) < old(j)
      BY <1>3, <1>6, <2>2, <3>1
    <3>3. NoneBetween(t, i, j) => NoneBetween(u, old(i), old(j))
      <4>1. CASE u[old(i)].n # u[k].n
        BY <1>4, <2>2, <3>1, <4>1
      <4>2. CASE u[old(i)].n = u[k].n
        <5>1. u[old(j)].n = u[k].n
          BY <2>2, <3>2, <4>2
        <5>2. old(j) < k /\ old(i) = i
          BY <1>3, <3>1, <4>2, <5>1
        <5>3. Least(old(j), k) = old(j) /\ old(j) <= k + 1
          BY <3>2, <5>2 DEF Least
        <5> QED
          BY <1>5, <2>2, <3>1, <4>2, <5>2, <5>3
      <4> QED
        BY <4>1, <4>2
    <3> QED
      BY <2>2, <3>2, <3>3 DEF Linked
  <2> QED
    BY <2>1, <2>2 DEF Linked
<1>8. LeadsTo(t, next, at)
  <2>1. ASSUME NEW i \in DOMAIN t
        PROVE  /\ t[i].since <= at[t[i].n]
               /\ (t[i].since = at[t[i].n] /\ NoneBetween(t, i, Len(t) + 1))
                    => t[i].after = next[t[i].n]
    <3>1. i \in 1..Len(t) /\ Len(t) + 1 \in 1..Len(t) + 1 /\ i < Len(t) + 1
      BY <1>2
    <3>2. /\ old(i) \in DOMAIN u /\ t[i] = u[old(i)] /\ u[old(i)] \in Entry
          /\ old(Len(t) + 1) = Len(u) + 1
      BY <1>2, <1>3, <3>1 DEF old
    <3>3. t[i].since <= at[t[i].n]
      BY <3>2 DEF LeadsTo
    <3>4. CASE u[old(i)].n # u[k].n
      <4>1. NoneBetween(t, i, Len(t) + 1) => NoneBetween(u, old(i), Len(u) + 1)
        BY <1>4, <3>1, <3>2, <3>4
      <4>2. next[u[old(i)].n] = now[u[old(i)].n]
        BY <3>2, <3>4 DEF Entry
      <4>3. (u[old(i)].since = at[u[old(i)].n] /\ NoneBetween(u, old(i), Len(u) + 1))
              => u[old(i)].after = now[u[old(i)].n]
        BY <3>2 DEF LeadsTo
      <4> QED
        BY <3>2, <3>3, <4>1, <4>2, <4>3
    <3>5. CASE u[old(i)].n = u[k].n
      <4>1. old(i) = i /\ i < k
        BY <1>3, <3>1, <3>5
      <4>2. SUFFICES ASSUME t[i].since = at[t[i].n], NoneBetween(t, i, Len(t) + 1)
                     PROVE  t[i].after = u[k].before
        BY <3>2, <3>3, <3>5
      <4>3. NoneBetween(u, i, k)
        <5>1. SUFFICES ASSUME NEW m \in i + 1 .. k - 1 PROVE u[m].n # u[i].n
          BY DEF NoneBetween
        <5>2. m \in i + 1 .. Len(t) + 1 - 1 /\ m \in 1..Len(t) /\ old(m) = m
          BY <1>2 DEF old
        <5> QED
          BY <1>3, <3>2, <4>1, <4>2, <5>2 DEF NoneBetween
      <4>4. u[i].since <= u[k].since /\ u[k].since <= at[u[k].n]
        BY <3>2, <3>5, <4>1 DEF Linked, LeadsTo
      <4>5. u[i].since \in Nat /\ u[k].since \in Nat /\ at[u[k].n] \in Nat
        <5>1. u[i] \in Entry /\ u[k] \in Entry
          BY <3>2, <4>1
        <5> QED
          BY <5>1 DEF Entry
      <4>6. u[i].since = u[k].since
        BY <3>2, <3>5, <4>1, <4>2, <4>4, <4>5
      <4> QED
        BY <3>2, <3>5, <4>1, <4>3, <4>6 DEF Linked
    <3> QED
      BY <3>4, <3>5
  <2> QED
    BY <2>1 DEF LeadsTo
<1>9. \A i \in DOMAIN t : \E j \in DOMAIN u : t[i] = u[j]
  BY <1>2, <1>3
<1> QED
  BY <1>1, <1>2, <1>7, <1>8, <1>9

\* Another change is counted for the macros it changed.
LEMMA ChangeLinks ==
  ASSUME NEW u \in Seq(Entry), NEW now, NEW at \in [MacroSlots -> Nat],
         LeadsTo(u, now, at), NEW next,
         NEW later \in [MacroSlots -> Nat],
         \A n \in MacroSlots : IF next[n] = now[n] THEN later[n] = at[n] ELSE later[n] = at[n] + 1
  PROVE  LeadsTo(u, next, later)
<1>1. ASSUME NEW i \in DOMAIN u
      PROVE  /\ u[i].since <= later[u[i].n]
             /\ (u[i].since = later[u[i].n] /\ NoneBetween(u, i, Len(u) + 1))
                  => u[i].after = next[u[i].n]
  <2>0. u[i] \in Entry
    OBVIOUS
  <2>1. PICK n \in MacroSlots : n = u[i].n
    BY <2>0 DEF Entry
  <2>2. u[i].since \in Nat
    BY <2>0 DEF Entry
  <2>3. /\ u[i].since <= at[n]
        /\ (u[i].since = at[n] /\ NoneBetween(u, i, Len(u) + 1)) => u[i].after = now[n]
    BY <2>1 DEF LeadsTo
  <2>4. CASE next[n] = now[n]
    <3>1. later[n] = at[n]
      BY <2>4
    <3> QED
      BY <2>1, <2>3, <2>4, <3>1
  <2>5. CASE next[n] # now[n]
    <3>1. later[n] = at[n] + 1 /\ at[n] \in Nat
      BY <2>5
    <3>2. u[i].since < later[n]
      BY <2>2, <2>3, <3>1
    <3> QED
      BY <2>1, <2>2, <3>1, <3>2
  <2> QED
    BY <2>4, <2>5
<1> QED
  BY <1>1 DEF LeadsTo

-------------------------------------------------------------------------------
(***************************************************************************)
(* The inductive invariant.                                                *)
(***************************************************************************)
RightLists == \A p \in Pads, n \in MacroSlots : Right(held[p][n]) /\ Right(steps[p][n])

RightEntries == \A k \in DOMAIN undo : Right(undo[k].before) /\ Right(undo[k].after)

Inv == TypeOK /\ RightLists /\ RightEntries
       /\ Linked(undo, shown) /\ LeadsTo(undo, steps[shown], since[shown])

\* Every edit of a macro's steps is recorded, and keeps the invariant.
LEMMA EditKeeps ==
  ASSUME Inv, NEW n \in MacroSlots, NEW after, Right(after), NEW key \in Key,
         Edit(n, after, key)
  PROVE  Inv'
<1> DEFINE entry == [n |-> n, before |-> Now(n), after |-> after, key |-> key,
                     pad |-> shown, since |-> since[shown][n]]
<1>1. /\ steps' = [steps EXCEPT ![shown][n] = after]
      /\ held' = held /\ shown' = shown /\ since' = since
      /\ edits < MaxEdits /\ edits' = edits + 1 /\ Record(n, after, key)
  BY DEF Edit, Counted
<1>2. /\ held \in [Pads -> [MacroSlots -> Seq(Step)]]
      /\ steps \in [Pads -> [MacroSlots -> Seq(Step)]]
      /\ undo \in Seq(Entry) /\ Len(undo) <= UndoDepth
      /\ shown \in Pads /\ since \in [Pads -> [MacroSlots -> Nat]]
      /\ edits \in 0 .. MaxEdits
  BY DEF Inv, TypeOK
<1>3. after \in Seq(Step) /\ Now(n) \in Seq(Step) /\ Right(Now(n))
  BY <1>2 DEF Right, Inv, RightLists, Now
<1>4. PICK e \in Entry : e = entry
  BY <1>2, <1>3 DEF Entry
<1>5. /\ e.n = n /\ e.before = Now(n) /\ e.after = after /\ e.pad = shown
      /\ e.since = since[shown][n]
  BY <1>4
<1>6. PICK next : next = steps'[shown]
  OBVIOUS
<1>7. next[n] = after /\ \A m \in MacroSlots \ {n} : next[m] = steps[shown][m]
  BY <1>1, <1>2, <1>6
<1>8. steps' \in [Pads -> [MacroSlots -> Seq(Step)]]
  BY <1>1, <1>2, <1>3
<1>9. RightLists'
  <2>1. ASSUME NEW p \in Pads, NEW m \in MacroSlots PROVE Right(steps'[p][m])
    <3>1. CASE p = shown /\ m = n
      BY <1>6, <1>7, <3>1
    <3>2. CASE ~(p = shown /\ m = n)
      <4>1. steps'[p][m] = steps[p][m]
        BY <1>1, <1>2, <3>2
      <4> QED
        BY <4>1 DEF Inv, RightLists
    <3> QED
      BY <3>1, <3>2
  <2> QED
    BY <1>1, <2>1 DEF Inv, RightLists, Right
<1>10. since[shown] \in [MacroSlots -> Nat]
  BY <1>2
<1> DEFINE UndoKept(u) == /\ u \in Seq(Entry) /\ Len(u) <= UndoDepth
                          /\ \A k \in DOMAIN u : Right(u[k].before) /\ Right(u[k].after)
                          /\ Linked(u, shown) /\ LeadsTo(u, next, since[shown])
<1>11. UndoKept(undo')
  <2>1. CASE after = Now(n)
    <3>1. undo' = undo
      BY <1>1, <2>1 DEF Record
    <3>2. next = steps[shown]
      BY <1>1, <1>2, <1>6, <2>1 DEF Now
    <3> QED
      BY <1>2, <3>1, <3>2 DEF Inv, RightEntries
  <2>2. CASE after # Now(n) /\ key # NoKey /\ undo # <<>>
             /\ Last(undo).key = key /\ Last(undo).n = n /\ Last(undo).after = Now(n)
    <3>1. undo' = [undo EXCEPT ![Len(undo)].after = after]
      BY <1>1, <2>2 DEF Record
    <3>2. next[Last(undo).n] = after /\ \A m \in MacroSlots \ {Last(undo).n} : next[m] = steps[shown][m]
      BY <1>7, <2>2
    <3>3. /\ undo' \in Seq(Entry) /\ Linked(undo', shown) /\ LeadsTo(undo', next, since[shown])
      <4>1. Linked(undo, shown) /\ LeadsTo(undo, steps[shown], since[shown]) /\ undo # <<>>
        BY <2>2 DEF Inv
      <4>2. PICK now : now = steps[shown]
        OBVIOUS
      <4>3. PICK at : at = since[shown]
        OBVIOUS
      <4>4. PICK u : u = undo
        OBVIOUS
      <4>5. u \in Seq(Entry) /\ Len(u) > 0 /\ Linked(u, shown) /\ LeadsTo(u, now, at)
        BY <1>2, <4>1, <4>2, <4>3, <4>4
      <4>6. Becomes(u[Len(u)].n, after, next, now)
        BY <3>2, <4>2, <4>4 DEF Last, Becomes
      <4>7. /\ Joined(u, after) \in Seq(Entry)
            /\ Linked(Joined(u, after), shown) /\ LeadsTo(Joined(u, after), next, at)
        BY <1>3, <4>5, <4>6, JoinLinks
      <4> QED
        BY <3>1, <4>3, <4>4, <4>7 DEF Joined
    <3>4. Len(undo') = Len(undo) /\ DOMAIN undo' = DOMAIN undo
      BY <1>2, <3>1
    <3>5. ASSUME NEW k \in DOMAIN undo PROVE Right(undo'[k].before) /\ Right(undo'[k].after)
      <4>1. undo[k] \in Entry
        BY <1>2
      <4>2. CASE k = Len(undo)
        <5>1. undo'[k] = [undo[k] EXCEPT !.after = after]
          BY <1>2, <3>1, <4>2
        <5>2. undo'[k].after = after /\ undo'[k].before = undo[k].before
          BY <4>1, <5>1 DEF Entry
        <5> QED
          BY <5>2 DEF Inv, RightEntries
      <4>3. CASE k # Len(undo)
        <5>1. undo'[k] = undo[k]
          BY <1>2, <3>1, <4>3
        <5> QED
          BY <5>1 DEF Inv, RightEntries
      <4> QED
        BY <4>2, <4>3
    <3> QED
      BY <1>2, <3>3, <3>4, <3>5
  <2>3. CASE after # Now(n) /\ ~(key # NoKey /\ undo # <<>>
             /\ Last(undo).key = key /\ Last(undo).n = n /\ Last(undo).after = Now(n))
    <3>1. PICK kept : kept = IF Len(undo) >= UndoDepth THEN Tail(undo) ELSE undo
      OBVIOUS
    <3>2. undo' = Append(kept, e)
      BY <1>1, <1>4, <2>3, <3>1 DEF Record
    <3>3. /\ kept \in Seq(Entry) /\ Len(kept) < UndoDepth
          /\ \A k \in DOMAIN kept : Right(kept[k].before) /\ Right(kept[k].after)
          /\ Linked(kept, shown) /\ LeadsTo(kept, steps[shown], since[shown])
      <4>1. Linked(undo, shown) /\ LeadsTo(undo, steps[shown], since[shown])
            /\ \A k \in DOMAIN undo : Right(undo[k].before) /\ Right(undo[k].after)
        BY DEF Inv, RightEntries
      <4>2. CASE Len(undo) < UndoDepth
        <5>1. kept = undo
          BY <1>2, <3>1, <4>2, EditorConstants
        <5> QED
          BY <1>2, <4>1, <4>2, <5>1
      <4>3. CASE ~(Len(undo) < UndoDepth)
        <5>1. undo # <<>> /\ kept = Tail(undo)
          BY <1>2, <3>1, <4>3, EditorConstants
        <5>2. kept \in Seq(Entry) /\ Len(kept) = Len(undo) - 1
              /\ Linked(kept, shown) /\ LeadsTo(kept, steps[shown], since[shown])
          BY <1>2, <4>1, <5>1, TailLinks
        <5>3. \A k \in DOMAIN kept : kept[k] = undo[k + 1] /\ k + 1 \in DOMAIN undo
          BY <1>2, <5>1, HeadTailProperties
        <5>4. Len(kept) < UndoDepth
          BY <1>2, <4>3, <5>2, EditorConstants
        <5> QED
          BY <4>1, <5>2, <5>3, <5>4
      <4> QED
        BY <4>2, <4>3
    <3>4. Linked(undo', shown) /\ LeadsTo(undo', next, since[shown])
      <4>1. PICK now : now = steps[shown]
        OBVIOUS
      <4>2. PICK at \in [MacroSlots -> Nat] : at = since[shown]
        BY <1>10
      <4>3. e.before = now[e.n] /\ e.since = at[e.n] /\ next[e.n] = e.after /\ e.pad = shown
        BY <1>5, <1>7, <4>1, <4>2 DEF Now
      <4>4. \A m \in MacroSlots \ {e.n} : next[m] = now[m]
        BY <1>5, <1>7, <4>1
      <4>5. Linked(kept, shown) /\ LeadsTo(kept, now, at)
        BY <3>3, <4>1, <4>2
      <4>6. Linked(Append(kept, e), shown) /\ LeadsTo(Append(kept, e), next, at)
        BY <3>3, <4>3, <4>4, <4>5, AppendLinks
      <4> QED
        BY <3>2, <4>2, <4>6
    <3>5. undo' \in Seq(Entry) /\ Len(undo') = Len(kept) + 1
          /\ \A k \in DOMAIN undo' : undo'[k] = IF k = Len(kept) + 1 THEN e ELSE kept[k]
      BY <3>2, <3>3, AppendProperties
    <3>6. \A k \in DOMAIN undo' : Right(undo'[k].before) /\ Right(undo'[k].after)
      <4>1. \A k \in DOMAIN undo' : k = Len(kept) + 1 \/ k \in DOMAIN kept
        BY <3>3, <3>5
      <4> QED
        BY <1>3, <1>5, <3>3, <3>5, <4>1
    <3> QED
      BY <3>3, <3>4, <3>5, <3>6, EditorConstants
  <2> QED
    BY <2>1, <2>2, <2>3
<1>12. TypeOK'
  <2>1. edits' \in 0 .. MaxEdits
    BY <1>1, <1>2, EditorConstants
  <2>2. undo' \in Seq(Entry) /\ Len(undo') <= UndoDepth
    BY <1>11
  <2> QED
    BY <1>1, <1>2, <1>8, <2>1, <2>2 DEF TypeOK
<1>13. RightEntries' /\ Linked(undo', shown') /\ LeadsTo(undo', steps'[shown'], since'[shown'])
  BY <1>1, <1>6, <1>11 DEF RightEntries
<1> QED
  BY <1>9, <1>12, <1>13 DEF Inv

\* An edit of step i takes a step of its own.
LEMMA ValuesKeep ==
  ASSUME Inv, NEW n \in MacroSlots, NEW i \in DOMAIN Now(n), NEW step \in DrawnStep,
         NEW key \in Key, EditValues(n, i, step, key)
  PROVE  Inv'
<1>1. Right(Now(n))
  BY DEF Inv, TypeOK, RightLists, Now
<1>2. Now(n) \in Seq(DrawnStep)
  BY <1>1, RightIsDrawn
<1>3. PICK s : s = [Now(n) EXCEPT ![i] = step]
  OBVIOUS
<1>4. s \in Seq(DrawnStep)
  BY <1>2, <1>3
<1>5. Right(Prune(s))
  BY <1>4, PruneIs
<1>6. Edit(n, Prune(s), key)
  BY <1>3 DEF EditValues
<1> QED
  BY <1>5, <1>6, EditKeeps

\* The steps shown are of their type, drawn and with right glides.
LEMMA ShownSteps ==
  ASSUME Inv, NEW n \in MacroSlots
  PROVE  Right(Now(n)) /\ Now(n) \in Seq(DrawnStep)
<1>1. Right(Now(n))
  BY DEF Inv, TypeOK, RightLists, Now
<1> QED
  BY <1>1, RightIsDrawn

\* Every step edit keeps the invariant.
LEMMA StepEditKeeps ==
  ASSUME Inv, StepEdit
  PROVE  Inv'
<1>0. PICK n \in MacroSlots : \E i \in DOMAIN Now(n) :
        \/ AddStep(n, i) \/ DuplicateStep(n, i) \/ SplitStep(n, i)
        \/ MoveUp(n, i) \/ MoveDown(n, i) \/ DeleteStep(n, i)
        \/ SetStepDuration(n, i) \/ ToggleStepButton(n, i) \/ ToggleTrigger(n, i)
        \/ SetStick(n, i) \/ NudgeStick(n, i) \/ SetTrigger(n, i)
        \/ SetStickGlide(n, i) \/ SetTriggerGlide(n, i)
  BY Zenon DEF StepEdit
<1>1. PICK i \in DOMAIN Now(n) :
        \/ AddStep(n, i) \/ DuplicateStep(n, i) \/ SplitStep(n, i)
        \/ MoveUp(n, i) \/ MoveDown(n, i) \/ DeleteStep(n, i)
        \/ SetStepDuration(n, i) \/ ToggleStepButton(n, i) \/ ToggleTrigger(n, i)
        \/ SetStick(n, i) \/ NudgeStick(n, i) \/ SetTrigger(n, i)
        \/ SetStickGlide(n, i) \/ SetTriggerGlide(n, i)
  BY <1>0, Zenon
<1>2. NoKey \in Key
  BY DEF NoKey, Key
<1>3. Right(Now(n)) /\ Now(n) \in Seq(DrawnStep)
  BY ShownSteps
<1>4. PICK step \in DrawnStep : step = Now(n)[i]
  BY <1>3
<1>5. /\ step.ms \in 0..MaxMs /\ step.press \subseteq StepButtons
      /\ step.at \in [Controls -> Position] /\ step.glide \subseteq Controls
      /\ OnOff => step.glide \cap Triggers = {}
      /\ step = [ms |-> step.ms, press |-> step.press, at |-> step.at, glide |-> step.glide]
  BY <1>4 DEF DrawnStep, Step
<1>6. i \in Nat /\ <<i, "duration">> \in Key /\ \A c \in Controls : <<i, c>> \in Key
  <2>1. i \in Nat
    BY <1>3
  <2> QED
    BY <2>1 DEF Key
<1>7. Triggers \subseteq Controls /\ Sticks \subseteq Controls
  BY DEF Controls
<1>8. Sticks \cap Triggers = {}
  BY StepConstants
\* A step with a control moved.
<1>9. ASSUME NEW c \in Controls, NEW x \in 0..Full, NEW y \in 0..Full
      PROVE  [step EXCEPT !.at[c] = <<x, y>>] \in DrawnStep
  <2>1. PICK at : at = [step.at EXCEPT ![c] = <<x, y>>]
    OBVIOUS
  <2>2. at \in [Controls -> Position]
    BY <1>5, <2>1 DEF Position
  <2>3. [step EXCEPT !.at[c] = <<x, y>>] = [step EXCEPT !.at = at]
    BY <1>5, <2>1
  <2> QED
    BY <1>4, <2>2, <2>3 DEF DrawnStep, Step
<1>10. CASE AddStep(n, i)
  <2>1. Edit(n, AddAfter(Now(n), i), NoKey)
    BY <1>10 DEF AddStep
  <2> QED
    BY <1>2, <1>3, <2>1, EditsAreRight, EditKeeps
<1>11. CASE DuplicateStep(n, i)
  <2>1. Edit(n, Duplicate(Now(n), i), NoKey)
    BY <1>11 DEF DuplicateStep
  <2> QED
    BY <1>2, <1>3, <2>1, EditsAreRight, EditKeeps
<1>12. CASE SplitStep(n, i)
  <2>1. Edit(n, Split(Now(n), i), NoKey)
    BY <1>12 DEF SplitStep
  <2> QED
    BY <1>2, <1>3, <2>1, EditsAreRight, EditKeeps
<1>13. CASE MoveUp(n, i)
  <2>1. Edit(n, Move(Now(n), i, i - 1), NoKey)
    BY <1>13 DEF MoveUp
  <2> QED
    BY <1>2, <1>3, <2>1, EditsAreRight, EditKeeps
<1>14. CASE MoveDown(n, i)
  <2>1. Edit(n, Move(Now(n), i, i + 1), NoKey)
    BY <1>14 DEF MoveDown
  <2> QED
    BY <1>2, <1>3, <2>1, EditsAreRight, EditKeeps
<1>15. CASE DeleteStep(n, i)
  <2>1. Edit(n, Delete(Now(n), i), NoKey)
    BY <1>15 DEF DeleteStep
  <2> QED
    BY <1>2, <1>3, <2>1, EditsAreRight, EditKeeps
<1>16. CASE SetStepDuration(n, i)
  <2>1. PICK ms \in Durations :
          EditValues(n, i, [Now(n)[i] EXCEPT !.ms = Most(MinMs, Least(ms, MaxMs))], <<i, "duration">>)
    BY <1>16 DEF SetStepDuration
  <2>2. PICK d : d = Most(MinMs, Least(ms, MaxMs))
    OBVIOUS
  <2>3. d \in 0..MaxMs
    BY <2>2, StepConstants, EditorConstants DEF Most, Least
  <2>4. PICK s : s = [step EXCEPT !.ms = d]
    OBVIOUS
  <2>5. s \in DrawnStep
    BY <1>4, <2>3, <2>4 DEF DrawnStep, Step
  <2>6. EditValues(n, i, s, <<i, "duration">>)
    BY <1>4, <2>1, <2>2, <2>4
  <2> QED
    BY <1>6, <2>5, <2>6, ValuesKeep
<1>17. CASE ToggleStepButton(n, i)
  <2>1. PICK b \in StepButtons :
          EditValues(n, i, [Now(n)[i] EXCEPT !.press = SymDiff(@, {b})], NoKey)
    BY <1>17 DEF ToggleStepButton
  <2>2. PICK press : press = SymDiff(step.press, {b})
    OBVIOUS
  <2>3. press \subseteq StepButtons
    BY <1>5, <2>2 DEF SymDiff
  <2>4. PICK s : s = [step EXCEPT !.press = press]
    OBVIOUS
  <2>5. s \in DrawnStep
    BY <1>4, <2>3, <2>4 DEF DrawnStep, Step
  <2>6. EditValues(n, i, s, NoKey)
    BY <1>4, <2>1, <2>2, <2>4
  <2> QED
    BY <1>2, <2>5, <2>6, ValuesKeep
<1>18. CASE ToggleTrigger(n, i)
  <2>1. PICK c \in Triggers :
          EditValues(n, i, [Now(n)[i] EXCEPT
                              !.at[c] = IF Now(n)[i].at[c][1] = 0 THEN <<Full, Full>> ELSE <<0, 0>>,
                              !.glide = IF Now(n)[i].at[c][1] = 0 THEN @ ELSE @ \ {c}], NoKey)
    BY <1>18 DEF ToggleTrigger
  <2>2. PICK v \in {0, Full} : v = IF step.at[c][1] = 0 THEN Full ELSE 0
    OBVIOUS
  <2>3. PICK g : g = IF step.at[c][1] = 0 THEN step.glide ELSE step.glide \ {c}
    OBVIOUS
  <2>4. PICK s : s = [step EXCEPT !.at[c] = <<v, v>>]
    OBVIOUS
  <2>5. s \in DrawnStep /\ s.glide = step.glide
    <3>1. v \in 0..Full /\ c \in Controls
      BY <1>7, StepConstants
    <3> QED
      BY <1>5, <1>9, <2>4, <3>1
  <2>6. PICK t : t = [s EXCEPT !.glide = g]
    OBVIOUS
  <2>7. t \in DrawnStep
    BY <1>5, <2>3, <2>5, <2>6 DEF DrawnStep, Step
  <2>8. t = [step EXCEPT !.at[c] = IF step.at[c][1] = 0 THEN <<Full, Full>> ELSE <<0, 0>>,
                         !.glide = IF step.at[c][1] = 0 THEN @ ELSE @ \ {c}]
    BY <1>5, <2>2, <2>3, <2>4, <2>6
  <2>9. EditValues(n, i, t, NoKey)
    BY <1>4, <2>1, <2>8
  <2> QED
    BY <1>2, <2>7, <2>9, ValuesKeep
<1>19. CASE SetStick(n, i)
  <2>1. PICK c \in Sticks, apart \in BOOLEAN,
             x \in IF Snaps THEN Directions ELSE Values, y \in IF Snaps THEN Directions ELSE Values :
          EditValues(n, i, [Now(n)[i] EXCEPT !.at[c] = <<x, y>>], IF apart THEN NoKey ELSE <<i, c>>)
    BY <1>19 DEF SetStick
  <2>2. x \in 0..Full /\ y \in 0..Full /\ c \in Controls
    <3>1. Directions \subseteq 0..Full /\ Values \subseteq 0..Full
      BY StepConstants, EditorConstants DEF Directions
    <3> QED
      BY <1>7, <3>1
  <2>3. PICK key \in Key : key = IF apart THEN NoKey ELSE <<i, c>>
    BY <1>2, <1>6, <2>2
  <2>4. PICK s \in DrawnStep : s = [step EXCEPT !.at[c] = <<x, y>>]
    BY <1>9, <2>2
  <2>5. EditValues(n, i, s, key)
    BY <1>4, <2>1, <2>3, <2>4
  <2> QED
    BY <2>5, ValuesKeep
<1>20. CASE NudgeStick(n, i)
  <2>1. PICK c \in Sticks, d \in {<<-1, 0>>, <<1, 0>>, <<0, -1>>, <<0, 1>>} :
          EditValues(n, i, [Now(n)[i] EXCEPT
                              !.at[c] = <<Nudged(Now(n)[i].at[c][1], d[1]),
                                          Nudged(Now(n)[i].at[c][2], d[2])>>], NoKey)
    BY <1>20 DEF NudgeStick
  <2>2. ASSUME NEW v \in 0..Full, NEW e \in {-1, 0, 1} PROVE Nudged(v, e) \in 0..Full
    <3>1. PICK r \in {0, 1, 2} : r = Rank(v)
      BY DEF Rank
    <3>2. PICK k \in {0, 1, 2} : k = Most(0, Least(2, r + e))
      BY DEF Most, Least
    <3>3. Nudged(v, e) = <<0, Rest, Full>>[1 + k]
      BY <3>1, <3>2 DEF Nudged
    <3>4. <<0, Rest, Full>>[1] = 0 /\ <<0, Rest, Full>>[2] = Rest /\ <<0, Rest, Full>>[3] = Full
      OBVIOUS
    <3>5. Nudged(v, e) = 0 \/ Nudged(v, e) = Rest \/ Nudged(v, e) = Full
      <4>1. k = 0 \/ k = 1 \/ k = 2
        OBVIOUS
      <4> QED
        BY <3>3, <3>4, <4>1
    <3> QED
      BY <3>5, StepConstants
  <2>3. step.at[c][1] \in 0..Full /\ step.at[c][2] \in 0..Full /\ c \in Controls
    <3>1. c \in Controls /\ step.at[c] \in Position
      BY <1>5, <1>7
    <3> QED
      BY <3>1 DEF Position
  <2>4. d[1] \in {-1, 0, 1} /\ d[2] \in {-1, 0, 1}
    OBVIOUS
  <2>5. PICK x \in 0..Full : x = Nudged(step.at[c][1], d[1])
    BY <2>2, <2>3, <2>4
  <2>6. PICK y \in 0..Full : y = Nudged(step.at[c][2], d[2])
    BY <2>2, <2>3, <2>4
  <2>7. PICK s \in DrawnStep : s = [step EXCEPT !.at[c] = <<x, y>>]
    BY <1>9, <2>3
  <2>8. EditValues(n, i, s, NoKey)
    BY <1>4, <2>1, <2>5, <2>6, <2>7
  <2> QED
    BY <1>2, <2>8, ValuesKeep
<1>21. CASE SetTrigger(n, i)
  <2>1. PICK c \in Triggers, v \in Values, apart \in BOOLEAN :
          EditValues(n, i, [Now(n)[i] EXCEPT !.at[c] = <<v, v>>], IF apart THEN NoKey ELSE <<i, c>>)
    BY <1>21 DEF SetTrigger
  <2>2. v \in 0..Full /\ c \in Controls
    BY <1>7, EditorConstants
  <2>3. PICK key \in Key : key = IF apart THEN NoKey ELSE <<i, c>>
    BY <1>2, <1>6, <2>2
  <2>4. PICK s \in DrawnStep : s = [step EXCEPT !.at[c] = <<v, v>>]
    BY <1>9, <2>2
  <2>5. EditValues(n, i, s, key)
    BY <1>4, <2>1, <2>3, <2>4
  <2> QED
    BY <2>5, ValuesKeep
\* A step with a glide turned on or off.
<1>22. ASSUME NEW c \in Controls, NEW on \in BOOLEAN, ~(OnOff /\ c \in Triggers)
       PROVE  Glide(step, c, on) \in DrawnStep
  <2>1. PICK g : g = IF on THEN step.glide \cup {c} ELSE step.glide \ {c}
    OBVIOUS
  <2>2. g \subseteq Controls /\ (OnOff => g \cap Triggers = {})
    BY <1>5, <1>22, <2>1
  <2>3. Glide(step, c, on) = [step EXCEPT !.glide = g]
    BY <1>5, <2>1 DEF Glide
  <2> QED
    BY <1>4, <2>2, <2>3 DEF DrawnStep, Step
<1>23. CASE SetStickGlide(n, i)
  <2>1. PICK c \in Sticks, on \in BOOLEAN : EditValues(n, i, Glide(Now(n)[i], c, on), NoKey)
    BY <1>23 DEF SetStickGlide
  <2>2. PICK s \in DrawnStep : s = Glide(step, c, on)
    BY <1>7, <1>8, <1>22
  <2>3. EditValues(n, i, s, NoKey)
    BY <1>4, <2>1, <2>2
  <2> QED
    BY <1>2, <2>3, ValuesKeep
<1>24. CASE SetTriggerGlide(n, i)
  <2>1. ~OnOff
    BY <1>24 DEF SetTriggerGlide
  <2>2. PICK c \in Triggers, on \in BOOLEAN : EditValues(n, i, Glide(Now(n)[i], c, on), NoKey)
    BY <1>24 DEF SetTriggerGlide
  <2>3. PICK s \in DrawnStep : s = Glide(step, c, on)
    BY <1>7, <1>22, <2>1
  <2>4. EditValues(n, i, s, NoKey)
    BY <1>4, <2>2, <2>3
  <2> QED
    BY <1>2, <2>4, ValuesKeep
<1> QED
  BY <1>1, <1>10, <1>11, <1>12, <1>13, <1>14, <1>15, <1>16, <1>17, <1>18, <1>19, <1>20, <1>21,
     <1>23, <1>24

\* Ctrl+Z keeps the invariant.
LEMMA UndoKeeps ==
  ASSUME Inv, NEW n \in MacroSlots, UndoStep(n)
  PROVE  Inv'
<1>1. /\ CanUndoStep(n) /\ steps' = [steps EXCEPT ![shown][n] = undo[Latest(n)].before]
      /\ undo' = RemoveAt(undo, Latest(n))
      /\ held' = held /\ shown' = shown /\ since' = since /\ edits' = edits
  BY DEF UndoStep
<1>2. /\ held \in [Pads -> [MacroSlots -> Seq(Step)]]
      /\ steps \in [Pads -> [MacroSlots -> Seq(Step)]]
      /\ undo \in Seq(Entry) /\ Len(undo) <= UndoDepth
      /\ shown \in Pads /\ since \in [Pads -> [MacroSlots -> Nat]]
      /\ edits \in 0 .. MaxEdits
  BY DEF Inv, TypeOK
<1>3. PICK k \in DOMAIN undo :
        k = Latest(n) /\ undo[k].n = n /\ \A j \in DOMAIN undo : undo[j].n = n => j <= k
  <2>1. EntriesOf(n) \in SUBSET (0..Len(undo)) /\ EntriesOf(n) # {} /\ Len(undo) \in Nat
    BY <1>1, <1>2 DEF EntriesOf, CanUndoStep
  <2>2. Latest(n) \in EntriesOf(n) /\ \A j \in EntriesOf(n) : j <= Latest(n)
    BY <2>1, GreatestIs DEF Latest
  <2> QED
    BY <2>2 DEF EntriesOf
<1>4. Right(undo[k].before) /\ undo[k].before \in Seq(Step)
  BY DEF Inv, RightEntries, Right
<1>5. steps' = [steps EXCEPT ![shown][n] = undo[k].before] /\ undo' = RemoveAt(undo, k)
  BY <1>1, <1>3
<1>6. PICK next : next = steps'[shown]
  OBVIOUS
<1>7. next[n] = undo[k].before /\ \A m \in MacroSlots \ {n} : next[m] = steps[shown][m]
  BY <1>2, <1>5, <1>6
<1>8. RightLists'
  <2>1. ASSUME NEW p \in Pads, NEW m \in MacroSlots PROVE Right(steps'[p][m])
    <3>1. CASE p = shown /\ m = n
      BY <1>4, <1>6, <1>7, <3>1
    <3>2. CASE ~(p = shown /\ m = n)
      <4>1. steps'[p][m] = steps[p][m]
        BY <1>2, <1>5, <3>2
      <4> QED
        BY <4>1 DEF Inv, RightLists
    <3> QED
      BY <3>1, <3>2
  <2> QED
    BY <1>1, <2>1 DEF Inv, RightLists, Right
<1>9. /\ undo' \in Seq(Entry) /\ Len(undo') = Len(undo) - 1
      /\ \A i \in DOMAIN undo' : \E j \in DOMAIN undo : undo'[i] = undo[j]
      /\ Linked(undo', shown) /\ LeadsTo(undo', next, since[shown])
  <2>1. PICK now : now = steps[shown]
    OBVIOUS
  <2>2. PICK at \in [MacroSlots -> Nat] : at = since[shown]
    BY <1>2
  <2>3. PICK u \in Seq(Entry) : u = undo
    BY <1>2
  <2>4. Linked(u, shown) /\ LeadsTo(u, now, at) /\ k \in DOMAIN u
    BY <2>1, <2>2, <2>3 DEF Inv
  <2>5. /\ \A j \in DOMAIN u : u[j].n = u[k].n => j <= k
        /\ next[u[k].n] = u[k].before /\ \A m \in MacroSlots \ {u[k].n} : next[m] = now[m]
    BY <1>3, <1>7, <2>1, <2>3
  <2>6. /\ RemoveAt(u, k) \in Seq(Entry) /\ Len(RemoveAt(u, k)) = Len(u) - 1
        /\ \A i \in DOMAIN RemoveAt(u, k) : \E j \in DOMAIN u : RemoveAt(u, k)[i] = u[j]
        /\ Linked(RemoveAt(u, k), shown) /\ LeadsTo(RemoveAt(u, k), next, at)
    BY <2>4, <2>5, RemoveLinks
  <2> QED
    BY <1>5, <2>2, <2>3, <2>6
<1>10. RightEntries'
  BY <1>9 DEF Inv, RightEntries
<1>11. TypeOK'
  <2>1. steps' \in [Pads -> [MacroSlots -> Seq(Step)]]
    BY <1>2, <1>4, <1>5
  <2>2. Len(undo') <= UndoDepth
    BY <1>2, <1>9, EditorConstants
  <2> QED
    BY <1>1, <1>2, <1>9, <2>1, <2>2 DEF TypeOK
<1>12. Linked(undo', shown') /\ LeadsTo(undo', steps'[shown'], since'[shown'])
  BY <1>1, <1>6, <1>9
<1> QED
  BY <1>8, <1>10, <1>11, <1>12 DEF Inv

\* The lists of one pad, all with right glides.
RightPad(after) == after \in [MacroSlots -> Seq(Step)] /\ \A n \in MacroSlots : Right(after[n])

\* A change of another kind keeps the invariant.
LEMMA ChangeKeeps ==
  ASSUME Inv, NEW p \in Pads, NEW after, RightPad(after), Change(p, after),
         held' \in [Pads -> [MacroSlots -> Seq(Step)]],
         \A q \in Pads, n \in MacroSlots : Right(held'[q][n])
  PROVE  Inv'
<1>1. /\ steps' = [steps EXCEPT ![p] = after]
      /\ since' = [since EXCEPT ![p] = [n \in MacroSlots |->
                                          @[n] + IF after[n] = steps[p][n] THEN 0 ELSE 1]]
      /\ undo' = undo /\ shown' = shown /\ edits < MaxEdits /\ edits' = edits + 1
  BY DEF Change, Counted
<1>2. /\ held \in [Pads -> [MacroSlots -> Seq(Step)]]
      /\ steps \in [Pads -> [MacroSlots -> Seq(Step)]]
      /\ undo \in Seq(Entry) /\ Len(undo) <= UndoDepth
      /\ shown \in Pads /\ since \in [Pads -> [MacroSlots -> Nat]]
      /\ edits \in 0 .. MaxEdits
  BY DEF Inv, TypeOK
<1>3. after \in [MacroSlots -> Seq(Step)] /\ \A n \in MacroSlots : Right(after[n])
  BY DEF RightPad
<1>4. PICK later : later = [n \in MacroSlots |->
                              since[p][n] + IF after[n] = steps[p][n] THEN 0 ELSE 1]
  OBVIOUS
<1>5. since' = [since EXCEPT ![p] = later]
  BY <1>1, <1>2, <1>4
<1>6. later \in [MacroSlots -> Nat]
  <2>1. \A n \in MacroSlots : since[p][n] \in Nat
    BY <1>2
  <2>2. ASSUME NEW n \in MacroSlots
        PROVE  since[p][n] + (IF after[n] = steps[p][n] THEN 0 ELSE 1) \in Nat
    BY <2>1
  <2> QED
    BY <1>4, <2>2
<1>7. TypeOK'
  <2>1. steps' \in [Pads -> [MacroSlots -> Seq(Step)]]
    BY <1>1, <1>2, <1>3
  <2>2. since' \in [Pads -> [MacroSlots -> Nat]]
    BY <1>2, <1>5, <1>6
  <2>3. edits' \in 0 .. MaxEdits
    BY <1>1, <1>2, EditorConstants
  <2> QED
    BY <1>1, <1>2, <2>1, <2>2, <2>3 DEF TypeOK
<1>8. RightLists'
  <2>1. ASSUME NEW q \in Pads, NEW n \in MacroSlots PROVE Right(steps'[q][n])
    <3>1. CASE q = p
      BY <1>1, <1>2, <1>3, <3>1
    <3>2. CASE q # p
      <4>1. steps'[q][n] = steps[q][n]
        BY <1>1, <1>2, <3>2
      <4> QED
        BY <4>1 DEF Inv, RightLists
    <3> QED
      BY <3>1, <3>2
  <2> QED
    BY <2>1 DEF RightLists, Right
<1>9. RightEntries' /\ Linked(undo', shown')
  BY <1>1 DEF Inv, RightEntries
<1>10. LeadsTo(undo', steps'[shown'], since'[shown'])
  <2>1. CASE p # shown
    <3>1. steps'[shown] = steps[shown] /\ since'[shown] = since[shown]
      BY <1>1, <1>2, <1>5, <2>1
    <3> QED
      BY <1>1, <3>1 DEF Inv
  <2>2. CASE p = shown
    <3>1. steps'[shown] = after /\ since'[shown] = later
      BY <1>1, <1>2, <1>5, <2>2
    <3>2. PICK now : now = steps[shown]
      OBVIOUS
    <3>3. PICK at \in [MacroSlots -> Nat] : at = since[shown]
      BY <1>2
    <3>4. PICK u \in Seq(Entry) : u = undo
      BY <1>2
    <3>5. LeadsTo(u, now, at)
      BY <3>2, <3>3, <3>4 DEF Inv
    <3>6. \A n \in MacroSlots :
             IF after[n] = now[n] THEN later[n] = at[n] ELSE later[n] = at[n] + 1
      <4>1. ASSUME NEW n \in MacroSlots
            PROVE  IF after[n] = now[n] THEN later[n] = at[n] ELSE later[n] = at[n] + 1
        <5>1. later[n] = at[n] + IF after[n] = now[n] THEN 0 ELSE 1
          BY <1>4, <2>2, <3>2, <3>3
        <5>2. at[n] \in Nat
          BY <3>3
        <5> QED
          BY <5>1, <5>2
      <4> QED
        BY <4>1
    <3>7. LeadsTo(u, after, later)
      BY <1>6, <3>3, <3>5, <3>6, ChangeLinks
    <3> QED
      BY <1>1, <3>1, <3>4, <3>7
  <2> QED
    BY <2>1, <2>2
<1> QED
  BY <1>7, <1>8, <1>9, <1>10 DEF Inv

\* No steps, and one step at rest.
LEMMA SmallAreRight == Right(<<>>) /\ Right(<<RestStep(NewStepMs)>>)
<1>1. Right(<<>>)
  <2>1. <<>> \in Seq(Step) /\ \A i \in DOMAIN <<>> : FALSE
    OBVIOUS
  <2> QED
    BY <2>1 DEF Right, GlidesAreRight
<1>2. PICK step \in Step : step = RestStep(NewStepMs)
  BY RestStepIs DEF DrawnStep
<1>3. step.glide = {}
  BY <1>2 DEF RestStep
<1>4. PICK s : s = <<step>>
  OBVIOUS
<1>5. s \in Seq(Step) /\ \A i \in DOMAIN s : s[i] = step
  BY <1>4
<1>6. Right(s)
  BY <1>3, <1>5 DEF Right, GlidesAreRight
<1> QED
  BY <1>1, <1>2, <1>4, <1>6

\* The steps of a pad with one macro changed.
LEMMA OneMacro ==
  ASSUME Inv, NEW n \in MacroSlots, NEW list, Right(list)
  PROVE  RightPad([steps[shown] EXCEPT ![n] = list])
<1>1. steps[shown] \in [MacroSlots -> Seq(Step)] /\ \A m \in MacroSlots : Right(steps[shown][m])
  BY DEF Inv, TypeOK, RightLists
<1> QED
  BY <1>1 DEF RightPad, Right

LEMMA InitHolds ==
  ASSUME Init
  PROVE  Inv
<1>1. /\ held \in [Pads -> [MacroSlots -> {ReadAs(r) : r \in Recorded}]]
      /\ steps = held /\ undo = <<>> /\ shown \in Pads
      /\ since = [p \in Pads |-> [n \in MacroSlots |-> 0]] /\ edits = 0
  BY DEF Init
<1>2. \A r \in Recorded : Right(ReadAs(r))
  BY ReadAsIs, EditorConstants
<1>3. \A p \in Pads, n \in MacroSlots : Right(held[p][n])
  <2>1. ASSUME NEW p \in Pads, NEW n \in MacroSlots PROVE Right(held[p][n])
    <3>1. held[p][n] \in {ReadAs(r) : r \in Recorded}
      BY <1>1
    <3> QED
      BY <1>2, <3>1
  <2> QED
    BY <2>1
<1>4. RightLists
  BY <1>1, <1>3 DEF RightLists
<1>5. held \in [Pads -> [MacroSlots -> Seq(Step)]]
  <2>1. {ReadAs(r) : r \in Recorded} \subseteq Seq(Step)
    BY <1>2 DEF Right
  <2>2. \A p \in Pads : held[p] \in [MacroSlots -> Seq(Step)]
    <3>1. ASSUME NEW p \in Pads PROVE held[p] \in [MacroSlots -> Seq(Step)]
      <4>1. held[p] \in [MacroSlots -> {ReadAs(r) : r \in Recorded}]
        BY <1>1
      <4> QED
        BY <2>1, <4>1
    <3> QED
      BY <3>1
  <2> QED
    BY <1>1, <2>2
<1>6. undo \in Seq(Entry) /\ Len(undo) = 0 /\ DOMAIN undo = {}
  BY <1>1
<1>7. TypeOK
  <2>1. Len(undo) <= UndoDepth /\ edits \in 0..MaxEdits
    BY <1>1, <1>6, EditorConstants
  <2>2. since \in [Pads -> [MacroSlots -> Nat]]
    BY <1>1
  <2> QED
    BY <1>1, <1>5, <1>6, <2>1, <2>2 DEF TypeOK
<1>8. RightEntries /\ Linked(undo, shown) /\ LeadsTo(undo, steps[shown], since[shown])
  BY <1>6 DEF RightEntries, Linked, LeadsTo
<1> QED
  BY <1>4, <1>7, <1>8 DEF Inv

LEMMA StepKeeps ==
  ASSUME Inv, Next
  PROVE  Inv'
<1>1. /\ held \in [Pads -> [MacroSlots -> Seq(Step)]] /\ shown \in Pads
      /\ \A p \in Pads, n \in MacroSlots : Right(held[p][n])
  BY DEF Inv, TypeOK, RightLists
<1>2. CASE StepEdit
  BY <1>2, StepEditKeeps
<1>3. ASSUME NEW n \in MacroSlots, UndoStep(n) PROVE Inv'
  BY <1>3, UndoKeeps
<1>4. ASSUME NEW n \in MacroSlots, NewMacro(n) PROVE Inv'
  <2>1. PICK after : after = [steps[shown] EXCEPT ![n] = <<RestStep(NewStepMs)>>]
    OBVIOUS
  <2>2. Change(shown, after) /\ held' = held
    BY <1>4, <2>1 DEF NewMacro
  <2>3. RightPad(after)
    BY <2>1, SmallAreRight, OneMacro
  <2> QED
    BY <1>1, <2>2, <2>3, ChangeKeeps
<1>5. ASSUME NEW n \in MacroSlots, DeleteMacro(n) PROVE Inv'
  <2>1. PICK none : none = <<>>
    OBVIOUS
  <2>2. PICK after : after = [steps[shown] EXCEPT ![n] = none]
    OBVIOUS
  <2>3. Change(shown, after) /\ held' = held
    BY <1>5, <2>1, <2>2 DEF DeleteMacro
  <2>4. RightPad(after)
    BY <2>1, <2>2, SmallAreRight, OneMacro
  <2> QED
    BY <1>1, <2>3, <2>4, ChangeKeeps
<1>6. ASSUME NEW n \in MacroSlots, ImportMacro(n) PROVE Inv'
  <2>1. PICK r \in Recorded \ {<<>>} :
          /\ GlidesAreRight(r, OnOff)
          /\ Change(shown, [steps[shown] EXCEPT ![n] = r]) /\ held' = held
    BY <1>6 DEF ImportMacro
  <2>2. Right(r)
    BY <2>1, EditorConstants DEF Right
  <2>3. RightPad([steps[shown] EXCEPT ![n] = r])
    BY <2>2, OneMacro
  <2> QED
    BY <1>1, <2>1, <2>3, ChangeKeeps
<1>7. CASE Discard
  <2>1. Change(shown, held[shown]) /\ held' = held
    BY <1>7 DEF Discard
  <2>2. RightPad(held[shown])
    BY <1>1 DEF RightPad
  <2> QED
    BY <1>1, <2>1, <2>2, ChangeKeeps
<1>8. ASSUME NEW p \in Pads, Written(p) PROVE Inv'
  <2>1. PICK read : read = [n \in MacroSlots |-> ReadAs(steps[p][n])]
    OBVIOUS
  <2>2. Change(p, read) /\ held' = [held EXCEPT ![p] = read]
    BY <1>8, <2>1 DEF Written
  <2>3. \A n \in MacroSlots : steps[p][n] \in Seq(Step)
    BY DEF Inv, TypeOK
  <2>4. \A n \in MacroSlots : Right(read[n])
    BY <2>1, <2>3, ReadAsIs
  <2>5. RightPad(read)
    BY <2>1, <2>4 DEF RightPad, Right
  <2>6. /\ held' \in [Pads -> [MacroSlots -> Seq(Step)]]
        /\ \A q \in Pads, n \in MacroSlots : Right(held'[q][n])
    BY <1>1, <2>2, <2>5 DEF RightPad
  <2> QED
    BY <2>2, <2>5, <2>6, ChangeKeeps
<1>9. \/ StepEdit \/ Discard \/ (\E p \in Pads : Written(p))
      \/ \E n \in MacroSlots : UndoStep(n) \/ NewMacro(n) \/ DeleteMacro(n) \/ ImportMacro(n)
  BY Zenon DEF Next
<1> QED
  BY <1>2, <1>3, <1>4, <1>5, <1>6, <1>7, <1>8, <1>9

-------------------------------------------------------------------------------
(***************************************************************************)
(* The theorems.                                                           *)
(***************************************************************************)
\* The invariant holds: every list shown, held on a pad or kept for Ctrl+Z has right
\* glides, and the entries of the undo list lead from one to the next.
THEOREM InvHolds == Spec => []Inv
<1>1. Init => Inv
  BY InitHolds
<1>2. Inv /\ [Next]_vars => Inv'
  <2>1. CASE UNCHANGED vars
    BY <2>1 DEF vars, Inv, TypeOK, RightLists, RightEntries
  <2> QED
    BY <2>1, StepKeeps
<1> QED
  BY <1>1, <1>2, PTL DEF Spec

\* Every variable keeps its type: a list of steps never holds anything that is not a step
\* (a position or a duration out of range), and the undo list is never longer than its depth.
THEOREM TypeCorrect == Spec => []TypeOK
<1>1. Inv => TypeOK
  BY DEF Inv
<1> QED
  BY <1>1, InvHolds, PTL

\* Whatever is edited, taken back, imported or read, a glide always leads to a next step
\* that holds the control elsewhere, no trigger that is on or off glides, and the switch of
\* a glide is offered exactly where the glide stays on.
THEOREM GlidesEndHolds == Spec => []GlidesEnd
<1>1. Inv => GlidesEnd
  <2>1. SUFFICES ASSUME Inv, NEW p \in Pads, NEW n \in MacroSlots
                 PROVE  /\ GlidesAreRight(steps[p][n], OnOff)
                        /\ \A i \in DOMAIN steps[p][n] : \A c \in Controls :
                             CanGlide(steps[p][n], i, c)
                               <=> c \in Prune([steps[p][n] EXCEPT ![i].glide = @ \cup {c}])[i].glide
    BY DEF GlidesEnd, ShownLists
  <2>2. Right(steps[p][n])
    BY <2>1 DEF Inv, RightLists
  <2> QED
    BY <2>2, GlideStays DEF Right
<1> QED
  BY <1>1, InvHolds, PTL

\* The entries of one macro lead from one to the next up to the steps shown, as long as
\* nothing else changed the macro: each Ctrl+Z goes one edit back.
THEOREM UndoChainsHolds == Spec => []UndoChains
<1>1. Inv => UndoChains
  <2>1. SUFFICES ASSUME Inv, NEW i \in DOMAIN undo, NEW j \in DOMAIN undo
                 PROVE  /\ (/\ i < j /\ undo[i].n = undo[j].n /\ undo[i].pad = undo[j].pad
                            /\ undo[i].since = undo[j].since
                            /\ \A k \in i + 1 .. j - 1 : undo[k].n # undo[i].n)
                               => undo[i].after = undo[j].before
                        /\ (/\ undo[i].since = since[undo[i].pad][undo[i].n]
                            /\ \A k \in i + 1 .. Len(undo) : undo[k].n # undo[i].n)
                               => undo[i].after = steps[undo[i].pad][undo[i].n]
    BY DEF UndoChains
  <2>2. Linked(undo, shown) /\ LeadsTo(undo, steps[shown], since[shown])
    BY <2>1 DEF Inv
  <2>3. undo[i].pad = shown
    BY <2>2 DEF Linked
  <2>4. (/\ i < j /\ undo[i].n = undo[j].n /\ undo[i].since = undo[j].since
         /\ \A k \in i + 1 .. j - 1 : undo[k].n # undo[i].n) => undo[i].after = undo[j].before
    BY <2>2 DEF Linked, NoneBetween
  <2>5. (/\ undo[i].since = since[shown][undo[i].n]
         /\ \A k \in i + 1 .. Len(undo) : undo[k].n # undo[i].n)
            => undo[i].after = steps[shown][undo[i].n]
    <3>1. Len(undo) + 1 - 1 = Len(undo)
      BY <2>1 DEF Inv, TypeOK
    <3> QED
      BY <2>2, <3>1 DEF LeadsTo, NoneBetween
  <2> QED
    BY <2>3, <2>4, <2>5
<1> QED
  BY <1>1, InvHolds, PTL

=============================================================================
