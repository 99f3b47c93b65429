----------------------------- MODULE PlanProofs -----------------------------
(***************************************************************************)
(* What Plan.tla is proved to keep, for every set of models, macro slots,  *)
(* buttons, batches and pads, and that it implements PadPromise.tla.       *)
(*                                                                         *)
(* The argument: a packed model renumbers its macros after every edit, so  *)
(* the edits of a job are followed one by one.  Puts from the lowest macro *)
(* slot find nothing missing below them or go last, deletes from the       *)
(* highest find nothing missing below them, so each finds the macro that   *)
(* was read in its slot and together they leave what all made at once      *)
(* leave (PackedChain, by the least edit that would not).  The same of a   *)
(* slotted model (SlottedChain).  Then each kind of job shows in its slot  *)
(* what it was asked for, every planned job has a slot of its own, and a   *)
(* slot no job is for is as it was read, so that Write shows the whole     *)
(* batch at once and no other step shows anything.                         *)
(***************************************************************************)
EXTENDS Cli, FunctionTheorems, FiniteSetTheorems, WellFoundedInduction, TLAPS

-------------------------------------------------------------------------------
(***************************************************************************)
(* Orders of numbers.  A set of numbers that is not empty has a least one, *)
(* hence a finite set of macro slots can be put in order, and in one way.  *)
(***************************************************************************)
\* A set of numbers that is not empty has a least one.
LEMMA LeastNumber ==
  ASSUME NEW T \in SUBSET Nat, T # {}
  PROVE  \E n \in T : \A m \in T : n <= m
<1>1. IsWellFoundedOn(OpToRel(<, Nat), Nat)
  BY NatLessThanWellFounded
<1>2. PICK n \in T : \A m \in T : ~(<<m, n>> \in OpToRel(<, Nat))
  BY <1>1, WFMin
<1>3. \A m \in T : ~(m < n)
  BY <1>2 DEF OpToRel
<1> QED
  BY <1>3

\* ... and, when it is bounded, a greatest one.
LEMMA GreatestNumber ==
  ASSUME NEW b \in Nat, NEW T \in SUBSET (0..b), T # {}
  PROVE  \E n \in T : \A m \in T : m <= n
<1> DEFINE D == {k \in Nat : \E m \in T : k = b - m}
<1>1. \A m \in T : b - m \in D
  OBVIOUS
<1>2. PICK d \in D : \A k \in D : d <= k
  BY <1>1, LeastNumber
<1>3. PICK n \in T : d = b - n
  BY <1>2
<1>4. \A m \in T : d <= b - m
  BY <1>1, <1>2
<1> QED
  BY <1>3, <1>4

\* An increasing sequence of the members of S.
Sorted(S, q) == /\ q \in [1..Cardinality(S) -> S]
                /\ \A i, j \in DOMAIN q : i < j => q[i] < q[j]

\* A set of numbers has an order: the greatest one goes last.
LEMMA SortedExists ==
  ASSUME NEW b \in Nat, NEW S \in SUBSET (0..b)
  PROVE  \E q : Sorted(S, q)
<1> DEFINE Bad == {k \in Nat : \E T \in SUBSET (0..b) : Cardinality(T) = k /\ ~\E q : Sorted(T, q)}
<1>0. \A T \in SUBSET (0..b) : IsFiniteSet(T) /\ Cardinality(T) \in Nat
  <2> SUFFICES ASSUME NEW T \in SUBSET (0..b)
                PROVE  IsFiniteSet(T) /\ Cardinality(T) \in Nat
    OBVIOUS
  <2>0. 0 \in Int /\ b \in Int
    OBVIOUS
  <2>1. IsFiniteSet(0..b)
    BY <2>0, FS_Interval
  <2>2. IsFiniteSet(T)
    BY <2>1, FS_Subset
  <2> QED
    BY <2>2, FS_CardinalityType
<1> SUFFICES ASSUME Bad # {} PROVE FALSE
  BY <1>0
<1>1. PICK k \in Bad : \A l \in Bad : k <= l
  BY LeastNumber
<1>2. PICK T \in SUBSET (0..b) : Cardinality(T) = k /\ ~\E q : Sorted(T, q)
  BY <1>1
<1>3. T # {}
  <2> SUFFICES ASSUME T = {} PROVE FALSE
    OBVIOUS
  <2>1. Cardinality(T) = 0
    BY FS_EmptySet
  <2>2. <<>> \in [1..0 -> T]
    OBVIOUS
  <2>3. Sorted(T, <<>>)
    BY <2>1, <2>2 DEF Sorted
  <2> QED
    BY <1>2, <2>3
<1>4. PICK g \in T : \A m \in T : m <= g
  BY <1>3, GreatestNumber
<1> DEFINE U == T \ {g}
<1>5. IsFiniteSet(T) /\ Cardinality(T) \in Nat /\ Cardinality(U) = Cardinality(T) - 1
      /\ Cardinality(U) \in Nat
  <2>1. IsFiniteSet(T)
    BY <1>0
  <2>2. Cardinality(U) = Cardinality(T) - 1
    BY <2>1, FS_RemoveElement
  <2> QED
    BY <1>0, <2>1, <2>2
<1>6. Cardinality(U) \notin Bad
  <2>1. ~(k <= Cardinality(U))
    BY <1>2, <1>5
  <2> QED
    BY <1>1, <2>1
<1>7. PICK r : Sorted(U, r)
  BY <1>5, <1>6
<1> DEFINE n == Cardinality(U)
           q == [i \in 1..n + 1 |-> IF i = n + 1 THEN g ELSE r[i]]
<1>8. n \in Nat /\ Cardinality(T) = n + 1 /\ r \in [1..n -> U]
      /\ \A i, j \in 1..n : i < j => r[i] < r[j]
  <2>1. n \in Nat /\ n = Cardinality(T) - 1 /\ Cardinality(T) \in Nat
    BY <1>5
  <2>2. r \in [1..n -> U] /\ \A i, j \in DOMAIN r : i < j => r[i] < r[j]
    BY <1>7 DEF Sorted
  <2>3. DOMAIN r = 1..n
    BY <2>2
  <2>4. Cardinality(T) = n + 1
    <3> HIDE DEF n
    <3> QED
      BY <2>1
  <2> HIDE DEF n, U
  <2>5. \A i, j \in 1..n : i < j => r[i] < r[j]
    BY <2>2, <2>3
  <2> QED
    BY <2>1, <2>2, <2>4, <2>5
<1> HIDE DEF n, U
<1>9. \A i \in 1..n : r[i] \in T /\ r[i] # g
  BY <1>8 DEF U
<1>10. q \in [1..n + 1 -> T]
  BY <1>8, <1>9
<1>11. \A i, j \in 1..n + 1 : i < j => q[i] < q[j]
  <2> SUFFICES ASSUME NEW i \in 1..n + 1, NEW j \in 1..n + 1, i < j PROVE q[i] < q[j]
    OBVIOUS
  <2>1. i \in 1..n /\ q[i] = r[i]
    BY <1>8
  <2>2. CASE j = n + 1
    <3>1. r[i] <= g /\ r[i] \in 0..b /\ g \in 0..b
      BY <1>4, <1>9, <2>1
    <3> QED
      BY <1>9, <2>1, <2>2, <3>1
  <2>3. CASE j # n + 1
    <3>1. j \in 1..n
      BY <1>8, <2>3
    <3> QED
      BY <1>8, <2>1, <2>3, <3>1
  <2> QED
    BY <2>2, <2>3
<1>12. Sorted(T, q)
  BY <1>8, <1>10, <1>11 DEF Sorted
<1> QED
  BY <1>2, <1>12

\* Macro slots of a model that has b, and the order of some of them.
Upto(b, S) == b \in Nat /\ S \subseteq 1..b
Enum(S, c, e) == /\ c \in Nat /\ e \in [1..c -> S]
                 /\ \A i, j \in 1..c : i < j => e[i] < e[j]
                 /\ \A x \in S : \E i \in 1..c : e[i] = x

\* A set of macro slots is finite, and no larger than their number.
LEMMA SlotsFinite ==
  ASSUME NEW b, NEW S, Upto(b, S)
  PROVE  IsFiniteSet(S) /\ Cardinality(S) \in Nat /\ Cardinality(S) <= b
<1>0. 1 \in Int /\ b \in Int /\ b \in Nat /\ S \in SUBSET (1..b)
  BY DEF Upto
<1>1. IsFiniteSet(1..b) /\ Cardinality(1..b) = IF 1 > b THEN 0 ELSE b - 1 + 1
  BY <1>0, FS_Interval
<1>2. IsFiniteSet(S) /\ Cardinality(S) <= Cardinality(1..b)
  BY <1>0, <1>1, FS_Subset
<1>3. Cardinality(S) \in Nat
  BY <1>2, FS_CardinalityType
<1>4. Cardinality(1..b) = b
  BY <1>0, <1>1
<1> QED
  BY <1>2, <1>3, <1>4

\* As many different ones as S has are all of S.
Different(n, q) == \A i, j \in 1..n : q[i] = q[j] => i = j
\* A sequence of different members, as many as the set has, has them all.
LEMMA SortedIsOnto ==
  ASSUME NEW S, IsFiniteSet(S), NEW n \in Nat, n = Cardinality(S), NEW q \in [1..n -> S],
         Different(n, q)
  PROVE  \A x \in S : \E i \in 1..n : q[i] = x
<1>1. q \in Injection(1..n, S)
  BY Fun_IsInj DEF Different
<1>2. 1 \in Int /\ n \in Int
  OBVIOUS
<1>3. Cardinality(1..n) = IF 1 > n THEN 0 ELSE n - 1 + 1
  BY <1>2, FS_Interval
<1>4. Cardinality(1..n) = Cardinality(S)
  BY <1>3
<1>5. q \in Surjection(1..n, S)
  BY <1>1, <1>4, FS_Injection
<1> QED
  BY <1>5, Fun_SurjectionProperties

\* An increasing sequence that has all of S is the order of S.
LEMMA InOrderIs ==
  ASSUME NEW b, NEW S, Upto(b, S), NEW c, NEW e, Enum(S, c, e)
  PROVE  Cardinality(S) = c /\ InOrder(S) = e
<1>00. /\ c \in Nat /\ e \in [1..c -> S] /\ \A x \in S : \E i \in 1..c : e[i] = x
       /\ \A i, j \in 1..c : i < j => e[i] < e[j]
  BY DEF Enum
<1>01. b \in Nat /\ S \in SUBSET (1..b)
  BY DEF Upto
<1>0. \A i \in 1..c : e[i] \in 1..b
  BY <1>00, <1>01
<1>1. \A i, j \in 1..c : e[i] = e[j] => i = j
  <2> SUFFICES ASSUME NEW i \in 1..c, NEW j \in 1..c, e[i] = e[j], i # j PROVE FALSE
    OBVIOUS
  <2>1. i < j \/ j < i
    BY <1>00
  <2> QED
    BY <1>0, <1>00, <2>1
<1>2. Cardinality(S) = c
  <2>1. e \in Bijection(1..c, S)
    <3>1. e \in Injection(1..c, S)
      BY <1>00, <1>1, Fun_IsInj
    <3>2. e \in Surjection(1..c, S)
      BY <1>00, Fun_IsSurj
    <3> QED
      BY <3>1, <3>2 DEF Bijection
  <2>2. ExistsBijection(1..c, S)
    BY <2>1, Fun_ExistsBij
  <2> QED
    BY <1>00, <2>2, FS_CountingElements
<1>3. PICK q \in [1..c -> S] : q = InOrder(S) /\ \A i, j \in 1..c : i < j => q[i] < q[j]
  <2>1. \A f \in [1..c -> S] : DOMAIN f = 1..c
    OBVIOUS
  <2>2. \E f \in [1..Cardinality(S) -> S] : \A i, j \in DOMAIN f : i < j => f[i] < f[j]
    BY <1>00, <1>2, <2>1
  <2> DEFINE q == InOrder(S)
  <2>3. q \in [1..Cardinality(S) -> S] /\ \A i, j \in DOMAIN q : i < j => q[i] < q[j]
    BY <2>2, Zenon DEF InOrder
  <2>4. q \in [1..c -> S]
    BY <1>2, <2>3
  <2> HIDE DEF q
  <2> QED
    BY <2>1, <2>3, <2>4 DEF q
<1>4. \A i \in 1..c : q[i] \in 1..b
  BY <1>01, <1>3
<1>5. \A i, j \in 1..c : q[i] = q[j] => i = j
  <2> SUFFICES ASSUME NEW i \in 1..c, NEW j \in 1..c, q[i] = q[j], i # j PROVE FALSE
    OBVIOUS
  <2>1. i < j \/ j < i
    OBVIOUS
  <2>2. q[i] < q[j] \/ q[j] < q[i]
    BY <1>3, <2>1
  <2>3. q[i] \in Int
    BY <1>4
  <2> QED
    BY <2>2, <2>3
<1>6. \A x \in S : \E i \in 1..c : q[i] = x
  <2>1. IsFiniteSet(S)
    BY SlotsFinite
  <2>2. c = Cardinality(S)
    BY <1>2, Zenon
  <2>3. q \in [1..c -> S]
    BY <1>3, Zenon
  <2> QED
    <3>1. Different(c, q) /\ c \in Nat
      BY <1>00, <1>5 DEF Different
    <3> QED
      BY <2>1, <2>2, <2>3, <3>1, SortedIsOnto
<1> DEFINE D == {i \in 1..c : q[i] # e[i]}
<1>7. D = {}
  <2> SUFFICES ASSUME D # {} PROVE FALSE
    OBVIOUS
  <2>1. PICK i \in D : \A j \in D : i <= j
    <3>1. D \in SUBSET Nat
      OBVIOUS
    <3> QED
      BY <3>1, LeastNumber
  <2>2. i \in 1..c /\ q[i] # e[i] /\ \A j \in 1..c : j < i => q[j] = e[j]
    BY <1>00, <2>1
  <2>3. PICK j \in 1..c : q[j] = e[i]
    <3>1. e[i] \in S
      BY <1>00, <2>2
    <3> QED
      BY <1>6, <3>1
  <2>4. PICK k \in 1..c : e[k] = q[i]
    <3>1. q[i] \in S
      BY <1>3, <2>2
    <3> QED
      BY <1>00, <3>1
  <2>5. j # i /\ k # i
    BY <2>2, <2>3, <2>4
  <2>6. ~(j < i)
    BY <1>1, <2>2, <2>3
  <2>7. ~(k < i)
    BY <1>5, <2>2, <2>4
  <2>8. i < j /\ i < k
    <3>1. i \in Int /\ j \in Int /\ k \in Int
      BY <1>00, <2>2
    <3> QED
      BY <2>5, <2>6, <2>7, <3>1
  <2>9. q[i] < e[i] /\ e[i] < q[i]
    <3>1. q[i] < q[j]
      BY <1>3, <2>2, <2>3, <2>8
    <3>2. e[i] < e[k]
      BY <1>00, <2>2, <2>4, <2>8
    <3> QED
      BY <2>3, <2>4, <3>1, <3>2
  <2>10. q[i] \in Int /\ e[i] \in Int
    BY <1>0, <1>01, <1>4, <2>2
  <2> QED
    BY <2>9, <2>10
<1>8. q = e
  <2>1. \A i \in 1..c : q[i] = e[i]
    BY <1>7
  <2>2. q \in [1..c -> S] /\ e \in [1..c -> S]
    BY <1>00, <1>3, Zenon
  <2>3. q = [i \in 1..c |-> q[i]] /\ e = [i \in 1..c |-> e[i]]
    BY <2>2, Zenon
  <2>4. [i \in 1..c |-> q[i]] = [i \in 1..c |-> e[i]]
    BY <2>1, Zenon
  <2> QED
    BY <2>3, <2>4, Zenon
<1> QED
  BY <1>2, <1>3, <1>8

\* Every set of macro slots has an order.
LEMMA InOrderSorts ==
  ASSUME NEW b, NEW S, Upto(b, S)
  PROVE  Enum(S, Cardinality(S), InOrder(S)) /\ Cardinality(S) \in 0..b
<1>0. b \in Nat /\ S \in SUBSET (1..b) /\ S \in SUBSET (0..b)
  BY DEF Upto
<1>1. PICK c : c = Cardinality(S)
  OBVIOUS
<1>2. IsFiniteSet(S) /\ c \in Nat /\ c <= b
  BY <1>1, SlotsFinite
<1>3. PICK q : Sorted(S, q)
  BY <1>0, SortedExists
<1>4. q \in [1..c -> S] /\ \A i, j \in 1..c : i < j => q[i] < q[j]
  <2>1. DOMAIN q = 1..c
    BY <1>1, <1>3 DEF Sorted
  <2> QED
    BY <1>1, <1>3, <2>1 DEF Sorted
<1>5. \A i, j \in 1..c : q[i] = q[j] => i = j
  <2> SUFFICES ASSUME NEW i \in 1..c, NEW j \in 1..c, q[i] = q[j], i # j PROVE FALSE
    OBVIOUS
  <2>1. i < j \/ j < i
    BY <1>2
  <2>2. q[i] \in 1..b /\ q[j] \in 1..b
    BY <1>0, <1>4
  <2> QED
    BY <1>4, <2>1, <2>2
<1>6. \A x \in S : \E i \in 1..c : q[i] = x
  <2>1. Different(c, q)
    BY <1>5 DEF Different
  <2>2. IsFiniteSet(S) /\ c \in Nat /\ q \in [1..c -> S]
    BY <1>2, <1>4
  <2> QED
    BY <1>1, <2>1, <2>2, SortedIsOnto
<1>7. Enum(S, c, q)
  BY <1>2, <1>4, <1>6 DEF Enum
<1>8. InOrder(S) = q
  BY <1>7, InOrderIs
<1> QED
  BY <1>0, <1>1, <1>2, <1>7, <1>8

-------------------------------------------------------------------------------
(***************************************************************************)
(* Macros without gaps.                                                    *)
(***************************************************************************)
LEMMA EncodedTwice ==
  ASSUME NEW m \in Macro
  PROVE  Encoded(m) \in Macro /\ Encoded(Encoded(m)) = Encoded(m)
BY DEF Macro, Encoded

\* What packing leaves, given the macro slots in use from the lowest.
LEMMA PackIs ==
  ASSUME NEW b, NEW A, Upto(b, DOMAIN A), NEW c, NEW e, Enum(DOMAIN A, c, e)
  PROVE  /\ Pack(A) = [k \in 1..c |-> A[e[k]]]
         /\ Records(A) = [k \in 1..c |-> Encoded(A[e[k]])]
<1>1. InOrder(DOMAIN A) = e
  BY InOrderIs
<1>2. Pack(A) = [k \in 1..c |-> A[e[k]]]
  <2>1. DOMAIN e = 1..c
    BY DEF Enum
  <2> QED
    BY <1>1, <2>1, Zenon DEF Pack
<1>3. Records(A) = [k \in 1..c |-> Encoded(A[e[k]])]
  <2> DEFINE p == Pack(A)
  <2>1. DOMAIN p = 1..c /\ \A k \in 1..c : p[k] = A[e[k]]
    BY <1>2
  <2>2. Records(A) = [k \in DOMAIN p |-> Encoded(p[k])]
    BY Zenon DEF Records
  <2> HIDE DEF p
  <2> QED
    BY <2>1, <2>2
<1> QED
  BY <1>2, <1>3

\* The lowest macro slots that are all taken are in their places.
LEMMA Prefix ==
  ASSUME NEW b, NEW D, Upto(b, D), NEW n \in 0..b, 1..n \subseteq D, NEW c, NEW e, Enum(D, c, e)
  PROVE  n <= c /\ \A i \in 1..n : e[i] = i
<1>0. b \in Nat /\ D \subseteq 1..b /\ n \in Nat /\ c \in Nat /\ e \in [1..c -> D]
  BY DEF Upto, Enum
<1>00. /\ \A i, j \in 1..c : i < j => e[i] < e[j]
       /\ \A x \in D : \E i \in 1..c : e[i] = x
  BY DEF Enum
<1>1. n <= c
  <2>1. Cardinality(D) = c
    BY InOrderIs
  <2>2. IsFiniteSet(D)
    BY SlotsFinite
  <2>3. 1 \in Int /\ n \in Int
    BY <1>0
  <2>4. IsFiniteSet(1..n) /\ Cardinality(1..n) = IF 1 > n THEN 0 ELSE n - 1 + 1
    BY <2>3, FS_Interval
  <2>5. Cardinality(1..n) = n
    BY <1>0, <2>4
  <2>6. Cardinality(1..n) <= Cardinality(D)
    BY <2>2, FS_Subset
  <2> QED
    BY <2>1, <2>5, <2>6
<1> DEFINE T == {i \in 1..n : e[i] # i}
<1>2. T = {}
  <2> SUFFICES ASSUME T # {} PROVE FALSE
    OBVIOUS
  <2>1. T \in SUBSET Nat
    BY <1>0
  <2>2. PICK i \in T : \A j \in T : i <= j
    BY <2>1, LeastNumber
  <2>3. i \in 1..n /\ e[i] # i /\ i \in 1..c /\ i \in D /\ i \in Nat
    BY <1>0, <1>1, <2>2
  <2>4. \A j \in 1..n : j < i => e[j] = j
    BY <1>0, <2>2
  <2>5. PICK j \in 1..c : e[j] = i
    BY <1>00, <2>3
  <2>6. ~(j < i)
    <3>1. j < i => j \in 1..n
      BY <1>0, <2>3, <2>5
    <3>2. j < i => e[j] = j
      BY <2>4, <3>1
    <3> QED
      BY <1>0, <2>3, <2>5, <3>2
  <2>7. i < j
    BY <1>0, <2>3, <2>5, <2>6
  <2>8. e[i] < i
    BY <1>00, <2>3, <2>5, <2>7
  <2>9. e[i] \in 1..b
    BY <1>0, <2>3
  <2>10. e[i] \in 1..n /\ e[i] \in 1..c
    BY <1>0, <2>3, <2>8, <2>9
  <2>11. e[e[i]] = e[i]
    BY <2>4, <2>8, <2>10
  <2>12. e[e[i]] < e[i]
    BY <1>00, <2>3, <2>8, <2>10
  <2> QED
    BY <2>9, <2>11, <2>12
<1> QED
  BY <1>1, <1>2

\* What an edit of packed macros does to the macros as they are by macro slot: a put on a
\* macro that nothing below is missing of, a put above all, a delete with nothing missing.
LEMMA PutInPlace ==
  ASSUME NEW b, NEW D, Upto(b, D), NEW A \in [D -> Macro],
         NEW n \in 1..b, NEW mac \in Macro, mac # Zeroed, 1..n \subseteq D
  PROVE  Records(With(Records(A), n, mac)) = Records(With(A, n, mac))
<1>0. DOMAIN A = D /\ b \in Nat /\ n \in 0..b /\ n \in 1..n /\ n \in Nat
  BY DEF Upto
<1>1. PICK c, e : c = Cardinality(D) /\ e = InOrder(D)
  OBVIOUS
<1>2. Enum(D, c, e)
  BY <1>1, InOrderSorts
<1>3. c \in 0..b /\ Upto(b, 1..c) /\ c \in Nat
  <2>1. c \in 0..b
    BY <1>1, InOrderSorts
  <2> QED
    BY <1>0, <2>1 DEF Upto
<1>4. n <= c /\ \A i \in 1..n : e[i] = i
  BY <1>0, <1>2, Prefix
<1>5. n \in 1..c
  BY <1>0, <1>3, <1>4
<1>55. /\ e \in [1..c -> D] /\ \A i, j \in 1..c : i < j => e[i] < e[j]
       /\ Records(A) = [k \in 1..c |-> Encoded(A[e[k]])]
  <2>1. Records(A) = [k \in 1..c |-> Encoded(A[e[k]])]
    BY <1>0, <1>2, PackIs
  <2> QED
    BY <1>2, <2>1 DEF Enum
<1> DEFINE W == With(Records(A), n, mac)
           V == With(A, n, mac)
           f == [i \in 1..c |-> i]
<1>6. DOMAIN W = 1..c /\ DOMAIN V = D
  <2>1. DOMAIN Records(A) = 1..c
    BY <1>55
  <2>2. (1..c \ {n}) \cup {n} = 1..c /\ (D \ {n}) \cup {n} = D
    BY <1>0, <1>5
  <2>3. DOMAIN W = (1..c \ {n}) \cup {n}
    BY <2>1, Zenon DEF With
  <2>4. DOMAIN V = (D \ {n}) \cup {n}
    BY <1>0, Zenon DEF With
  <2> QED
    BY <2>2, <2>3, <2>4
<1>7. Records(W) = [k \in 1..c |-> Encoded(W[f[k]])]
  <2>1. Enum(1..c, c, f)
    BY <1>3 DEF Enum
  <2> HIDE DEF f, W
  <2> QED
    BY <1>3, <1>6, <2>1, PackIs
<1>8. Records(V) = [k \in 1..c |-> Encoded(V[e[k]])]
  <2> HIDE DEF V
  <2> QED
    BY <1>2, <1>6, PackIs
<1>9. \A k \in 1..c : Encoded(W[f[k]]) = Encoded(V[e[k]])
  <2> TAKE k \in 1..c
  <2>1. (e[k] = n) <=> (k = n)
    <3>1. e[n] = n
      BY <1>0, <1>4
    <3>2. k # n => k < n \/ n < k
      BY <1>0, <1>3
    <3>3. k # n => e[k] < e[n] \/ e[n] < e[k]
      <4>1. n \in 1..c /\ k \in 1..c
        BY <1>5
      <4> QED
        BY <1>55, <3>2, <4>1
    <3>4. e[k] \in 1..b
      BY <1>55 DEF Upto
    <3> QED
      BY <3>1, <3>3, <3>4
  <2>2. DOMAIN W = 1..c /\ DOMAIN V = D /\ e[k] \in D /\ f[k] = k
    BY <1>55, <1>6
  <2>3. W[k] = IF k = n THEN mac ELSE Records(A)[k]
    BY <2>2 DEF With
  <2>4. V[e[k]] = IF e[k] = n THEN mac ELSE A[e[k]]
    BY <2>2 DEF With
  <2>5. Records(A)[k] = Encoded(A[e[k]])
    BY <1>55
  <2>6. Encoded(Encoded(A[e[k]])) = Encoded(A[e[k]])
    BY <2>2, EncodedTwice
  <2> HIDE DEF W, V, f
  <2>7. CASE k = n
    BY <2>1, <2>2, <2>3, <2>4, <2>7
  <2>8. CASE k # n
    BY <2>1, <2>2, <2>3, <2>4, <2>5, <2>6, <2>8
  <2> QED
    BY <2>7, <2>8
<1> HIDE DEF W, V
<1> QED
  BY <1>7, <1>8, <1>9 DEF W, V

\* ... nor does packing before a put behind all others.
LEMMA PutLast ==
  ASSUME NEW b, NEW D, Upto(b, D), NEW A \in [D -> Macro],
         NEW n \in 1..b, NEW mac \in Macro, mac # Zeroed, \A x \in D : x < n
  PROVE  Records(With(Records(A), n, mac)) = Records(With(A, n, mac))
<1>0. DOMAIN A = D /\ b \in Nat /\ D \subseteq 1..b /\ n \in Nat /\ n >= 1 /\ n <= b
  BY DEF Upto
<1>1. PICK c, e : c = Cardinality(D) /\ e = InOrder(D)
  OBVIOUS
<1>2. Enum(D, c, e)
  BY <1>1, InOrderSorts
<1>3. c \in 0..(n - 1)
  <2>1. D \subseteq 1..(n - 1) /\ n - 1 \in Nat
    BY <1>0
  <2>2. Upto(n - 1, D)
    BY <2>1 DEF Upto
  <2> QED
    BY <1>1, <2>2, InOrderSorts
<1>4. c \in Nat /\ c < n /\ c + 1 \in Nat /\ c + 1 <= b
  BY <1>0, <1>3
<1>5. /\ e \in [1..c -> D] /\ \A i, j \in 1..c : i < j => e[i] < e[j]
      /\ \A x \in D : \E i \in 1..c : e[i] = x
  BY <1>2 DEF Enum
<1>6. Records(A) = [k \in 1..c |-> Encoded(A[e[k]])]
  BY <1>0, <1>2, PackIs
<1> DEFINE W == With(Records(A), n, mac)
           V == With(A, n, mac)
           f == [i \in 1..(c + 1) |-> IF i = c + 1 THEN n ELSE i]
           g == [i \in 1..(c + 1) |-> IF i = c + 1 THEN n ELSE e[i]]
<1>7. DOMAIN W = 1..c \cup {n} /\ DOMAIN V = D \cup {n}
  <2>1. DOMAIN Records(A) = 1..c
    BY <1>6
  <2>2. DOMAIN W = (1..c \ {n}) \cup {n}
    BY <2>1, Zenon DEF With
  <2>3. DOMAIN V = (D \ {n}) \cup {n}
    BY <1>0, Zenon DEF With
  <2> QED
    BY <2>2, <2>3
<1>8. Upto(b, 1..c \cup {n}) /\ Upto(b, D \cup {n})
  BY <1>0, <1>4 DEF Upto
<1>9. Enum(1..c \cup {n}, c + 1, f)
  <2>1. f \in [1..(c + 1) -> 1..c \cup {n}]
    BY <1>4
  <2>2. \A i, j \in 1..(c + 1) : i < j => f[i] < f[j]
    BY <1>4
  <2>3. \A x \in 1..c \cup {n} : \E i \in 1..(c + 1) : f[i] = x
    <3> TAKE x \in 1..c \cup {n}
    <3>1. CASE x = n
      <4>1. c + 1 \in 1..(c + 1) /\ f[c + 1] = x
        BY <1>4, <3>1
      <4> QED
        BY <4>1
    <3>2. CASE x # n
      <4>1. x \in 1..(c + 1) /\ f[x] = x
        BY <1>4, <3>2
      <4> QED
        BY <4>1
    <3> QED
      BY <3>1, <3>2
  <2> HIDE DEF f
  <2> QED
    BY <1>4, <2>1, <2>2, <2>3 DEF Enum
<1>10. Enum(D \cup {n}, c + 1, g)
  <2>0. \A i \in 1..(c + 1) : i # c + 1 => i \in 1..c
    BY <1>4
  <2>1. g \in [1..(c + 1) -> D \cup {n}]
    <3> SUFFICES ASSUME NEW i \in 1..(c + 1) PROVE g[i] \in D \cup {n}
      OBVIOUS
    <3> QED
      BY <1>5, <2>0
  <2>2. \A i, j \in 1..(c + 1) : i < j => g[i] < g[j]
    <3> SUFFICES ASSUME NEW i \in 1..(c + 1), NEW j \in 1..(c + 1), i < j PROVE g[i] < g[j]
      OBVIOUS
    <3>1. i # c + 1 /\ i \in 1..c /\ g[i] = e[i] /\ e[i] \in D
      BY <1>4, <1>5
    <3>2. CASE j = c + 1
      BY <3>1, <3>2
    <3>3. CASE j # c + 1
      <4>1. j \in 1..c /\ g[j] = e[j]
        BY <2>0, <3>3
      <4>2. e[i] < e[j]
        BY <1>5, <3>1, <4>1
      <4> QED
        BY <3>1, <4>1, <4>2
    <3> QED
      BY <3>2, <3>3
  <2>3. \A x \in D \cup {n} : \E i \in 1..(c + 1) : g[i] = x
    <3> TAKE x \in D \cup {n}
    <3>1. CASE x = n
      <4>1. c + 1 \in 1..(c + 1) /\ g[c + 1] = x
        BY <1>4, <3>1
      <4> QED
        BY <4>1
    <3>2. CASE x # n
      <4>1. PICK i \in 1..c : e[i] = x
        BY <1>5, <3>2
      <4>2. i \in 1..(c + 1) /\ i # c + 1
        BY <1>4
      <4> QED
        BY <4>1, <4>2
    <3> QED
      BY <3>1, <3>2
  <2> HIDE DEF g
  <2> QED
    BY <1>4, <2>1, <2>2, <2>3 DEF Enum
<1>11. Records(W) = [k \in 1..(c + 1) |-> Encoded(W[f[k]])]
  <2> HIDE DEF f, W
  <2> QED
    BY <1>7, <1>8, <1>9, PackIs
<1>12. Records(V) = [k \in 1..(c + 1) |-> Encoded(V[g[k]])]
  <2> HIDE DEF g, V
  <2> QED
    BY <1>7, <1>8, <1>10, PackIs
<1>13. \A k \in 1..(c + 1) : Encoded(W[f[k]]) = Encoded(V[g[k]])
  <2> TAKE k \in 1..(c + 1)
  <2>0. n \in DOMAIN W /\ n \in DOMAIN V
    BY <1>7
  <2>1. CASE k = c + 1
    <3>1. f[k] = n /\ g[k] = n
      BY <2>1
    <3>2. W[n] = mac /\ V[n] = mac
      BY <2>0 DEF With
    <3> HIDE DEF W, V, f, g
    <3> QED
      BY <3>1, <3>2
  <2>2. CASE k # c + 1
    <3>1. k \in 1..c /\ k # n
      BY <1>4, <2>2
    <3>2. f[k] = k /\ g[k] = e[k] /\ e[k] \in D /\ e[k] # n
      <4>1. e[k] \in D
        BY <1>5, <3>1
      <4>2. e[k] # n
        BY <1>0, <4>1
      <4> QED
        BY <2>2, <4>1, <4>2
    <3>3. k \in DOMAIN W /\ e[k] \in DOMAIN V
      BY <1>7, <3>1, <3>2
    <3>4. W[k] = Records(A)[k]
      BY <3>1, <3>3 DEF With
    <3>5. V[e[k]] = A[e[k]]
      BY <3>2, <3>3 DEF With
    <3>6. Records(A)[k] = Encoded(A[e[k]])
      BY <1>6, <3>1
    <3>7. Encoded(Encoded(A[e[k]])) = Encoded(A[e[k]])
      BY <3>2, EncodedTwice
    <3> HIDE DEF W, V, f, g
    <3> QED
      BY <3>2, <3>4, <3>5, <3>6, <3>7
  <2> QED
    BY <2>1, <2>2
<1> HIDE DEF W, V
<1> QED
  BY <1>11, <1>12, <1>13 DEF W, V

\* ... nor before a delete with no gap below it.
LEMMA DeletePacked ==
  ASSUME NEW b, NEW D, Upto(b, D), NEW A \in [D -> Macro], NEW n \in 1..b, 1..n \subseteq D
  PROVE  Records(With(Records(A), n, Zeroed)) = Records(With(A, n, Zeroed))
<1>0. DOMAIN A = D /\ b \in Nat /\ D \subseteq 1..b /\ n \in Nat /\ n >= 1 /\ n <= b /\ n \in 0..b
      /\ n \in 1..n
  BY DEF Upto
<1>1. PICK c, e : c = Cardinality(D) /\ e = InOrder(D)
  OBVIOUS
<1>2. Enum(D, c, e)
  BY <1>1, InOrderSorts
<1>3. c \in Nat /\ c <= b
  <2>1. c \in 0..b
    BY <1>1, InOrderSorts
  <2> QED
    BY <1>0, <2>1
<1>4. n <= c /\ \A i \in 1..n : e[i] = i
  BY <1>0, <1>2, Prefix
<1>5. /\ e \in [1..c -> D] /\ \A i, j \in 1..c : i < j => e[i] < e[j]
      /\ \A x \in D : \E i \in 1..c : e[i] = x
  BY <1>2 DEF Enum
<1>6. Records(A) = [k \in 1..c |-> Encoded(A[e[k]])]
  BY <1>0, <1>2, PackIs
<1> DEFINE W == With(Records(A), n, Zeroed)
           V == With(A, n, Zeroed)
           over(i) == IF i < n THEN i ELSE i + 1
           f == [i \in 1..(c - 1) |-> over(i)]
           g == [i \in 1..(c - 1) |-> e[over(i)]]
<1>7. DOMAIN W = 1..c \ {n} /\ DOMAIN V = D \ {n}
  <2>1. DOMAIN Records(A) = 1..c
    BY <1>6
  <2>2. DOMAIN W = (1..c \ {n}) \cup {}
    BY <2>1, Zenon DEF With
  <2>3. DOMAIN V = (D \ {n}) \cup {}
    BY <1>0, Zenon DEF With
  <2> QED
    BY <2>2, <2>3
<1>8. Upto(b, 1..c \ {n}) /\ Upto(b, D \ {n})
  BY <1>0, <1>3 DEF Upto
<1>9. c - 1 \in Nat
  BY <1>0, <1>3, <1>4
<1>10. \A i \in 1..(c - 1) : over(i) \in 1..c /\ over(i) # n
  BY <1>0, <1>3, <1>4
<1>11. \A i, j \in 1..(c - 1) : i < j => over(i) < over(j)
  BY <1>0, <1>3
<1>12. \A x \in 1..c : x # n => \E i \in 1..(c - 1) : over(i) = x
  <2> SUFFICES ASSUME NEW x \in 1..c, x # n PROVE \E i \in 1..(c - 1) : over(i) = x
    OBVIOUS
  <2>1. CASE x < n
    <3>1. x \in 1..(c - 1) /\ over(x) = x
      BY <1>0, <1>3, <1>4, <2>1
    <3> QED
      BY <3>1
  <2>2. CASE ~(x < n)
    <3>1. x - 1 \in 1..(c - 1) /\ over(x - 1) = x
      BY <1>0, <1>3, <1>4, <2>2
    <3> QED
      BY <3>1
  <2> QED
    BY <2>1, <2>2
<1>13. \A k \in 1..c : e[k] = n => k = n
  <2> SUFFICES ASSUME NEW k \in 1..c, e[k] = n, k # n PROVE FALSE
    OBVIOUS
  <2>1. e[n] = n /\ n \in 1..c
    BY <1>0, <1>3, <1>4
  <2>2. k < n \/ n < k
    BY <1>0, <1>3
  <2>3. e[k] < e[n] \/ e[n] < e[k]
    BY <1>5, <2>1, <2>2
  <2> QED
    BY <1>0, <2>1, <2>3
<1> HIDE DEF over
<1>14. Enum(1..c \ {n}, c - 1, f)
  <2>1. f \in [1..(c - 1) -> 1..c \ {n}]
    BY <1>10
  <2>2. \A i, j \in 1..(c - 1) : i < j => f[i] < f[j]
    BY <1>11
  <2>3. \A x \in 1..c \ {n} : \E i \in 1..(c - 1) : f[i] = x
    <3> TAKE x \in 1..c \ {n}
    <3>1. PICK i \in 1..(c - 1) : over(i) = x
      BY <1>12
    <3> QED
      BY <3>1
  <2> HIDE DEF f
  <2> QED
    BY <1>9, <2>1, <2>2, <2>3 DEF Enum
<1>15. Enum(D \ {n}, c - 1, g)
  <2>1. g \in [1..(c - 1) -> D \ {n}]
    <3> SUFFICES ASSUME NEW i \in 1..(c - 1) PROVE e[over(i)] \in D /\ e[over(i)] # n
      OBVIOUS
    <3>1. over(i) \in 1..c /\ over(i) # n
      BY <1>10
    <3> QED
      BY <1>5, <1>13, <3>1
  <2>2. \A i, j \in 1..(c - 1) : i < j => g[i] < g[j]
    <3> SUFFICES ASSUME NEW i \in 1..(c - 1), NEW j \in 1..(c - 1), i < j
                 PROVE  e[over(i)] < e[over(j)]
      OBVIOUS
    <3>1. over(i) \in 1..c /\ over(j) \in 1..c /\ over(i) < over(j)
      BY <1>10, <1>11
    <3> QED
      BY <1>5, <3>1
  <2>3. \A x \in D \ {n} : \E i \in 1..(c - 1) : g[i] = x
    <3> TAKE x \in D \ {n}
    <3>1. PICK k \in 1..c : e[k] = x
      BY <1>5
    <3>2. k # n
      BY <1>0, <1>4, <3>1
    <3>3. PICK i \in 1..(c - 1) : over(i) = k
      BY <1>12, <3>2
    <3> QED
      BY <3>1, <3>3
  <2> HIDE DEF g
  <2> QED
    BY <1>9, <2>1, <2>2, <2>3 DEF Enum
<1>16. Records(W) = [k \in 1..(c - 1) |-> Encoded(W[f[k]])]
  <2> HIDE DEF f, W
  <2> QED
    BY <1>7, <1>8, <1>14, PackIs
<1>17. Records(V) = [k \in 1..(c - 1) |-> Encoded(V[g[k]])]
  <2> HIDE DEF g, V
  <2> QED
    BY <1>7, <1>8, <1>15, PackIs
<1>18. \A k \in 1..(c - 1) : Encoded(W[f[k]]) = Encoded(V[g[k]])
  <2> TAKE k \in 1..(c - 1)
  <2>1. over(k) \in 1..c /\ over(k) # n /\ f[k] = over(k) /\ g[k] = e[over(k)]
    BY <1>10
  <2>2. e[over(k)] \in D /\ e[over(k)] # n
    BY <1>5, <1>13, <2>1
  <2>3. over(k) \in DOMAIN W /\ e[over(k)] \in DOMAIN V
    BY <1>7, <2>1, <2>2
  <2>4. W[over(k)] = Records(A)[over(k)]
    BY <2>1, <2>3 DEF With
  <2>5. V[e[over(k)]] = A[e[over(k)]]
    BY <2>2, <2>3 DEF With
  <2>6. Records(A)[over(k)] = Encoded(A[e[over(k)]])
    BY <1>6, <2>1
  <2>7. Encoded(Encoded(A[e[over(k)]])) = Encoded(A[e[over(k)]])
    BY <2>2, EncodedTwice
  <2> HIDE DEF W, V, f, g
  <2> QED
    BY <2>1, <2>4, <2>5, <2>6, <2>7
<1> HIDE DEF W, V
<1> QED
  BY <1>16, <1>17, <1>18 DEF W, V

-------------------------------------------------------------------------------
(***************************************************************************)
(* Edits of different macro slots, in the order they are made.             *)
(***************************************************************************)
EditsOf(b, E) ==
  /\ b \in Nat /\ E \subseteq Edit /\ \A e \in E : e.at \in 1..b
  /\ \A e, f \in E : e.at = f.at => e = f
Arranged(E, m, q) ==
  /\ m \in Nat /\ q \in [1..m -> E]
  /\ \A i, j \in 1..m : i < j => GoesBefore(q[i], q[j])
  /\ \A e \in E : \E i \in 1..m : q[i] = e

\* Ordered puts the edits of a job in the order it is meant to.
LEMMA OrderedIs ==
  ASSUME NEW b, NEW E, EditsOf(b, E)
  PROVE  Arranged(E, Cardinality(E), Ordered(E)) /\ IsFiniteSet(E)
<1>0. /\ b \in Nat /\ E \subseteq Edit /\ \A e \in E : e.at \in 1..b
      /\ \A e, f \in E : e.at = f.at => e = f
  BY DEF EditsOf
<1> DEFINE key(e) == IF e.macro # Zeroed THEN e.at ELSE 2 * b + 1 - e.at
           S == {key(e) : e \in E}
           kf == [e \in E |-> key(e)]
<1>1. \A e, f \in E : /\ key(e) \in 1..(2 * b)
                      /\ key(e) < key(f) => GoesBefore(e, f)
                      /\ key(e) = key(f) => e = f
  <2> SUFFICES ASSUME NEW e \in E, NEW f \in E
               PROVE  /\ key(e) \in 1..(2 * b)
                      /\ key(e) < key(f) => GoesBefore(e, f)
                      /\ key(e) = key(f) => e = f
    OBVIOUS
  <2>1. e.at \in 1..b /\ f.at \in 1..b /\ (e.at = f.at => e = f)
    BY <1>0
  <2>2. CASE e.macro # Zeroed /\ f.macro # Zeroed
    BY <1>0, <2>1, <2>2 DEF GoesBefore
  <2>3. CASE e.macro # Zeroed /\ f.macro = Zeroed
    BY <1>0, <2>1, <2>3 DEF GoesBefore
  <2>4. CASE e.macro = Zeroed /\ f.macro # Zeroed
    BY <1>0, <2>1, <2>4 DEF GoesBefore
  <2>5. CASE e.macro = Zeroed /\ f.macro = Zeroed
    BY <1>0, <2>1, <2>5 DEF GoesBefore
  <2> QED
    BY <2>2, <2>3, <2>4, <2>5
<1> HIDE DEF key
<1>2. Upto(2 * b, S)
  BY <1>0, <1>1 DEF Upto
<1>3. kf \in Bijection(E, S)
  <2>1. kf \in [E -> S] /\ \A x, y \in E : kf[x] = kf[y] => x = y
    BY <1>1
  <2>2. \A t \in S : \E e \in E : kf[e] = t
    OBVIOUS
  <2> HIDE DEF kf, S
  <2>3. kf \in Injection(E, S)
    BY <2>1, Fun_IsInj
  <2>4. kf \in Surjection(E, S)
    BY <2>1, <2>2, Fun_IsSurj
  <2> QED
    BY <2>3, <2>4 DEF Bijection
<1>4. IsFiniteSet(E)
  <2>1. kf \in Injection(E, S)
    BY <1>3 DEF Bijection
  <2>2. IsFiniteSet(S)
    BY <1>2, SlotsFinite
  <2> HIDE DEF kf, S
  <2> QED
    BY <2>1, <2>2, FS_Injection
<1>5. Cardinality(S) = Cardinality(E)
  <2>1. ExistsBijection(E, S)
    BY <1>3, Fun_ExistsBij
  <2> HIDE DEF S
  <2> QED
    BY <1>4, <2>1, FS_Bijection
<1>6. PICK c, r : c = Cardinality(E) /\ Enum(S, c, r)
  <2>1. Enum(S, Cardinality(S), InOrder(S))
    BY <1>2, InOrderSorts
  <2> QED
    BY <1>5, <2>1
<1>7. /\ c \in Nat /\ r \in [1..c -> S]
      /\ \A i, j \in 1..c : i < j => r[i] < r[j]
  BY <1>6 DEF Enum
<1> DEFINE p == [i \in 1..c |-> CHOOSE e \in E : key(e) = r[i]]
<1>8. \A i \in 1..c : p[i] \in E /\ key(p[i]) = r[i]
  <2> SUFFICES ASSUME NEW i \in 1..c PROVE p[i] \in E /\ key(p[i]) = r[i]
    OBVIOUS
  <2>1. r[i] \in S
    BY <1>7
  <2>2. \E e \in E : key(e) = r[i]
    BY <2>1
  <2> QED
    BY <2>2
<1>9. p \in [1..c -> E] /\ \A i, j \in DOMAIN p : i < j => GoesBefore(p[i], p[j])
  <2>1. p \in [1..c -> E] /\ DOMAIN p = 1..c
    BY <1>8
  <2>2. \A i, j \in 1..c : i < j => GoesBefore(p[i], p[j])
    <3> SUFFICES ASSUME NEW i \in 1..c, NEW j \in 1..c, i < j PROVE GoesBefore(p[i], p[j])
      OBVIOUS
    <3>1. key(p[i]) < key(p[j])
      BY <1>7, <1>8
    <3>2. p[i] \in E /\ p[j] \in E
      BY <1>8
    <3> QED
      BY <1>1, <3>1, <3>2
  <2> QED
    BY <2>1, <2>2
<1> HIDE DEF p
<1>10. PICK q : q = Ordered(E)
  OBVIOUS
<1>11. q \in [1..c -> E] /\ \A i, j \in DOMAIN q : i < j => GoesBefore(q[i], q[j])
  BY <1>6, <1>9, <1>10, Zenon DEF Ordered
<1>12. \A i, j \in 1..c : i < j => GoesBefore(q[i], q[j])
  <2>1. DOMAIN q = 1..c
    BY <1>11
  <2> QED
    BY <1>11, <2>1
<1>13. Different(c, q)
  <2> SUFFICES ASSUME NEW i \in 1..c, NEW j \in 1..c, q[i] = q[j], i # j PROVE FALSE
    BY DEF Different
  <2>1. i < j \/ j < i
    BY <1>7
  <2>2. GoesBefore(q[i], q[i])
    BY <1>12, <2>1
  <2>3. q[i].at \in 1..b
    BY <1>0, <1>11
  <2> QED
    BY <2>2, <2>3 DEF GoesBefore
<1>14. \A e \in E : \E i \in 1..c : q[i] = e
  <2>1. IsFiniteSet(E) /\ c \in Nat /\ q \in [1..c -> E]
    BY <1>4, <1>7, <1>11
  <2> QED
    BY <1>6, <1>13, <2>1, SortedIsOnto
<1>15. Arranged(E, c, q)
  BY <1>7, <1>11, <1>12, <1>14 DEF Arranged
<1> QED
  BY <1>4, <1>6, <1>10, <1>15

-------------------------------------------------------------------------------
(***************************************************************************)
(* The edits one after the other: what SetMacros' function computes.       *)
(***************************************************************************)
SetsUp(t, s, q, n) ==
  t = [k \in 0..n |-> IF k = 0 THEN s
                      ELSE SetMacro(model, t[k - 1], q[k].at, q[k].macro)]

\* The slots after each of the edits exist,
LEMMA SetsUpExists ==
  ASSUME NEW s, NEW q, NEW n \in Nat
  PROVE  \E t : SetsUp(t, s, q, n)
<1> DEFINE T == {m \in Nat : ~\E t : SetsUp(t, s, q, m)}
<1> SUFFICES ASSUME T # {} PROVE FALSE
  OBVIOUS
<1>1. T \in SUBSET Nat
  OBVIOUS
<1>2. PICK m \in T : \A l \in T : m <= l
  BY <1>1, LeastNumber
<1>3. m \in Nat /\ ~\E t : SetsUp(t, s, q, m)
  BY <1>2
<1>4. m # 0
  <2> SUFFICES ASSUME m = 0 PROVE FALSE
    OBVIOUS
  <2> DEFINE t == [k \in 0..0 |-> s]
  <2>1. \A k \in 0..0 : k = 0
    OBVIOUS
  <2>2. SetsUp(t, s, q, 0)
    BY <2>1 DEF SetsUp
  <2> QED
    BY <1>3, <2>2
<1>5. m - 1 \in Nat /\ m - 1 \notin T
  BY <1>2, <1>3, <1>4
<1>6. PICK u : SetsUp(u, s, q, m - 1)
  BY <1>5
<1> DEFINE step(k, x) == SetMacro(model, x, q[k].at, q[k].macro)
           t == [k \in 0..m |-> IF k = m THEN step(m, u[m - 1]) ELSE u[k]]
<1>7. u = [k \in 0..(m - 1) |-> IF k = 0 THEN s ELSE step(k, u[k - 1])]
  BY <1>6, Zenon DEF SetsUp
<1> HIDE DEF step
<1>8. \A k \in 0..(m - 1) : u[k] = IF k = 0 THEN s ELSE step(k, u[k - 1])
  BY <1>7
<1>9. \A k \in 0..m : t[k] = IF k = 0 THEN s ELSE step(k, t[k - 1])
  <2> SUFFICES ASSUME NEW k \in 0..m PROVE t[k] = IF k = 0 THEN s ELSE step(k, t[k - 1])
    OBVIOUS
  <2>1. CASE k = m
    <3>1. m - 1 \in 0..m /\ m - 1 # m
      BY <1>3, <1>4
    <3>2. t[m - 1] = u[m - 1]
      BY <3>1
    <3> QED
      BY <1>4, <2>1, <3>2
  <2>2. CASE k # m
    <3>1. k \in 0..(m - 1) /\ t[k] = u[k]
      BY <1>3, <2>2
    <3>2. k # 0 => k - 1 \in 0..m /\ k - 1 # m /\ t[k - 1] = u[k - 1]
      BY <1>3, <2>2
    <3> QED
      BY <1>8, <3>1, <3>2
  <2> QED
    BY <2>1, <2>2
<1>10. t = [k \in 0..m |-> IF k = 0 THEN s ELSE step(k, t[k - 1])]
  <2>1. DOMAIN t = 0..m
    OBVIOUS
  <2> DEFINE v == t
  <2>2. v = [k \in 0..m |-> v[k]]
    OBVIOUS
  <2> HIDE DEF t
  <2> QED
    BY <1>9, <2>2
<1>11. SetsUp(t, s, q, m)
  <2> HIDE DEF t
  <2> QED
    BY <1>10, Zenon DEF SetsUp, step
<1> QED
  BY <1>3, <1>11

\* The slot after each edit.
OneByOne(t, s, q, n) ==
  /\ t[0] = s
  /\ \A k \in 1..n : t[k] = SetMacro(model, t[k - 1], q[k].at, q[k].macro)

\* ... and SetMacros is the last of them.
LEMMA SetMacrosIs ==
  ASSUME NEW s, NEW E, NEW n \in Nat, NEW q \in [1..n -> E]
  PROVE  \E t : OneByOne(t, s, q, n) /\ SetMacros(s, q) = t[n]
<1>1. Len(q) = n
  OBVIOUS
<1> DEFINE t == CHOOSE u : SetsUp(u, s, q, n)
<1>2. SetsUp(t, s, q, n)
  BY SetsUpExists, Zenon
<1>3. SetMacros(s, q) = t[n]
  BY <1>1, Zenon DEF SetMacros, SetsUp
<1> HIDE DEF t
<1>4. t[0] = s /\ \A k \in 1..n : t[k] = SetMacro(model, t[k - 1], q[k].at, q[k].macro)
  <2> DEFINE step(k, x) == SetMacro(model, x, q[k].at, q[k].macro)
  <2>1. t = [k \in 0..n |-> IF k = 0 THEN s ELSE step(k, t[k - 1])]
    BY <1>2, Zenon DEF SetsUp
  <2> HIDE DEF step
  <2>2. 0 \in 0..n /\ \A k \in 1..n : k \in 0..n /\ k # 0
    OBVIOUS
  <2>3. t[0] = s /\ \A k \in 1..n : t[k] = step(k, t[k - 1])
    BY <2>1, <2>2
  <2> QED
    BY <2>3 DEF step
<1> QED
  BY <1>3, <1>4 DEF OneByOne

-------------------------------------------------------------------------------
(***************************************************************************)
(* All edits of a job made at once, the way the promise has it, and one    *)
(* edit more.                                                              *)
(***************************************************************************)
\* All edits of F made at once on macros by macro slot.
Touched(F) == {e.at : e \in F}
PutAt(F) == {e.at : e \in {f \in F : f.macro # Zeroed}}
AtOnce(M, F) ==
  [n \in (DOMAIN M \ Touched(F)) \cup PutAt(F) |->
     IF n \in PutAt(F) THEN (CHOOSE e \in F : e.at = n).macro ELSE M[n]]

\* The macro slots in use after all edits at once,
LEMMA AtOnceDomain ==
  ASSUME NEW F, NEW M
  PROVE  DOMAIN AtOnce(M, F) = (DOMAIN M \ Touched(F)) \cup PutAt(F)
BY DEF AtOnce

\* ... what a put leaves in its slot,
LEMMA AtOncePut ==
  ASSUME NEW b, NEW F, EditsOf(b, F), NEW M, NEW e \in F, e.macro # Zeroed
  PROVE  AtOnce(M, F)[e.at] = e.macro
<1>1. e.at \in PutAt(F)
  BY DEF PutAt
<1>2. AtOnce(M, F)[e.at] = (CHOOSE f \in F : f.at = e.at).macro
  BY <1>1 DEF AtOnce
<1>3. (CHOOSE f \in F : f.at = e.at) = e
  <2> DEFINE c == CHOOSE f \in F : f.at = e.at
  <2>1. c \in F /\ c.at = e.at
    OBVIOUS
  <2> HIDE DEF c
  <2> QED
    BY <2>1 DEF EditsOf
<1> QED
  BY <1>2, <1>3

\* ... and what no edit is for.
LEMMA AtOnceRest ==
  ASSUME NEW F, NEW M, NEW n \in DOMAIN M, n \notin Touched(F)
  PROVE  AtOnce(M, F)[n] = M[n]
<1>1. n \notin PutAt(F)
  BY DEF Touched, PutAt
<1> QED
  BY <1>1 DEF AtOnce

\* Some of a job's edits are edits of a job.
LEMMA FewerEdits ==
  ASSUME NEW b, NEW E, EditsOf(b, E), NEW F, F \subseteq E
  PROVE  EditsOf(b, F)
BY DEF EditsOf

\* All edits at once leave macros in macro slots.
LEMMA AtOnceTyped ==
  ASSUME NEW b, NEW F, EditsOf(b, F), NEW K, NEW M \in [K -> Macro], K \subseteq 1..b,
         NEW A, A = AtOnce(M, F), NEW D, D = DOMAIN A
  PROVE  Upto(b, D) /\ A \in [D -> Macro]
<1>1. D = (K \ Touched(F)) \cup PutAt(F)
  BY AtOnceDomain
<1>2. PutAt(F) \subseteq 1..b
  BY DEF PutAt, EditsOf
<1>3. Upto(b, D)
  BY <1>1, <1>2 DEF Upto, EditsOf
<1>4. \A n \in D : A[n] \in Macro
  <2> SUFFICES ASSUME NEW n \in D PROVE A[n] \in Macro
    OBVIOUS
  <2>1. CASE n \in PutAt(F)
    <3>1. PICK e \in F : e.macro # Zeroed /\ e.at = n
      BY <2>1 DEF PutAt
    <3>2. A[n] = e.macro
      BY <3>1, AtOncePut
    <3>3. e \in Edit
      BY DEF EditsOf
    <3> QED
      BY <3>2, <3>3 DEF Edit
  <2>2. CASE n \notin PutAt(F)
    <3>1. n \in DOMAIN M /\ n \notin Touched(F)
      BY <1>1, <2>2
    <3>2. A[n] = M[n]
      BY <3>1, AtOnceRest
    <3> QED
      BY <3>1, <3>2
  <2> QED
    BY <2>1, <2>2
<1>5. A = [n \in D |-> A[n]]
  <2>1. A = [n \in DOMAIN A |-> A[n]]
    BY DEF AtOnce
  <2> QED
    BY <2>1
<1>6. A \in [D -> Macro]
  BY <1>4, <1>5
<1> QED
  BY <1>3, <1>6

\* One edit more.
LEMMA AtOnceStep ==
  ASSUME NEW b, NEW F, NEW e, EditsOf(b, F \cup {e}), e.at \notin Touched(F), NEW M
  PROVE  With(AtOnce(M, F), e.at, e.macro) = AtOnce(M, F \cup {e})
<1> DEFINE G == F \cup {e}
           A == AtOnce(M, F)
           B == AtOnce(M, G)
           W == With(A, e.at, e.macro)
<1>0. EditsOf(b, F) /\ EditsOf(b, G)
  BY FewerEdits
<1>1. DOMAIN A = (DOMAIN M \ Touched(F)) \cup PutAt(F)
      /\ DOMAIN B = (DOMAIN M \ Touched(G)) \cup PutAt(G)
  BY AtOnceDomain
<1>2. DOMAIN W = (DOMAIN A \ {e.at}) \cup (IF e.macro = Zeroed THEN {} ELSE {e.at})
  BY Zenon DEF With
<1>3. Touched(G) = Touched(F) \cup {e.at}
  BY DEF Touched
<1>4. PutAt(G) = PutAt(F) \cup (IF e.macro = Zeroed THEN {} ELSE {e.at})
  BY DEF PutAt
<1>5. e.at \notin PutAt(F)
  BY DEF PutAt, Touched
<1>6. DOMAIN W = DOMAIN B
  BY <1>1, <1>2, <1>3, <1>4, <1>5
<1>7. \A n \in DOMAIN B : W[n] = B[n]
  <2> SUFFICES ASSUME NEW n \in DOMAIN B PROVE W[n] = B[n]
    OBVIOUS
  <2>1. W[n] = IF n = e.at THEN e.macro ELSE A[n]
    BY <1>6, Zenon DEF With
  <2>2. CASE n = e.at
    <3>1. e.macro # Zeroed
      BY <1>1, <1>3, <1>4, <1>5, <2>2
    <3>2. B[n] = e.macro
      BY <1>0, <2>2, <3>1, AtOncePut
    <3> QED
      BY <2>1, <2>2, <3>2
  <2>3. CASE n # e.at /\ n \in PutAt(F)
    <3>1. PICK f \in F : f.macro # Zeroed /\ f.at = n
      BY <2>3 DEF PutAt
    <3>2. A[n] = f.macro
      BY <1>0, <3>1, AtOncePut
    <3>3. f \in G
      OBVIOUS
    <3>4. B[n] = f.macro
      BY <1>0, <3>1, <3>3, AtOncePut
    <3> QED
      BY <2>1, <2>3, <3>2, <3>4
  <2>4. CASE n # e.at /\ n \notin PutAt(F)
    <3>1. n \in DOMAIN M /\ n \notin Touched(G) /\ n \notin Touched(F)
      BY <1>1, <1>3, <1>4, <2>4
    <3>2. A[n] = M[n] /\ B[n] = M[n]
      BY <3>1, AtOnceRest
    <3> QED
      BY <2>1, <2>4, <3>2
  <2> QED
    BY <2>2, <2>3, <2>4
<1>8. W = [n \in DOMAIN W |-> W[n]] /\ B = [n \in DOMAIN B |-> B[n]]
  <2>1. W = [n \in DOMAIN W |-> W[n]]
    BY DEF With
  <2>2. B = [n \in DOMAIN B |-> B[n]]
    BY DEF AtOnce
  <2> QED
    BY <2>1, <2>2
<1> HIDE DEF W, B
<1>9. W = B
  BY <1>6, <1>7, <1>8
<1> QED
  BY <1>9 DEF W, B

\* No edit changes nothing.
LEMMA NoEdits ==
  ASSUME NEW K, NEW V, NEW M \in [K -> V]
  PROVE  AtOnce(M, {}) = M
<1>1. Touched({}) = {} /\ PutAt({}) = {}
  BY DEF Touched, PutAt
<1>2. AtOnce(M, {}) = [n \in DOMAIN M |-> M[n]]
  BY <1>1 DEF AtOnce
<1> QED
  BY <1>2

-------------------------------------------------------------------------------
(***************************************************************************)
(* A packed model: in their order, each edit finds the macro it is for.    *)
(***************************************************************************)
FirstEdits(q, k) == {q[i] : i \in 1..k}

\* The first k edits are the first k - 1 and one that goes behind them, for another slot.
LEMMA FirstIs ==
  ASSUME NEW b, NEW E, EditsOf(b, E), NEW n, NEW q, Arranged(E, n, q), NEW k \in 1..n
  PROVE  /\ k - 1 \in 0..n /\ FirstEdits(q, k - 1) \subseteq E /\ FirstEdits(q, k) \subseteq E
         /\ FirstEdits(q, k) = FirstEdits(q, k - 1) \cup {q[k]}
         /\ q[k].at \notin Touched(FirstEdits(q, k - 1))
         /\ \A e \in FirstEdits(q, k - 1) : GoesBefore(e, q[k])
         /\ FirstEdits(q, n) = E
<1>1. n \in Nat /\ q \in [1..n -> E] /\ (\A i, j \in 1..n : i < j => GoesBefore(q[i], q[j]))
      /\ \A e \in E : \E i \in 1..n : q[i] = e
  BY DEF Arranged
<1>2. k - 1 \in 0..n /\ 1..(k - 1) \subseteq 1..n /\ 1..k \subseteq 1..n
      /\ 1..k = 1..(k - 1) \cup {k} /\ \A i \in 1..(k - 1) : i < k
  BY <1>1
<1>3. FirstEdits(q, k - 1) \subseteq E /\ FirstEdits(q, k) \subseteq E /\ FirstEdits(q, n) = E
  BY <1>1, <1>2 DEF FirstEdits
<1>4. FirstEdits(q, k) = FirstEdits(q, k - 1) \cup {q[k]}
  BY <1>2 DEF FirstEdits
<1>5. \A e \in FirstEdits(q, k - 1) : GoesBefore(e, q[k])
  <2> SUFFICES ASSUME NEW i \in 1..(k - 1) PROVE GoesBefore(q[i], q[k])
    BY DEF FirstEdits
  <2> QED
    BY <1>1, <1>2
<1>6. q[k].at \notin Touched(FirstEdits(q, k - 1))
  <2> SUFFICES ASSUME NEW e \in FirstEdits(q, k - 1), e.at = q[k].at PROVE FALSE
    BY DEF Touched
  <2>1. e \in E /\ q[k] \in E /\ GoesBefore(e, q[k])
    BY <1>1, <1>3, <1>5
  <2>2. e = q[k] /\ e.at \in 1..b
    BY <2>1 DEF EditsOf
  <2> QED
    BY <2>1, <2>2 DEF GoesBefore
<1> QED
  BY <1>2, <1>3, <1>4, <1>5, <1>6

\* The next edit of a packed slot finds its macro where it was read, although the
\* ones before it renumbered the macros.
LEMMA PackedStep ==
  ASSUME NEW b, NEW E, EditsOf(b, E), NEW F, F \subseteq E, NEW e \in E, e.at \notin Touched(F),
         \A f \in F : GoesBefore(f, e),
         NEW L \in 0..b, NEW M \in [1..L -> Macro],
         \A f \in E : f.macro = Zeroed => f.at \in 1..L
  PROVE  Records(With(Records(AtOnce(M, F)), e.at, e.macro)) = Records(AtOnce(M, F \cup {e}))
<1>0. b \in Nat /\ L \in Nat /\ 1..L \subseteq 1..b /\ e \in Edit /\ e.at \in 1..b /\ e.at \in Nat
      /\ e.macro \in Macro /\ \A f \in F : f.at \in 1..b
  BY DEF EditsOf, Edit
<1>1. EditsOf(b, F) /\ EditsOf(b, F \cup {e})
  BY FewerEdits
<1>2. PICK A, D : A = AtOnce(M, F) /\ D = DOMAIN A
  OBVIOUS
<1>3. Upto(b, D) /\ A \in [D -> Macro]
  BY <1>0, <1>1, <1>2, AtOnceTyped
<1>4. D = (1..L \ Touched(F)) \cup PutAt(F)
  BY <1>1, <1>2, AtOnceDomain
<1>5. With(A, e.at, e.macro) = AtOnce(M, F \cup {e})
  BY <1>1, <1>2, AtOnceStep
<1>6. Records(With(Records(A), e.at, e.macro)) = Records(With(A, e.at, e.macro))
  <2>1. CASE e.macro # Zeroed
    <3>1. \A f \in F : f.macro # Zeroed /\ f.at < e.at
      BY <2>1 DEF GoesBefore
    <3>2. Touched(F) = PutAt(F) /\ \A x \in PutAt(F) : x < e.at
      BY <3>1 DEF Touched, PutAt
    <3>3. CASE e.at <= L
      <4>1. 1..(e.at) \subseteq D
        BY <1>0, <1>4, <3>2, <3>3
      <4> QED
        BY <1>0, <1>3, <2>1, <4>1, PutInPlace
    <3>4. CASE ~(e.at <= L)
      <4>1. \A x \in D : x < e.at
        BY <1>0, <1>4, <3>2, <3>4
      <4> QED
        BY <1>0, <1>3, <2>1, <4>1, PutLast
    <3> QED
      BY <3>3, <3>4
  <2>2. CASE e.macro = Zeroed
    <3>1. e.at \in 1..L
      BY <2>2
    <3>2. \A x \in 1..(e.at) : x \in 1..L
      BY <1>0, <3>1
    <3>3. \A x \in 1..(e.at) : x \in Touched(F) => x \in PutAt(F)
      <4> SUFFICES ASSUME NEW f \in F, f.at \in 1..(e.at) PROVE f.macro # Zeroed
        BY DEF Touched, PutAt
      <4>1. f.at # e.at
        BY DEF Touched
      <4>2. f.at < e.at
        BY <1>0, <4>1
      <4>3. GoesBefore(f, e) /\ f.at \in 1..b
        BY <1>0
      <4> QED
        BY <1>0, <2>2, <4>2, <4>3 DEF GoesBefore
    <3>4. 1..(e.at) \subseteq D
      BY <1>4, <3>2, <3>3
    <3> QED
      BY <1>0, <1>3, <2>2, <3>4, DeletePacked
  <2> QED
    BY <2>1, <2>2
<1> QED
  BY <1>2, <1>5, <1>6

\* A packed slot that was written and edited is one written with the macros packed again.
LEMMA WrittenAgain ==
  ASSUME IsPacked(model), NEW map, NEW R, NEW n, NEW mac
  PROVE  SetMacro(model, WriteSlot(map, R), n, mac) = WriteSlot(map, Records(With(R, n, mac)))
<1> DEFINE s == WriteSlot(map, R)
<1>1. s.used /\ s.parts = Sections /\ s.map = map /\ s.macros = R
  BY DEF WriteSlot
<1>2. InUse(s, "map") /\ InUse(s, "macros")
  BY <1>1 DEF InUse, Sections
<1> HIDE DEF s
<1>3. MacrosOf(model, s) = R /\ MapKept(s) = map
  BY <1>1, <1>2 DEF MacrosOf, MapKept
<1>4. SetMacro(model, s, n, mac) = WriteSlot(MapKept(s), Records(With(MacrosOf(model, s), n, mac)))
  BY DEF SetMacro
<1> QED
  BY <1>3, <1>4 DEF s

Chained(t, U, M, q, k) == t[k] = WriteSlot(MapKept(U), Records(AtOnce(M, FirstEdits(q, k))))

\* Edits made one by one on a packed slot leave what all made at once do.
LEMMA PackedChain ==
  ASSUME IsPacked(model), NEW b, NEW E, EditsOf(b, E), NEW n \in Nat, n # 0, NEW q, Arranged(E, n, q),
         NEW U, NEW L \in 0..b, NEW M \in [1..L -> Macro], MacrosOf(model, U) = M,
         \A f \in E : f.macro = Zeroed => f.at \in 1..L
  PROVE  SetMacros(U, q) = WriteSlot(MapKept(U), Records(AtOnce(M, E)))
<1>1. n \in Nat /\ q \in [1..n -> E]
  BY DEF Arranged
<1>a. PICK t : OneByOne(t, U, q, n) /\ SetMacros(U, q) = t[n]
  BY <1>1, SetMacrosIs
<1>2. /\ t[0] = U /\ SetMacros(U, q) = t[n]
      /\ \A k \in 1..n : t[k] = SetMacro(model, t[k - 1], q[k].at, q[k].macro)
  BY <1>a DEF OneByOne
<1>3. \A k \in 1..n : Chained(t, U, M, q, k)
  <2> DEFINE Bad == {k \in 1..n : ~Chained(t, U, M, q, k)}
  <2> SUFFICES ASSUME Bad # {} PROVE FALSE
    OBVIOUS
  <2>1. PICK k \in Bad : \A l \in Bad : k <= l
    <3>1. Bad \in SUBSET Nat
      OBVIOUS
    <3> QED
      BY <3>1, LeastNumber
  <2>2. k \in 1..n /\ ~Chained(t, U, M, q, k) /\ k - 1 \notin Bad
    BY <2>1
  <2>3. /\ k - 1 \in 0..n /\ FirstEdits(q, k - 1) \subseteq E /\ FirstEdits(q, k) \subseteq E
        /\ FirstEdits(q, k) = FirstEdits(q, k - 1) \cup {q[k]}
        /\ q[k].at \notin Touched(FirstEdits(q, k - 1))
        /\ \A e \in FirstEdits(q, k - 1) : GoesBefore(e, q[k])
    BY <2>2, FirstIs
  <2>4. PICK F, e : F = FirstEdits(q, k - 1) /\ e = q[k]
    OBVIOUS
  <2>5. F \subseteq E /\ e \in E /\ FirstEdits(q, k) = F \cup {e} /\ e.at \notin Touched(F)
        /\ \A f \in F : GoesBefore(f, e)
    BY <1>1, <2>2, <2>3, <2>4
  <2>6. t[k] = SetMacro(model, t[k - 1], e.at, e.macro)
    BY <1>2, <2>2, <2>4
  <2>7. CASE k = 1
    <3>1. F = {} /\ t[k - 1] = U
      BY <1>2, <2>4, <2>7 DEF FirstEdits
    <3>2. EditsOf(b, F \cup {e})
      BY <2>5, FewerEdits
    <3>3. With(AtOnce(M, F), e.at, e.macro) = AtOnce(M, F \cup {e})
      BY <2>5, <3>2, AtOnceStep
    <3>4. AtOnce(M, F) = M
      BY <3>1, NoEdits
    <3>5. SetMacro(model, U, e.at, e.macro) = WriteSlot(MapKept(U), Records(With(M, e.at, e.macro)))
      BY DEF SetMacro
    <3> QED
      BY <2>2, <2>5, <2>6, <3>1, <3>3, <3>4, <3>5 DEF Chained
  <2>8. CASE k # 1
    <3>1. k - 1 \in 1..n
      BY <2>2, <2>8
    <3>2. t[k - 1] = WriteSlot(MapKept(U), Records(AtOnce(M, F)))
      BY <2>2, <2>4, <3>1 DEF Chained
    <3>3. t[k] = WriteSlot(MapKept(U), Records(With(Records(AtOnce(M, F)), e.at, e.macro)))
      BY <2>6, <3>2, WrittenAgain
    <3>4. Records(With(Records(AtOnce(M, F)), e.at, e.macro)) = Records(AtOnce(M, F \cup {e}))
      BY <2>5, PackedStep
    <3> QED
      BY <2>2, <2>5, <3>3, <3>4 DEF Chained
  <2> QED
    BY <2>7, <2>8
<1>4. Chained(t, U, M, q, n) /\ n \in 1..n
  BY <1>3
<1>5. FirstEdits(q, n) = E
  BY <1>4, FirstIs
<1> QED
  BY <1>2, <1>4, <1>5 DEF Chained

-------------------------------------------------------------------------------
(***************************************************************************)
(* A slotted model: each edit takes the descriptor of its macro slot.      *)
(***************************************************************************)
\* The descriptors of a slotted model with all edits of F made at once.
DescribedWith(M, F) ==
  [x \in DOMAIN M |-> IF x \in Touched(F) THEN Encoded((CHOOSE e \in F : e.at = x).macro) ELSE M[x]]

\* What an edit leaves in its descriptor,
LEMMA DescribedPut ==
  ASSUME NEW b, NEW F, EditsOf(b, F), NEW M, NEW e \in F, e.at \in DOMAIN M
  PROVE  DescribedWith(M, F)[e.at] = Encoded(e.macro)
<1>1. e.at \in Touched(F)
  BY DEF Touched
<1>2. DescribedWith(M, F)[e.at] = Encoded((CHOOSE f \in F : f.at = e.at).macro)
  BY <1>1 DEF DescribedWith
<1>3. (CHOOSE f \in F : f.at = e.at) = e
  <2> DEFINE c == CHOOSE f \in F : f.at = e.at
  <2>1. c \in F /\ c.at = e.at
    OBVIOUS
  <2> HIDE DEF c
  <2> QED
    BY <2>1 DEF EditsOf
<1> QED
  BY <1>2, <1>3

\* ... what it leaves in the others,
LEMMA DescribedRest ==
  ASSUME NEW F, NEW M, NEW x \in DOMAIN M, x \notin Touched(F)
  PROVE  DescribedWith(M, F)[x] = M[x]
BY DEF DescribedWith

\* One edit more.
LEMMA DescribedStep ==
  ASSUME NEW b, NEW F, NEW e, EditsOf(b, F \cup {e}), e.at \notin Touched(F),
         NEW M, e.at \in DOMAIN M
  PROVE  [DescribedWith(M, F) EXCEPT ![e.at] = Encoded(e.macro)] = DescribedWith(M, F \cup {e})
<1> DEFINE G == F \cup {e}
           A == DescribedWith(M, F)
           B == DescribedWith(M, G)
           W == [A EXCEPT ![e.at] = Encoded(e.macro)]
<1>0. EditsOf(b, F) /\ EditsOf(b, G)
  BY FewerEdits
<1>1. A = [x \in DOMAIN M |-> A[x]] /\ B = [x \in DOMAIN M |-> B[x]]
  BY DEF DescribedWith
<1>2. Touched(G) = Touched(F) \cup {e.at}
  BY DEF Touched
<1>3. ASSUME NEW x \in DOMAIN M PROVE W[x] = B[x]
  <2>1. W[x] = IF x = e.at THEN Encoded(e.macro) ELSE A[x]
    BY <1>1
  <2>2. CASE x = e.at
    <3>1. B[x] = Encoded(e.macro)
      BY <1>0, <2>2, DescribedPut
    <3> QED
      BY <2>1, <2>2, <3>1
  <2>3. CASE x # e.at /\ x \in Touched(F)
    <3>1. PICK f \in F : f.at = x
      BY <2>3 DEF Touched
    <3>2. f \in G
      OBVIOUS
    <3>3. A[x] = Encoded(f.macro)
      BY <1>0, <3>1, DescribedPut
    <3>4. B[x] = Encoded(f.macro)
      BY <1>0, <3>1, <3>2, DescribedPut
    <3> QED
      BY <2>1, <2>3, <3>3, <3>4
  <2>4. CASE x # e.at /\ x \notin Touched(F)
    <3>1. x \notin Touched(G)
      BY <1>2, <2>4
    <3>2. A[x] = M[x] /\ B[x] = M[x]
      BY <2>4, <3>1, DescribedRest
    <3> QED
      BY <2>1, <2>4, <3>2
  <2> QED
    BY <2>2, <2>3, <2>4
<1>4. W = [x \in DOMAIN M |-> W[x]]
  BY <1>1
<1> HIDE DEF W, B
<1>5. W = B
  BY <1>1, <1>3, <1>4
<1> QED
  BY <1>5 DEF W, B

\* ... and what no edits leave.
LEMMA DescribedNone ==
  ASSUME NEW K, NEW V, NEW M \in [K -> V]
  PROVE  DescribedWith(M, {}) = M
<1>1. Touched({}) = {}
  BY DEF Touched
<1>2. DescribedWith(M, {}) = [x \in DOMAIN M |-> M[x]]
  BY <1>1 DEF DescribedWith
<1> QED
  BY <1>2

WithMacros(U, N) == [used |-> U.used, parts |-> U.parts, map |-> U.map, macros |-> N]

\* An edit of a slotted slot takes the one descriptor.
LEMMA DescriptorPut ==
  ASSUME ~IsPacked(model), NEW U, NEW N, NEW n, NEW mac
  PROVE  SetMacro(model, WithMacros(U, N), n, mac) = WithMacros(U, [N EXCEPT ![n] = Encoded(mac)])
BY DEF SetMacro, WithMacros

DescribedSoFar(t, U, q, k) == t[k] = WithMacros(U, DescribedWith(U.macros, FirstEdits(q, k)))

\* Edits made one by one on a slotted slot leave what all made at once do.
LEMMA SlottedChain ==
  ASSUME ~IsPacked(model), NEW b, NEW E, EditsOf(b, E), NEW n \in Nat, NEW q, Arranged(E, n, q),
         NEW U, U = WithMacros(U, U.macros), NEW K, NEW V, U.macros \in [K -> V],
         Touched(E) \subseteq K
  PROVE  SetMacros(U, q) = WithMacros(U, DescribedWith(U.macros, E))
<1>1. n \in Nat /\ q \in [1..n -> E]
  BY DEF Arranged
<1>a. PICK t : OneByOne(t, U, q, n) /\ SetMacros(U, q) = t[n]
  BY <1>1, SetMacrosIs
<1>2. /\ t[0] = U /\ SetMacros(U, q) = t[n]
      /\ \A k \in 1..n : t[k] = SetMacro(model, t[k - 1], q[k].at, q[k].macro)
  BY <1>a DEF OneByOne
<1>0. DescribedSoFar(t, U, q, 0)
  <2>1. FirstEdits(q, 0) = {}
    BY DEF FirstEdits
  <2>2. DescribedWith(U.macros, {}) = U.macros
    BY DescribedNone
  <2> QED
    BY <1>2, <2>1, <2>2 DEF DescribedSoFar
<1>3. \A k \in 0..n : DescribedSoFar(t, U, q, k)
  <2> DEFINE Bad == {k \in 0..n : ~DescribedSoFar(t, U, q, k)}
  <2> SUFFICES ASSUME Bad # {} PROVE FALSE
    OBVIOUS
  <2>1. PICK k \in Bad : \A l \in Bad : k <= l
    <3>1. Bad \in SUBSET Nat
      OBVIOUS
    <3> QED
      BY <3>1, LeastNumber
  <2>2. k \in 1..n /\ ~DescribedSoFar(t, U, q, k) /\ k - 1 \notin Bad
    BY <1>0, <2>1
  <2>3. /\ k - 1 \in 0..n /\ FirstEdits(q, k) \subseteq E
        /\ FirstEdits(q, k) = FirstEdits(q, k - 1) \cup {q[k]}
        /\ q[k].at \notin Touched(FirstEdits(q, k - 1))
    BY <2>2, FirstIs
  <2>4. PICK F, e : F = FirstEdits(q, k - 1) /\ e = q[k]
    OBVIOUS
  <2>5. e \in E /\ FirstEdits(q, k) = F \cup {e} /\ e.at \notin Touched(F)
    BY <1>1, <2>2, <2>3, <2>4
  <2>6. t[k] = SetMacro(model, t[k - 1], e.at, e.macro)
    BY <1>2, <2>2, <2>4
  <2>7. t[k - 1] = WithMacros(U, DescribedWith(U.macros, F))
    BY <2>2, <2>3, <2>4 DEF DescribedSoFar
  <2>8. t[k] = WithMacros(U, [DescribedWith(U.macros, F) EXCEPT ![e.at] = Encoded(e.macro)])
    BY <2>6, <2>7, DescriptorPut
  <2>9. EditsOf(b, F \cup {e})
    BY <2>3, <2>5, FewerEdits
  <2>10. e.at \in DOMAIN U.macros
    BY <2>5 DEF Touched
  <2>11. [DescribedWith(U.macros, F) EXCEPT ![e.at] = Encoded(e.macro)] = DescribedWith(U.macros, F \cup {e})
    BY <2>5, <2>9, <2>10, DescribedStep
  <2> QED
    BY <2>2, <2>5, <2>8, <2>11 DEF DescribedSoFar
<1>4. n \in 0..n /\ FirstEdits(q, n) = E
  <2>1. CASE n = 0
    <3>1. E = {}
      BY <2>1 DEF Arranged
    <3> QED
      BY <2>1, <3>1 DEF FirstEdits
  <2>2. CASE n # 0
    <3>1. n \in 1..n
      BY <2>2
    <3> QED
      BY <3>1, FirstIs
  <2> QED
    BY <2>1, <2>2
<1> QED
  BY <1>2, <1>3, <1>4 DEF DescribedSoFar

-------------------------------------------------------------------------------
(***************************************************************************)
(* What is shown of macros, without some triggers, packed, and edited.     *)
(***************************************************************************)
LEMMA ShownIs ==
  ASSUME NEW K, NEW M \in [K -> Macro]
  PROVE  /\ EachEncoded(M) \in [K -> Macro]
         /\ \A n \in K : EachEncoded(M)[n] = Encoded(M[n])
<1>1. \A n \in K : Encoded(M[n]) \in Macro
  BY EncodedTwice
<1> QED
  BY <1>1 DEF EachEncoded

Less(m, d, w) == w.triggers = m.triggers \ d /\ w.steps = m.steps /\ w.unknown = m.unknown

\* What dropping triggers leaves.
LEMMA WithoutIs ==
  ASSUME NEW K, NEW M \in [K -> Macro], NEW d, NEW W, W = Without(M, d)
  PROVE  W \in [K -> Macro] /\ \A n \in K : Less(M[n], d, W[n])
<1>1. \A n \in K : [M[n] EXCEPT !.triggers = @ \ d] \in Macro
  <2> SUFFICES ASSUME NEW n \in K PROVE [M[n] EXCEPT !.triggers = @ \ d] \in Macro
    OBVIOUS
  <2>1. M[n] \in Macro
    OBVIOUS
  <2> QED
    BY <2>1 DEF Macro
<1>2. \A n \in K : M[n] \in Macro
  OBVIOUS
<1> QED
  BY <1>1, <1>2 DEF Without, Macro, Less

\* Dropping none leaves every macro as it is.
LEMMA WithoutNone ==
  ASSUME NEW K, NEW M \in [K -> Macro]
  PROVE  Without(M, {}) = M
<1>1. \A n \in K : [M[n] EXCEPT !.triggers = @ \ {}] = M[n]
  <2> SUFFICES ASSUME NEW n \in K PROVE [M[n] EXCEPT !.triggers = @ \ {}] = M[n]
    OBVIOUS
  <2>1. M[n] \in Macro
    OBVIOUS
  <2> QED
    BY <2>1 DEF Macro
<1>2. Without(M, {}) = [n \in K |-> M[n]]
  BY <1>1, Zenon DEF Without
<1> QED
  BY <1>2

\* Triggers dropped show as dropped.
LEMMA ShownWithout ==
  ASSUME NEW K, NEW M \in [K -> Macro], NEW d
  PROVE  EachEncoded(Without(M, d)) = Without(EachEncoded(M), d)
<1>1. \A n \in K : Encoded([M[n] EXCEPT !.triggers = @ \ d])
                    = [Encoded(M[n]) EXCEPT !.triggers = @ \ d]
  <2> SUFFICES ASSUME NEW m \in Macro
                PROVE  Encoded([m EXCEPT !.triggers = @ \ d]) = [Encoded(m) EXCEPT !.triggers = @ \ d]
    OBVIOUS
  <2> QED
    BY DEF Encoded, Macro
<1>2. EachEncoded(Without(M, d)) = [n \in K |-> Encoded([M[n] EXCEPT !.triggers = @ \ d])]
  BY DEF EachEncoded, Without
<1>3. Without(EachEncoded(M), d) = [n \in K |-> [Encoded(M[n]) EXCEPT !.triggers = @ \ d]]
  BY DEF EachEncoded, Without
<1> QED
  BY <1>1, <1>2, <1>3, Zenon

\* Macros without gaps are packed as they are.
LEMMA PackSequence ==
  ASSUME NEW b \in Nat, NEW L \in 0..b, NEW M \in [1..L -> Macro]
  PROVE  Pack(M) = M /\ Records(M) = EachEncoded(M)
<1>1. Upto(b, 1..L)
  BY DEF Upto
<1>2. DOMAIN M = 1..L
  OBVIOUS
<1>3. PICK e : e = [i \in 1..L |-> i]
  OBVIOUS
<1>4. Enum(1..L, L, e)
  BY <1>3 DEF Enum
<1>5. Pack(M) = [k \in 1..L |-> M[e[k]]] /\ Records(M) = [k \in 1..L |-> Encoded(M[e[k]])]
  <2>1. PICK c : c = L
    OBVIOUS
  <2>2. Upto(b, DOMAIN M) /\ Enum(DOMAIN M, c, e)
    BY <1>1, <1>2, <1>4, <2>1, Zenon
  <2>3. Pack(M) = [k \in 1..c |-> M[e[k]]] /\ Records(M) = [k \in 1..c |-> Encoded(M[e[k]])]
    BY <2>2, PackIs
  <2> QED
    BY <2>1, <2>3
<1>6. Pack(M) = [k \in 1..L |-> M[k]] /\ Records(M) = [k \in 1..L |-> Encoded(M[k])]
  BY <1>3, <1>5
<1> QED
  BY <1>2, <1>6 DEF EachEncoded

\* The records of a packed slot are what its macros show, packed, each macro among them.
LEMMA RecordsShow ==
  ASSUME NEW b, NEW D, Upto(b, D), NEW A \in [D -> Macro]
  PROVE  /\ \E c \in 0..b : Records(A) \in [1..c -> Macro]
         /\ EachEncoded(Records(A)) = Records(A)
         /\ Records(A) = Pack(EachEncoded(A))
         /\ \A n \in D : \E k \in DOMAIN Records(A) : Records(A)[k] = Encoded(A[n])
<1>1. PICK c, e : Enum(D, c, e) /\ c \in 0..b
  BY InOrderSorts
<1>2. DOMAIN A = D /\ DOMAIN EachEncoded(A) = D
  BY DEF EachEncoded
<1>3. Records(A) = [k \in 1..c |-> Encoded(A[e[k]])]
  BY <1>1, <1>2, PackIs
<1>4. Pack(EachEncoded(A)) = [k \in 1..c |-> EachEncoded(A)[e[k]]]
  BY <1>1, <1>2, PackIs
<1>5. e \in [1..c -> D] /\ \A x \in D : \E i \in 1..c : e[i] = x
  BY <1>1 DEF Enum
<1>6. \A k \in 1..c : EachEncoded(A)[e[k]] = Encoded(A[e[k]])
  BY <1>5 DEF EachEncoded
<1>7. \A k \in 1..c : A[e[k]] \in Macro
  BY <1>5
<1>8. \A k \in 1..c : Encoded(A[e[k]]) \in Macro /\ Encoded(Encoded(A[e[k]])) = Encoded(A[e[k]])
  BY <1>7, EncodedTwice
<1>9. Records(A) \in [1..c -> Macro]
  BY <1>3, <1>8
<1>10. EachEncoded(Records(A)) = [k \in 1..c |-> Encoded(Encoded(A[e[k]]))]
  BY <1>3 DEF EachEncoded
<1>11. EachEncoded(Records(A)) = Records(A)
  BY <1>3, <1>8, <1>10, Zenon
<1>12. Records(A) = Pack(EachEncoded(A))
  BY <1>3, <1>4, <1>6, Zenon
<1>13. \A n \in D : \E k \in DOMAIN Records(A) : Records(A)[k] = Encoded(A[n])
  BY <1>3, <1>5
<1> QED
  BY <1>1, <1>9, <1>11, <1>12, <1>13

\* Edits put macros whose triggers all name a button.
Named(E) == \A e \in E : Encoded(e.macro) = e.macro

\* What is shown after the edits is what was shown, edited.
LEMMA ShownAtOnce ==
  ASSUME NEW b, NEW E, EditsOf(b, E), Named(E), NEW K, NEW M \in [K -> Macro]
  PROVE  EachEncoded(AtOnce(M, E)) = AtOnce(EachEncoded(M), E)
<1> DEFINE A == AtOnce(M, E)
           B == AtOnce(EachEncoded(M), E)
<1>1. DOMAIN M = K /\ DOMAIN EachEncoded(M) = K
  BY DEF EachEncoded
<1>2. DOMAIN A = (K \ Touched(E)) \cup PutAt(E) /\ DOMAIN B = (K \ Touched(E)) \cup PutAt(E)
  BY <1>1, AtOnceDomain
<1>3. ASSUME NEW n \in DOMAIN A PROVE Encoded(A[n]) = B[n]
  <2>1. CASE n \in PutAt(E)
    <3>1. PICK e \in E : e.macro # Zeroed /\ e.at = n
      BY <2>1 DEF PutAt
    <3>2. A[n] = e.macro
      BY <3>1, AtOncePut
    <3>3. B[n] = e.macro
      BY <3>1, AtOncePut
    <3> QED
      BY <3>2, <3>3 DEF Named
  <2>2. CASE n \notin PutAt(E)
    <3>1. n \in K /\ n \notin Touched(E)
      BY <1>2, <2>2
    <3>2. A[n] = M[n]
      BY <1>1, <3>1, AtOnceRest
    <3>3. B[n] = EachEncoded(M)[n]
      BY <1>1, <3>1, AtOnceRest
    <3>4. EachEncoded(M)[n] = Encoded(M[n])
      BY <3>1 DEF EachEncoded
    <3> QED
      BY <3>2, <3>3, <3>4
  <2> QED
    BY <2>1, <2>2
<1>4. B = [n \in DOMAIN B |-> B[n]]
  <2>1. \A T : AtOnce(T, E) = [n \in DOMAIN AtOnce(T, E) |-> AtOnce(T, E)[n]]
    BY DEF AtOnce
  <2> QED
    BY <2>1, Zenon
<1>5. EachEncoded(A) = [n \in DOMAIN A |-> Encoded(A[n])]
  BY Zenon DEF EachEncoded
<1>6. DOMAIN A = DOMAIN B
  BY <1>2
<1> HIDE DEF A, B
<1>7. EachEncoded(A) = B
  BY <1>3, <1>4, <1>5, <1>6
<1> QED
  BY <1>7 DEF A, B

\* Deletes of no macro may be left out.
LEMMA SkippedDeletes ==
  ASSUME NEW b, NEW E, EditsOf(b, E), NEW F, F \subseteq E, NEW M,
         \A e \in E : e \in F \/ (e.macro = Zeroed /\ e.at \notin DOMAIN M)
  PROVE  AtOnce(M, F) = AtOnce(M, E)
<1> DEFINE A == AtOnce(M, F)
           B == AtOnce(M, E)
<1>0. EditsOf(b, F)
  BY FewerEdits
<1>1. PutAt(F) = PutAt(E)
  BY DEF PutAt
<1>2. DOMAIN M \ Touched(F) = DOMAIN M \ Touched(E)
  BY DEF Touched
<1>3. DOMAIN A = (DOMAIN M \ Touched(F)) \cup PutAt(F) /\ DOMAIN B = (DOMAIN M \ Touched(E)) \cup PutAt(E)
  BY AtOnceDomain
<1>4. DOMAIN A = DOMAIN B
  BY <1>1, <1>2, <1>3
<1>5. ASSUME NEW n \in DOMAIN A PROVE A[n] = B[n]
  <2>1. CASE n \in PutAt(F)
    <3>1. PICK e \in F : e.macro # Zeroed /\ e.at = n
      BY <2>1 DEF PutAt
    <3>2. A[n] = e.macro
      BY <1>0, <3>1, AtOncePut
    <3>3. e \in E
      OBVIOUS
    <3>4. B[n] = e.macro
      BY <3>1, <3>3, AtOncePut
    <3> QED
      BY <3>2, <3>4
  <2>2. CASE n \notin PutAt(F)
    <3>1. n \in DOMAIN M /\ n \notin Touched(F) /\ n \notin Touched(E)
      BY <1>2, <1>3, <2>2
    <3>2. A[n] = M[n] /\ B[n] = M[n]
      BY <3>1, AtOnceRest
    <3> QED
      BY <3>2
  <2> QED
    BY <2>1, <2>2
<1>6. A = [n \in DOMAIN A |-> A[n]] /\ B = [n \in DOMAIN B |-> B[n]]
  <2>1. \A T : AtOnce(M, T) = [n \in DOMAIN AtOnce(M, T) |-> AtOnce(M, T)[n]]
    BY DEF AtOnce
  <2> QED
    BY <2>1, Zenon
<1> HIDE DEF A, B
<1>7. A = B
  BY <1>4, <1>5, <1>6
<1> QED
  BY <1>7 DEF A, B

-------------------------------------------------------------------------------
(***************************************************************************)
(* A packed slot after the edits.                                          *)
(***************************************************************************)
Size(b) == model \in Models /\ b = MacroCount[model] /\ b \in Nat

\* A model has a number of macro slots.
LEMMA SizeIs ==
  ASSUME model \in Models
  PROVE  \E b : Size(b)
BY BankConstants DEF Size

\* A slot with no macros shows none, whatever triggers are dropped.
LEMMA NothingHeld ==
  /\ NoMacros \in [1..0 -> Macro] /\ NoMacros = <<>>
  /\ EachEncoded(NoMacros) = NoMacros /\ DOMAIN NoMacros = {}
  /\ \A d : Without(NoMacros, d) = NoMacros
<1>1. DOMAIN NoMacros = {} /\ 1..0 = {}
  BY DEF NoMacros
<1>2. NoMacros \in [1..0 -> Macro]
  BY <1>1 DEF NoMacros
<1>3. <<>> \in [1..0 -> Macro]
  OBVIOUS
<1>4. \A f, g \in [1..0 -> Macro] : f = g
  BY <1>1
<1>5. NoMacros = <<>>
  BY <1>2, <1>3, <1>4
<1>6. EachEncoded(NoMacros) \in [1..0 -> Macro]
  BY <1>1 DEF EachEncoded
<1>7. \A d : Without(NoMacros, d) \in [1..0 -> Macro]
  BY <1>1 DEF Without
<1> QED
  BY <1>1, <1>2, <1>4, <1>5, <1>6, <1>7

\* What is read of a packed slot in use is what a writer keeps of it.
LEMMA PackedSlot ==
  ASSUME IsPacked(model), NEW b, Size(b), NEW s, IsSlot(model, s), s.used
  PROVE  /\ \E L \in 0..b : MacrosOf(model, s) \in [1..L -> Macro]
         /\ RecordsKept(s) = MacrosOf(model, s)
         /\ MapKept(s) = MapOf(model, s) /\ MapOf(model, s) \in [Buttons -> Outputs]
<1>1. PICK L \in 0..b : s \in [used : BOOLEAN, parts : SUBSET Sections, map : [Buttons -> Outputs],
                             macros : [1..L -> Macro]]
  BY DEF IsSlot, Lengths, Size
<1>2. s.macros \in [1..L -> Macro] /\ s.map \in [Buttons -> Outputs]
  BY <1>1
<1>3. RecordsKept(s) = MacrosOf(model, s)
  BY NothingHeld DEF RecordsKept, MacrosOf
<1>4. \E K \in 0..b : MacrosOf(model, s) \in [1..K -> Macro]
  <2>1. CASE InUse(s, "macros")
    BY <1>2, <2>1 DEF MacrosOf
  <2>2. CASE ~InUse(s, "macros")
    <3>1. 0 \in 0..b
      BY DEF Size
    <3> QED
      BY <2>2, <3>1, NothingHeld DEF MacrosOf
  <2> QED
    BY <2>1, <2>2
<1> QED
  BY <1>2, <1>3, <1>4, BankConstants DEF MapKept, MapOf

\* What is read of a packed slot is what was written.
LEMMA WrittenSlot ==
  ASSUME IsPacked(model), NEW b, Size(b), NEW map \in [Buttons -> Outputs],
         NEW L \in 0..b, NEW R \in [1..L -> Macro], NEW V, V = WriteSlot(map, R)
  PROVE  /\ IsSlot(model, V) /\ V.used
         /\ MacrosOf(model, V) = R /\ MapOf(model, V) = map
<1>1. V.used /\ V.parts = Sections /\ V.map = map /\ V.macros = R
  BY DEF WriteSlot
<1>2. InUse(V, "map") /\ InUse(V, "macros")
  BY <1>1 DEF InUse, Sections
<1>3. L \in Lengths(model)
  BY DEF Lengths, Size
<1>4. V \in [used : BOOLEAN, parts : SUBSET Sections, map : [Buttons -> Outputs], macros : [1..L -> Macro]]
  BY DEF WriteSlot
<1> QED
  BY <1>1, <1>2, <1>3, <1>4 DEF IsSlot, MacrosOf, MapOf

Landed(V, E) ==
  \A e \in E : e.macro # Zeroed =>
    \E k \in DOMAIN MacrosOf(model, V) : MacrosOf(model, V)[k].triggers = e.macro.triggers

\* A packed slot after the edits E.
LEMMA PackedEdited ==
  ASSUME IsPacked(model), NEW b, Size(b), NEW U, IsSlot(model, U), U.used,
         NEW E, EditsOf(b, E), Named(E), NEW n \in Nat, NEW q, Arranged(E, n, q),
         \A e \in E : e.macro = Zeroed => e.at \in DOMAIN MacrosOf(model, U),
         NEW V, V = SetMacros(U, q)
  PROVE  /\ IsSlot(model, V) /\ V.used
         /\ MapOf(model, V) = MapOf(model, U)
         /\ EachEncoded(MacrosOf(model, V)) = Pack(AtOnce(EachEncoded(MacrosOf(model, U)), E))
         /\ Landed(V, E)
<1>0. b \in Nat /\ n \in Nat /\ q \in [1..n -> E]
  BY DEF Size, Arranged
<1>1. PICK L \in 0..b : MacrosOf(model, U) \in [1..L -> Macro]
  BY PackedSlot
<1>2. PICK M : M = MacrosOf(model, U)
  OBVIOUS
<1>3. M \in [1..L -> Macro] /\ DOMAIN M = 1..L
  BY <1>1, <1>2
<1>4. EachEncoded(M) \in [1..L -> Macro]
  BY <1>3, ShownIs
<1>5. CASE n = 0
  <2>1. E = {}
    BY <1>5 DEF Arranged
  <2>2. V = U
    <3>1. q \in [1..n -> E]
      BY <1>0
    <3>2. PICK t : OneByOne(t, U, q, n) /\ SetMacros(U, q) = t[n]
      BY <3>1, SetMacrosIs, Zenon
    <3> QED
      BY <1>5, <3>2 DEF OneByOne
  <2>3. AtOnce(EachEncoded(M), {}) = EachEncoded(M)
    BY <1>4, NoEdits
  <2>4. Pack(EachEncoded(M)) = EachEncoded(M)
    BY <1>0, <1>4, PackSequence
  <2> QED
    BY <1>2, <2>1, <2>2, <2>3, <2>4 DEF Landed
<1>6. CASE n # 0
  <2>1. V = WriteSlot(MapKept(U), Records(AtOnce(M, E)))
    <3>1. \A f \in E : f.macro = Zeroed => f.at \in 1..L
      BY <1>2, <1>3
    <3> QED
      BY <1>0, <1>2, <1>3, <1>6, <3>1, PackedChain
  <2>2. PICK A, D : A = AtOnce(M, E) /\ D = DOMAIN A
    OBVIOUS
  <2>3. Upto(b, D) /\ A \in [D -> Macro]
    <3>1. 1..L \subseteq 1..b
      BY <1>0
    <3> QED
      BY <1>3, <2>2, <3>1, AtOnceTyped
  <2>4. PICK R : R = Records(A)
    OBVIOUS
  <2>5. /\ \E c \in 0..b : R \in [1..c -> Macro]
        /\ EachEncoded(R) = R /\ R = Pack(EachEncoded(A))
        /\ \A x \in D : \E k \in DOMAIN R : R[k] = Encoded(A[x])
    BY <2>3, <2>4, RecordsShow
  <2>6. PICK c \in 0..b : R \in [1..c -> Macro]
    BY <2>5
  <2>7. MapKept(U) = MapOf(model, U) /\ MapOf(model, U) \in [Buttons -> Outputs]
    BY PackedSlot
  <2>8. /\ IsSlot(model, V) /\ V.used
        /\ MacrosOf(model, V) = R /\ MapOf(model, V) = MapOf(model, U)
    BY <2>1, <2>2, <2>4, <2>6, <2>7, WrittenSlot
  <2>9. EachEncoded(A) = AtOnce(EachEncoded(M), E)
    BY <1>3, <2>2, ShownAtOnce
  <2>10. Landed(V, E)
    <3> SUFFICES ASSUME NEW e \in E, e.macro # Zeroed
                  PROVE  \E k \in DOMAIN R : R[k].triggers = e.macro.triggers
      BY <2>8 DEF Landed
    <3>1. A[e.at] = e.macro
      BY <2>2, AtOncePut
    <3>2. e.at \in D
      <4>1. D = (DOMAIN M \ Touched(E)) \cup PutAt(E)
        BY <2>2, AtOnceDomain
      <4> QED
        BY <4>1 DEF PutAt
    <3>3. PICK k \in DOMAIN R : R[k] = Encoded(e.macro)
      BY <2>5, <3>1, <3>2
    <3>4. Encoded(e.macro) = e.macro
      BY DEF Named
    <3> QED
      BY <3>3, <3>4
  <2> QED
    BY <1>2, <2>5, <2>8, <2>9, <2>10
<1> QED
  BY <1>5, <1>6

-------------------------------------------------------------------------------
(***************************************************************************)
(* A slotted slot after the edits.                                         *)
(***************************************************************************)
\* Deletes, and macros with steps.
Stepped(E) == \A e \in E : e.macro = Zeroed \/ e.macro.steps # NoSteps

\* The macros of a slotted slot with the descriptors N.
HeldIn(b, N) == [n \in {k \in 1..b : N[k] # Zeroed} |-> N[n]]
ShownIn(b, N) == [n \in {k \in 1..b : N[k] # Zeroed} |-> Encoded(N[n])]

\* What is read of a slotted slot.
LEMMA SlottedSlot ==
  ASSUME ~IsPacked(model), NEW b, Size(b), NEW s, IsSlot(model, s)
  PROVE  /\ s = WithMacros(s, s.macros)
         /\ s.used \in BOOLEAN /\ s.parts \subseteq Sections /\ s.map \in [Buttons -> Outputs]
         /\ s.macros \in [1..b -> Macro] /\ MapOf(model, s) = s.map
         /\ MacrosOf(model, s) = HeldIn(b, s.macros)
<1>1. s \in [used : BOOLEAN, parts : SUBSET Sections, map : [Buttons -> Outputs],
             macros : [1..b -> Macro]]
  BY DEF IsSlot, Lengths, Size
<1>2. DOMAIN s.macros = 1..b
  BY <1>1
<1>3. MacrosOf(model, s) = [n \in {k \in DOMAIN s.macros : s.macros[k] # Zeroed} |-> s.macros[n]]
  BY Zenon DEF MacrosOf
<1>4. MacrosOf(model, s) = [n \in {k \in 1..b : s.macros[k] # Zeroed} |-> s.macros[n]]
  BY <1>2, <1>3, Zenon
<1> QED
  BY <1>1, <1>4 DEF WithMacros, MapOf, HeldIn

\* A slot with other macros and another map is a slot,
LEMMA SlottedIs ==
  ASSUME ~IsPacked(model), NEW b, Size(b), NEW s, IsSlot(model, s),
         NEW N \in [1..b -> Macro], NEW u \in BOOLEAN, NEW map \in [Buttons -> Outputs],
         NEW V, V = [used |-> u, parts |-> s.parts, map |-> map, macros |-> N]
  PROVE  IsSlot(model, V) /\ V.used = u /\ V.map = map /\ V.macros = N
<1>1. s.parts \subseteq Sections
  BY SlottedSlot
<1>2. V \in [used : BOOLEAN, parts : SUBSET Sections, map : [Buttons -> Outputs],
             macros : [1..b -> Macro]]
  BY <1>1
<1> QED
  BY <1>2 DEF IsSlot, Lengths, Size

\* ... one in use when it is so.
LEMMA SlottedUsed ==
  ASSUME ~IsPacked(model), NEW b, Size(b), NEW s, IsSlot(model, s),
         NEW N \in [1..b -> Macro], NEW map \in [Buttons -> Outputs],
         NEW V, V = [used |-> TRUE, parts |-> s.parts, map |-> map, macros |-> N]
  PROVE  IsSlot(model, V) /\ V.used /\ V.map = map /\ V.macros = N
<1>1. s.parts \subseteq Sections
  BY SlottedSlot
<1>2. V \in [used : BOOLEAN, parts : SUBSET Sections, map : [Buttons -> Outputs],
             macros : [1..b -> Macro]]
  BY <1>1
<1> QED
  BY <1>2 DEF IsSlot, Lengths, Size

\* What a slotted slot shows of its macros.
LEMMA SlottedShows ==
  ASSUME ~IsPacked(model), NEW b, Size(b), NEW s, IsSlot(model, s)
  PROVE  EachEncoded(MacrosOf(model, s)) = ShownIn(b, s.macros)
<1> DEFINE K == {k \in 1..b : s.macros[k] # Zeroed}
           M == MacrosOf(model, s)
<1>1. M = [n \in K |-> s.macros[n]]
  BY SlottedSlot DEF HeldIn
<1> HIDE DEF M, K
<1>2. DOMAIN M = K /\ \A n \in K : M[n] = s.macros[n]
  BY <1>1
<1>3. EachEncoded(M) = [n \in DOMAIN M |-> Encoded(M[n])]
  BY Zenon DEF EachEncoded
<1>4. EachEncoded(M) = [n \in K |-> Encoded(s.macros[n])]
  BY <1>2, <1>3
<1> QED
  BY <1>4 DEF M, K, ShownIn

\* The descriptors after the edits E.
LEMMA DescribedIs ==
  ASSUME NEW b, NEW E, EditsOf(b, E), Named(E), NEW M \in [1..b -> Macro]
  PROVE  DescribedWith(M, E) \in [1..b -> Macro]
<1>1. ASSUME NEW x \in 1..b PROVE DescribedWith(M, E)[x] \in Macro
  <2>1. CASE x \in Touched(E)
    <3>1. PICK e \in E : e.at = x
      BY <2>1 DEF Touched
    <3>2. DescribedWith(M, E)[x] = Encoded(e.macro)
      BY <3>1, DescribedPut
    <3>3. e.macro \in Macro
      BY DEF EditsOf, Edit
    <3> QED
      BY <3>2, <3>3 DEF Named
  <2>2. CASE x \notin Touched(E)
    <3>1. DescribedWith(M, E)[x] = M[x]
      BY <2>2, DescribedRest
    <3> QED
      BY <3>1
  <2> QED
    BY <2>1, <2>2
<1>2. DOMAIN DescribedWith(M, E) = 1..b /\ DescribedWith(M, E) = [x \in 1..b |-> DescribedWith(M, E)[x]]
  BY DEF DescribedWith
<1> QED
  BY <1>1, <1>2

\* A slotted slot after the edits E.
LEMMA SlottedEdited ==
  ASSUME ~IsPacked(model), NEW b, Size(b), NEW U, IsSlot(model, U), U.used,
         NEW E, EditsOf(b, E), Named(E), Stepped(E), NEW n \in Nat, NEW q, Arranged(E, n, q),
         NEW V, V = SetMacros(U, q)
  PROVE  /\ IsSlot(model, V) /\ V.used /\ V.map = U.map
         /\ V.macros = DescribedWith(U.macros, E)
         /\ EachEncoded(MacrosOf(model, V)) = AtOnce(EachEncoded(MacrosOf(model, U)), E)
         /\ Landed(V, E)
<1>0. /\ U = WithMacros(U, U.macros) /\ U.used \in BOOLEAN /\ U.map \in [Buttons -> Outputs]
      /\ U.macros \in [1..b -> Macro] /\ DOMAIN U.macros = 1..b
  BY SlottedSlot
<1>1. Touched(E) \subseteq 1..b
  BY DEF Touched, EditsOf
<1>2. V = WithMacros(U, DescribedWith(U.macros, E))
  BY <1>0, <1>1, SlottedChain
<1>3. PICK N : N = DescribedWith(U.macros, E)
  OBVIOUS
<1>4. N \in [1..b -> Macro] /\ DOMAIN N = 1..b
  BY <1>0, <1>3, DescribedIs
<1>5. IsSlot(model, V) /\ V.used /\ V.map = U.map /\ V.macros = N
  BY <1>0, <1>2, <1>3, <1>4, SlottedUsed DEF WithMacros
<1>6. \A e \in E : N[e.at] = e.macro /\ (e.macro # Zeroed => N[e.at] # Zeroed)
  <2> SUFFICES ASSUME NEW e \in E
                PROVE  N[e.at] = e.macro /\ (e.macro # Zeroed => N[e.at] # Zeroed)
    OBVIOUS
  <2>1. e.at \in DOMAIN U.macros
    BY <1>0, <1>1 DEF Touched
  <2>2. N[e.at] = Encoded(e.macro)
    BY <1>3, <2>1, DescribedPut
  <2> QED
    BY <2>2 DEF Named
<1>7. \A x \in 1..b : x \notin Touched(E) => N[x] = U.macros[x]
  <2> SUFFICES ASSUME NEW x \in 1..b, x \notin Touched(E) PROVE N[x] = U.macros[x]
    OBVIOUS
  <2>1. x \in DOMAIN U.macros
    BY <1>0
  <2> QED
    BY <1>3, <2>1, DescribedRest
<1>8. PICK S : S = EachEncoded(MacrosOf(model, U))
  OBVIOUS
<1>9. S = [x \in {k \in 1..b : U.macros[k] # Zeroed} |-> Encoded(U.macros[x])]
  BY <1>8, SlottedShows DEF ShownIn
<1>10. PICK T : T = EachEncoded(MacrosOf(model, V))
  OBVIOUS
<1>11. T = [x \in {k \in 1..b : N[k] # Zeroed} |-> Encoded(N[x])]
  <2>1. T = ShownIn(b, N)
    BY <1>5, <1>10, SlottedShows
  <2> QED
    BY <2>1 DEF ShownIn
<1>12. PICK A : A = AtOnce(S, E)
  OBVIOUS
<1>13. DOMAIN A = (DOMAIN S \ Touched(E)) \cup PutAt(E)
  BY <1>12, AtOnceDomain
<1>14. DOMAIN T = DOMAIN A
  <2>1. \A x \in 1..b : x \notin Touched(E) => (x \in DOMAIN T <=> x \in DOMAIN A)
    <3>1. PutAt(E) \subseteq Touched(E)
      BY DEF PutAt, Touched
    <3> QED
      BY <1>7, <1>9, <1>11, <1>13, <3>1
  <2>2. \A e \in E : e.at \in DOMAIN T <=> e.at \in DOMAIN A
    <3> SUFFICES ASSUME NEW e \in E PROVE e.at \in DOMAIN T <=> e.at \in DOMAIN A
      OBVIOUS
    <3>1. e.at \in 1..b /\ e.at \in Touched(E)
      BY <1>1 DEF Touched
    <3>2. e.at \in PutAt(E) <=> e.macro # Zeroed
      BY DEF PutAt, EditsOf
    <3>3. e.at \in DOMAIN T <=> e.macro # Zeroed
      BY <1>6, <1>11, <3>1
    <3> QED
      BY <1>13, <3>1, <3>2, <3>3
  <2>3. DOMAIN T \subseteq 1..b /\ DOMAIN A \subseteq 1..b
    <3>1. PutAt(E) \subseteq Touched(E)
      BY DEF PutAt, Touched
    <3> QED
      BY <1>1, <1>9, <1>11, <1>13, <3>1
  <2>4. \A x \in Touched(E) : x \in DOMAIN T <=> x \in DOMAIN A
    BY <2>2 DEF Touched
  <2> QED
    BY <2>1, <2>3, <2>4
<1>15. ASSUME NEW x \in DOMAIN T PROVE T[x] = A[x]
  <2>0. x \in 1..b /\ T[x] = Encoded(N[x])
    BY <1>11
  <2>1. CASE x \in PutAt(E)
    <3>1. PICK e \in E : e.macro # Zeroed /\ e.at = x
      BY <2>1 DEF PutAt
    <3>2. A[x] = e.macro
      BY <1>12, <3>1, AtOncePut
    <3>3. N[x] = e.macro
      BY <1>6, <3>1
    <3> QED
      BY <2>0, <3>2, <3>3 DEF Named
  <2>2. CASE x \notin PutAt(E)
    <3>1. x \in DOMAIN S /\ x \notin Touched(E)
      BY <1>13, <1>14, <2>2
    <3>2. A[x] = S[x]
      BY <1>12, <3>1, AtOnceRest
    <3>3. S[x] = Encoded(U.macros[x])
      BY <1>9, <3>1
    <3>4. N[x] = U.macros[x]
      BY <1>7, <2>0, <3>1
    <3> QED
      BY <2>0, <3>2, <3>3, <3>4
  <2> QED
    BY <2>1, <2>2
<1>16. T = [x \in DOMAIN T |-> T[x]] /\ A = [x \in DOMAIN A |-> A[x]]
  BY <1>11, <1>12 DEF AtOnce
<1>17. T = A
  BY <1>14, <1>15, <1>16
<1>18. Landed(V, E)
  <2> SUFFICES ASSUME NEW e \in E, e.macro # Zeroed
                PROVE  \E k \in DOMAIN MacrosOf(model, V) :
                         MacrosOf(model, V)[k].triggers = e.macro.triggers
    BY DEF Landed
  <2>1. e.at \in 1..b /\ N[e.at] = e.macro
    BY <1>1, <1>6 DEF Touched
  <2>2. MacrosOf(model, V) = [x \in {k \in 1..b : N[k] # Zeroed} |-> N[x]]
    <3>1. MacrosOf(model, V) = HeldIn(b, N)
      BY <1>5, SlottedSlot
    <3> QED
      BY <3>1 DEF HeldIn
  <2>3. e.at \in DOMAIN MacrosOf(model, V) /\ MacrosOf(model, V)[e.at] = e.macro
    BY <2>1, <2>2
  <2> QED
    BY <2>3
<1> QED
  BY <1>3, <1>5, <1>8, <1>10, <1>12, <1>17, <1>18

-------------------------------------------------------------------------------
(***************************************************************************)
(* The slot a job edits: its profile and the triggers it drops.            *)
(***************************************************************************)
DroppedFrom(U, d) == IF d # {} THEN DropMacros(model, U, d) ELSE U

\* A packed slot without the triggers it drops,
LEMMA PackedDropped ==
  ASSUME IsPacked(model), NEW b, Size(b), NEW U, IsSlot(model, U), U.used, NEW d,
         NEW W, W = DroppedFrom(U, d)
  PROVE  /\ IsSlot(model, W) /\ W.used /\ MapOf(model, W) = MapOf(model, U)
         /\ EachEncoded(MacrosOf(model, W)) = Without(EachEncoded(MacrosOf(model, U)), d)
         /\ DOMAIN MacrosOf(model, W) = DOMAIN MacrosOf(model, U)
<1>1. PICK L \in 0..b : MacrosOf(model, U) \in [1..L -> Macro]
  BY PackedSlot
<1>2. PICK M : M = MacrosOf(model, U)
  OBVIOUS
<1>3. M \in [1..L -> Macro] /\ DOMAIN M = 1..L
  BY <1>1, <1>2
<1>4. EachEncoded(M) \in [1..L -> Macro] /\ DOMAIN EachEncoded(M) = 1..L
  BY <1>3, ShownIs
<1>5. CASE d = {}
  <2>1. W = U
    BY <1>5 DEF DroppedFrom
  <2>2. Without(EachEncoded(M), {}) = EachEncoded(M)
    BY <1>4, WithoutNone
  <2> QED
    BY <1>2, <1>5, <2>1, <2>2
<1>6. CASE d # {}
  <2>1. W = WriteSlot(MapKept(U), Records(Without(M, d)))
    BY <1>2, <1>6 DEF DroppedFrom, DropMacros
  <2>2. PICK N : N = Without(M, d)
    OBVIOUS
  <2>3. N \in [1..L -> Macro]
    BY <1>3, <2>2, WithoutIs
  <2>4. b \in Nat
    BY DEF Size
  <2>5. Records(N) = EachEncoded(N)
    BY <2>3, <2>4, PackSequence
  <2>6. EachEncoded(N) \in [1..L -> Macro] /\ DOMAIN EachEncoded(N) = 1..L
    BY <2>3, ShownIs
  <2>7. PICK R : R = EachEncoded(N)
    OBVIOUS
  <2>8. MapKept(U) = MapOf(model, U) /\ MapOf(model, U) \in [Buttons -> Outputs]
    BY PackedSlot
  <2>9. IsSlot(model, W) /\ W.used /\ MacrosOf(model, W) = R /\ MapOf(model, W) = MapOf(model, U)
    BY <2>1, <2>2, <2>5, <2>6, <2>7, <2>8, WrittenSlot
  <2>10. EachEncoded(R) = R
    <3>1. \A x \in 1..L : Encoded(Encoded(N[x])) = Encoded(N[x])
      BY <2>3, EncodedTwice
    <3>2. R = [x \in 1..L |-> Encoded(N[x])]
      BY <2>3, <2>7 DEF EachEncoded
    <3>3. EachEncoded(R) = [x \in 1..L |-> Encoded(Encoded(N[x]))]
      BY <3>2 DEF EachEncoded
    <3> QED
      BY <3>1, <3>2, <3>3, Zenon
  <2>11. EachEncoded(N) = Without(EachEncoded(M), d)
    BY <1>3, <2>2, ShownWithout
  <2> QED
    BY <1>2, <1>3, <2>6, <2>7, <2>9, <2>10, <2>11
<1> QED
  BY <1>5, <1>6

\* ... and with the map it is given.
LEMMA PackedUploaded ==
  ASSUME IsPacked(model), NEW b, Size(b), IsSlot(model, Before), Before.used,
         Job.map \in [Buttons -> Outputs] \cup {Keep}, NEW U, U = Uploaded(Before)
  PROVE  /\ IsSlot(model, U) /\ U.used
         /\ MapOf(model, U) = IF Job.map = Keep THEN MapOf(model, Before) ELSE Job.map
         /\ EachEncoded(MacrosOf(model, U)) = Without(EachEncoded(MacrosOf(model, Before)), Job.drops)
         /\ DOMAIN MacrosOf(model, U) = DOMAIN MacrosOf(model, Before)
<1>1. PICK s : s = Before
  OBVIOUS
<1>2. CASE Job.map = Keep
  <2>1. U = DroppedFrom(s, Job.drops)
    BY <1>1, <1>2 DEF Uploaded, DroppedFrom
  <2> QED
    BY <1>1, <1>2, <2>1, PackedDropped
<1>3. CASE Job.map # Keep
  <2>1. PICK T : T = WriteSlot(Job.map, RecordsKept(s))
    OBVIOUS
  <2>2. U = DroppedFrom(T, Job.drops)
    BY <1>1, <1>3, <2>1 DEF Uploaded, DroppedFrom, CompileKeepMacros
  <2>3. PICK M : M = MacrosOf(model, s)
    OBVIOUS
  <2>4. RecordsKept(s) = M /\ \E L \in 0..b : M \in [1..L -> Macro]
    BY <1>1, <2>3, PackedSlot
  <2>5. PICK L \in 0..b : M \in [1..L -> Macro]
    BY <2>4
  <2>6. Job.map \in [Buttons -> Outputs]
    BY <1>3
  <2>7. IsSlot(model, T) /\ T.used /\ MacrosOf(model, T) = M /\ MapOf(model, T) = Job.map
    BY <2>1, <2>4, <2>5, <2>6, WrittenSlot
  <2> QED
    BY <1>1, <1>3, <2>2, <2>3, <2>7, PackedDropped
<1> QED
  BY <1>2, <1>3

\* A slotted model's macros with a trigger have steps.
SteppedSlot(s) == \A n \in DOMAIN s.macros : s.macros[n].triggers # {} => s.macros[n].steps # NoSteps

\* A slotted slot without the triggers it drops,
LEMMA SlottedDropped ==
  ASSUME ~IsPacked(model), NEW b, Size(b), NEW U, IsSlot(model, U), NEW d,
         NEW W, W = DroppedFrom(U, d)
  PROVE  /\ IsSlot(model, W) /\ W.used = U.used /\ W.map = U.map
         /\ W.macros = Without(U.macros, d)
<1>1. /\ U = WithMacros(U, U.macros) /\ U.used \in BOOLEAN /\ U.map \in [Buttons -> Outputs]
      /\ U.macros \in [1..b -> Macro]
  BY SlottedSlot
<1>2. Without(U.macros, d) \in [1..b -> Macro]
  BY <1>1, WithoutIs
<1>3. W = WithMacros(U, Without(U.macros, d))
  <2>1. CASE d = {}
    <3>1. Without(U.macros, {}) = U.macros
      BY <1>1, WithoutNone
    <3> QED
      BY <1>1, <2>1, <3>1 DEF DroppedFrom
  <2>2. CASE d # {}
    <3>1. W = [U EXCEPT !.macros = Without(@, d)]
      BY <2>2 DEF DroppedFrom, DropMacros
    <3> QED
      BY <1>1, <3>1 DEF WithMacros
  <2> QED
    BY <2>1, <2>2
<1> QED
  BY <1>1, <1>2, <1>3, SlottedIs DEF WithMacros

\* A macro that loses its triggers still shows, as it has steps.
LEMMA DroppedShows ==
  ASSUME ~IsPacked(model), NEW b, Size(b), NEW U, IsSlot(model, U), SteppedSlot(U), NEW d,
         NEW W, IsSlot(model, W), W.macros = Without(U.macros, d)
  PROVE  /\ EachEncoded(MacrosOf(model, W)) = Without(EachEncoded(MacrosOf(model, U)), d)
         /\ DOMAIN MacrosOf(model, W) = DOMAIN MacrosOf(model, U)
         /\ SteppedSlot(W)
<1>1. U.macros \in [1..b -> Macro] /\ DOMAIN U.macros = 1..b /\ MacrosOf(model, U) = HeldIn(b, U.macros)
  BY SlottedSlot
<1>2. PICK M, N : M = U.macros /\ N = W.macros
  OBVIOUS
<1>3. /\ M \in [1..b -> Macro] /\ N \in [1..b -> Macro]
      /\ \A n \in 1..b : /\ N[n].triggers = M[n].triggers \ d
                         /\ N[n].steps = M[n].steps /\ N[n].unknown = M[n].unknown
  <2>1. N = Without(M, d) /\ M \in [1..b -> Macro]
    BY <1>1, <1>2
  <2>2. N \in [1..b -> Macro] /\ \A n \in 1..b : Less(M[n], d, N[n])
    BY <2>1, WithoutIs
  <2> QED
    BY <2>1, <2>2 DEF Less
<1>4. \A n \in 1..b : M[n].triggers # {} => M[n].steps # NoSteps
  BY <1>1, <1>2 DEF SteppedSlot
<1>5. \A n \in 1..b : M[n] # Zeroed <=> N[n] # Zeroed
  <2> SUFFICES ASSUME NEW n \in 1..b PROVE M[n] # Zeroed <=> N[n] # Zeroed
    OBVIOUS
  <2>1. M[n] \in Macro /\ N[n] \in Macro
    BY <1>3
  <2>2. \A m \in Macro : m = Zeroed <=> m.triggers = {} /\ m.steps = NoSteps /\ m.unknown = FALSE
    BY DEF Macro, Zeroed
  <2>3. M[n] = Zeroed <=> M[n].triggers = {} /\ M[n].steps = NoSteps /\ M[n].unknown = FALSE
    BY <2>1, <2>2
  <2>4. N[n] = Zeroed <=> N[n].triggers = {} /\ N[n].steps = NoSteps /\ N[n].unknown = FALSE
    BY <2>1, <2>2
  <2> QED
    BY <1>3, <1>4, <2>3, <2>4
<1>6. PICK K : K = {k \in 1..b : M[k] # Zeroed}
  OBVIOUS
<1>7. {k \in 1..b : N[k] # Zeroed} = K /\ K \subseteq 1..b
  BY <1>5, <1>6
<1>8. MacrosOf(model, W) = HeldIn(b, N) /\ MacrosOf(model, U) = HeldIn(b, M)
  BY <1>1, <1>2, SlottedSlot
<1>9. MacrosOf(model, W) = [n \in K |-> N[n]] /\ MacrosOf(model, U) = [n \in K |-> M[n]]
  BY <1>6, <1>7, <1>8, Zenon DEF HeldIn
<1>10. N = Without(M, d)
  BY <1>2
<1>11. [n \in K |-> N[n]] = Without([n \in K |-> M[n]], d)
  <2>1. \A n \in K : N[n] = [M[n] EXCEPT !.triggers = @ \ d]
    BY <1>3, <1>7, <1>10 DEF Without
  <2>2. Without([n \in K |-> M[n]], d) = [n \in K |-> [M[n] EXCEPT !.triggers = @ \ d]]
    BY DEF Without
  <2> QED
    BY <2>1, <2>2, Zenon
<1>12. PICK H : H = [n \in K |-> M[n]]
  OBVIOUS
<1>13. H \in [K -> Macro]
  BY <1>3, <1>7, <1>12
<1>14. EachEncoded(Without(H, d)) = Without(EachEncoded(H), d)
  BY <1>13, ShownWithout
<1>15. SteppedSlot(W)
  BY <1>2, <1>3, <1>4 DEF SteppedSlot
<1> QED
  BY <1>9, <1>11, <1>12, <1>14, <1>15

\* ... and with the map it is given.
LEMMA SlottedUploaded ==
  ASSUME ~IsPacked(model), NEW b, Size(b), IsSlot(model, Before), Before.used,
         Job.map \in [Buttons -> Outputs] \cup {Keep}, NEW U, U = Uploaded(Before)
  PROVE  /\ IsSlot(model, U) /\ U.used
         /\ U.map = IF Job.map = Keep THEN Before.map ELSE Job.map
         /\ U.macros = Without(Before.macros, Job.drops)
<1>1. PICK s : s = Before
  OBVIOUS
<1>2. CASE Job.map = Keep
  <2>1. U = DroppedFrom(s, Job.drops)
    BY <1>1, <1>2 DEF Uploaded, DroppedFrom
  <2> QED
    BY <1>1, <1>2, <2>1, SlottedDropped
<1>3. CASE Job.map # Keep
  <2>1. PICK T : T = [used |-> TRUE, parts |-> s.parts, map |-> Job.map, macros |-> s.macros]
    OBVIOUS
  <2>2. s = WithMacros(s, s.macros) /\ s.macros \in [1..b -> Macro]
    BY <1>1, SlottedSlot
  <2>3. CompileKeepMacros(model, s, Job.map) = T
    <3>1. CompileKeepMacros(model, s, Job.map) = [s EXCEPT !.used = TRUE, !.map = Job.map]
      BY DEF CompileKeepMacros
    <3>2. PICK u, p, m, c : s = [used |-> u, parts |-> p, map |-> m, macros |-> c]
      BY <2>2 DEF WithMacros
    <3> QED
      BY <2>1, <3>1, <3>2
  <2>4. U = DroppedFrom(T, Job.drops)
    BY <1>1, <1>3, <2>3 DEF Uploaded, DroppedFrom
  <2>5. Job.map \in [Buttons -> Outputs]
    BY <1>3
  <2>6. IsSlot(model, T) /\ T.used /\ T.map = Job.map /\ T.macros = s.macros
    BY <1>1, <2>1, <2>2, <2>5, SlottedUsed
  <2> QED
    BY <1>1, <1>3, <2>4, <2>6, SlottedDropped
<1> QED
  BY <1>2, <1>3

Bare(b) == [n \in 1..b |-> Zeroed]

\* The zeroed macro is a macro, and shows as it is.
LEMMA ZeroedIs == Zeroed \in Macro /\ Encoded(Zeroed) = Zeroed
<1>1. {} \in SUBSET Buttons /\ FALSE \in BOOLEAN /\ NoSteps \in StepLists
  BY BankConstants
<1>2. Zeroed \in Macro
  BY <1>1 DEF Zeroed, Macro
<1>3. Encoded(Zeroed) = Zeroed
  <2>1. \A m \in Macro : ~m.unknown => Encoded(m) = m
    BY DEF Macro, Encoded
  <2>2. ~Zeroed.unknown
    BY DEF Zeroed
  <2> QED
    BY <1>2, <2>1, <2>2
<1> QED
  BY <1>2, <1>3

\* An upload to an empty slot starts without macros, whatever it left stored.
LEMMA NewUploaded ==
  ASSUME NEW b, Size(b), IsSlot(model, Before), ~Before.used,
         Job.map \in [Buttons -> Outputs], Job.map # Keep, NEW U, U = Uploaded(Before)
  PROVE  /\ IsSlot(model, U) /\ U.used /\ MapOf(model, U) = Job.map
         /\ EachEncoded(MacrosOf(model, U)) = NoMacros /\ DOMAIN MacrosOf(model, U) = {}
         /\ ~IsPacked(model) => U.macros = Bare(b) /\ U.map = Job.map
<1>1. U = Compile(model, Before, Job.map)
  BY DEF Uploaded
<1>2. CASE IsPacked(model)
  <2>1. U = WriteSlot(Job.map, <<>>)
    BY <1>1, <1>2 DEF Compile
  <2>2. 0 \in 0..b /\ <<>> \in [1..0 -> Macro]
    BY NothingHeld DEF Size
  <2>3. IsSlot(model, U) /\ U.used /\ MacrosOf(model, U) = <<>> /\ MapOf(model, U) = Job.map
    BY <1>2, <2>1, <2>2, WrittenSlot
  <2> QED
    BY <1>2, <2>3, NothingHeld
<1>3. CASE ~IsPacked(model)
  <2>1. PICK s : s = Before
    OBVIOUS
  <2>2. s = WithMacros(s, s.macros)
    BY <1>3, <2>1, SlottedSlot
  <2>3. MacroSlots(model) = 1..b
    BY DEF MacroSlots, Size
  <2>4. U = [used |-> TRUE, parts |-> s.parts, map |-> Job.map, macros |-> Bare(b)]
    BY <1>1, <1>3, <2>1, <2>2, <2>3 DEF Compile, WithMacros, Bare
  <2>5. Bare(b) \in [1..b -> Macro]
    BY ZeroedIs DEF Bare
  <2>6. IsSlot(model, U) /\ U.used /\ U.map = Job.map /\ U.macros = Bare(b)
    BY <1>3, <2>1, <2>4, <2>5, SlottedUsed
  <2>7. MapOf(model, U) = Job.map /\ MacrosOf(model, U) = HeldIn(b, Bare(b))
    BY <1>3, <2>6, SlottedSlot
  <2>8. HeldIn(b, Bare(b)) = NoMacros
    <3>1. {k \in 1..b : Bare(b)[k] # Zeroed} = {}
      BY DEF Bare
    <3> QED
      BY <3>1 DEF HeldIn, NoMacros
  <2> QED
    BY <1>3, <2>6, <2>7, <2>8, NothingHeld
<1> QED
  BY <1>2, <1>3

\* The edits of a job that no bank can take: of no profile, of no macro slot, or of one twice.
EditsRefused ==
  /\ Job.edits # <<>>
  /\ \/ ~Before.used /\ Job.map = Keep
     \/ \E i \in DOMAIN Job.edits : Job.edits[i].at \notin MacroSlots(model)
     \/ \E i, j \in DOMAIN Job.edits : i # j /\ Job.edits[i].at = Job.edits[j].at

\* A job that uploads, with edits that can be made. What it leaves may still be refused.
Uploads(b) ==
  /\ Size(b) /\ JobShape(Job) /\ Job.op = "upload" /\ ~EditsRefused /\ Job.sound
  /\ IsSlot(model, Before) /\ banks[Place(Job)] = Before

\* The edits of an upload that passed the checks, and those with something to do.
LEMMA JobEdits ==
  ASSUME NEW b, Uploads(b), NEW E, E = ToSet(Job.edits)
  PROVE  /\ EditsOf(b, E) /\ Named(E) /\ Stepped(E)
         /\ EditsOf(b, Effective) /\ Named(Effective) /\ Stepped(Effective)
         /\ Effective \subseteq E
<1> DEFINE q == Job.edits
<1>1. q \in Seq(Edit) /\ \A i \in DOMAIN q : q[i] \in Edit
  BY DEF Uploads, JobShape
<1>2. \A i \in DOMAIN q : LET macro == q[i].macro
                          IN  macro = Zeroed \/ (macro.steps # NoSteps /\ ~macro.unknown)
  BY DEF Uploads, JobShape
<1>3. \A i \in DOMAIN q : q[i].at \in 1..b
  <2> SUFFICES ASSUME NEW i \in DOMAIN q PROVE q[i].at \in 1..b
    OBVIOUS
  <2>1. q # <<>>
    BY <1>1
  <2> QED
    BY <2>1 DEF Uploads, EditsRefused, MacroSlots, Size
<1>4. \A i, j \in DOMAIN q : q[i].at = q[j].at => i = j
  <2> SUFFICES ASSUME NEW i \in DOMAIN q, NEW j \in DOMAIN q, q[i].at = q[j].at PROVE i = j
    OBVIOUS
  <2>1. q # <<>>
    BY <1>1
  <2> QED
    BY <2>1 DEF Uploads, EditsRefused
<1>5. E = {q[i] : i \in DOMAIN q}
  BY DEF ToSet
<1> HIDE DEF q
<1>6. EditsOf(b, E)
  <2>1. E \subseteq Edit /\ \A e \in E : e.at \in 1..b
    BY <1>1, <1>3, <1>5
  <2>2. \A e, f \in E : e.at = f.at => e = f
    BY <1>4, <1>5
  <2> QED
    BY <2>1, <2>2 DEF EditsOf, Uploads, Size
<1>7. Named(E)
  <2> SUFFICES ASSUME NEW i \in DOMAIN q PROVE Encoded(q[i].macro) = q[i].macro
    BY <1>5 DEF Named
  <2>1. q[i].macro \in Macro
    BY <1>1 DEF Edit
  <2>2. \A m \in Macro : ~m.unknown => Encoded(m) = m
    BY DEF Macro, Encoded
  <2>3. q[i].macro = Zeroed \/ ~q[i].macro.unknown
    BY <1>2
  <2> QED
    BY <2>1, <2>2, <2>3, ZeroedIs
<1>8. Stepped(E)
  BY <1>2, <1>5 DEF Stepped
<1>9. Effective \subseteq E
  BY DEF Effective
<1>10. EditsOf(b, Effective)
  BY <1>6, <1>9, FewerEdits
<1>11. Named(Effective) /\ Stepped(Effective)
  BY <1>7, <1>8, <1>9 DEF Named, Stepped
<1> QED
  BY <1>6, <1>7, <1>8, <1>9, <1>10, <1>11

-------------------------------------------------------------------------------
(***************************************************************************)
(* The slot a job leaves, for each kind of slot it may find.               *)
(***************************************************************************)
MapAsked == IF Job.map = Keep THEN MapOf(model, Before) ELSE Job.map
MacrosAsked == Settled(model, AtOnce(Without(EachEncoded(Held), Job.drops), Effective))

\* An upload makes its edits one by one, in their order.
LEMMA EditsInOrder ==
  ASSUME NEW b, Uploads(b), NEW U, U = Uploaded(Before)
  PROVE  \E n \in Nat : \E q : Arranged(Effective, n, q) /\ Built = SetMacros(U, q)
<1>1. EditsOf(b, Effective)
  BY JobEdits
<1>2. Arranged(Effective, Cardinality(Effective), Ordered(Effective))
  BY <1>1, OrderedIs
<1>3. Cardinality(Effective) \in Nat
  BY <1>2 DEF Arranged
<1>4. Built = SetMacros(U, Ordered(Effective))
  BY DEF Built, Uploads
<1> QED
  BY <1>2, <1>3, <1>4

\* An upload to a packed slot in use.
LEMMA UsedPacked ==
  ASSUME NEW b, Uploads(b), IsPacked(model), Before.used, NEW V, V = Built
  PROVE  /\ IsSlot(model, V) /\ V.used /\ MapOf(model, V) = MapAsked
         /\ Landed(V, Effective) /\ EachEncoded(MacrosOf(model, V)) = MacrosAsked
<1>1. PICK U : U = Uploaded(Before)
  OBVIOUS
<1>2. PICK n, q : n \in Nat /\ Arranged(Effective, n, q) /\ Built = SetMacros(U, q)
  BY <1>1, EditsInOrder
<1>3. PICK E : E = Effective
  OBVIOUS
<1>4. Size(b) /\ IsSlot(model, Before) /\ Job.map \in [Buttons -> Outputs] \cup {Keep}
  BY DEF Uploads, JobShape
<1>5. /\ IsSlot(model, U) /\ U.used /\ MapOf(model, U) = MapAsked
      /\ EachEncoded(MacrosOf(model, U)) = Without(EachEncoded(MacrosOf(model, Before)), Job.drops)
      /\ DOMAIN MacrosOf(model, U) = DOMAIN MacrosOf(model, Before)
  BY <1>1, <1>4, PackedUploaded DEF MapAsked
<1>6. EditsOf(b, E) /\ Named(E)
  BY <1>3, JobEdits
<1>7. Held = MacrosOf(model, Before)
  BY DEF Held
<1>8. \A e \in E : e.macro = Zeroed => e.at \in DOMAIN MacrosOf(model, U)
  BY <1>3, <1>5, <1>7 DEF Effective
<1>9. /\ IsSlot(model, V) /\ V.used /\ MapOf(model, V) = MapOf(model, U)
      /\ EachEncoded(MacrosOf(model, V)) = Pack(AtOnce(EachEncoded(MacrosOf(model, U)), E))
      /\ Landed(V, E)
  BY <1>2, <1>3, <1>4, <1>5, <1>6, <1>8, PackedEdited
<1> QED
  BY <1>3, <1>5, <1>7, <1>9 DEF MacrosAsked, Settled

\* An upload to a slotted slot in use.
LEMMA UsedSlotted ==
  ASSUME NEW b, Uploads(b), ~IsPacked(model), Before.used, NEW V, V = Built
  PROVE  /\ IsSlot(model, V) /\ V.used /\ MapOf(model, V) = MapAsked
         /\ V.macros = DescribedWith(Without(Before.macros, Job.drops), Effective)
         /\ Landed(V, Effective)
         /\ SteppedSlot(Before) => EachEncoded(MacrosOf(model, V)) = MacrosAsked
<1>1. PICK U : U = Uploaded(Before)
  OBVIOUS
<1>2. PICK n, q : n \in Nat /\ Arranged(Effective, n, q) /\ Built = SetMacros(U, q)
  BY <1>1, EditsInOrder
<1>3. PICK E : E = Effective
  OBVIOUS
<1>4. Size(b) /\ IsSlot(model, Before) /\ Job.map \in [Buttons -> Outputs] \cup {Keep}
  BY DEF Uploads, JobShape
<1>5. /\ IsSlot(model, U) /\ U.used
      /\ U.map = IF Job.map = Keep THEN Before.map ELSE Job.map
      /\ U.macros = Without(Before.macros, Job.drops)
  BY <1>1, <1>4, SlottedUploaded
<1>6. EditsOf(b, E) /\ Named(E) /\ Stepped(E)
  BY <1>3, JobEdits
<1>7. Held = MacrosOf(model, Before)
  BY DEF Held
<1>8. /\ IsSlot(model, V) /\ V.used /\ V.map = U.map
      /\ V.macros = DescribedWith(U.macros, E)
      /\ EachEncoded(MacrosOf(model, V)) = AtOnce(EachEncoded(MacrosOf(model, U)), E)
      /\ Landed(V, E)
  BY <1>2, <1>3, <1>4, <1>5, <1>6, SlottedEdited
<1>9. MapOf(model, V) = V.map /\ MapOf(model, Before) = Before.map
  BY DEF MapOf
<1>10. ASSUME SteppedSlot(Before)
       PROVE  EachEncoded(MacrosOf(model, U)) = Without(EachEncoded(MacrosOf(model, Before)), Job.drops)
  <2>1. PICK s : s = Before
    OBVIOUS
  <2> QED
    BY <1>4, <1>5, <1>10, <2>1, DroppedShows
<1> QED
  BY <1>3, <1>5, <1>7, <1>8, <1>9, <1>10 DEF MapAsked, MacrosAsked, Settled

\* An upload of a profile to an empty slot.
LEMMA NewSlot ==
  ASSUME NEW b, Uploads(b), ~Before.used, Job.map # Keep, NEW V, V = Built
  PROVE  /\ IsSlot(model, V) /\ V.used /\ MapOf(model, V) = MapAsked
         /\ ~IsPacked(model) => V.macros = DescribedWith(Bare(b), Effective)
         /\ Landed(V, Effective) /\ EachEncoded(MacrosOf(model, V)) = MacrosAsked
<1>1. PICK U : U = Uploaded(Before)
  OBVIOUS
<1>2. PICK n, q : n \in Nat /\ Arranged(Effective, n, q) /\ Built = SetMacros(U, q)
  BY <1>1, EditsInOrder
<1>3. PICK E : E = Effective
  OBVIOUS
<1>4. Size(b) /\ IsSlot(model, Before) /\ Job.map \in [Buttons -> Outputs]
  BY DEF Uploads, JobShape
<1>5. /\ IsSlot(model, U) /\ U.used /\ MapOf(model, U) = Job.map
      /\ EachEncoded(MacrosOf(model, U)) = NoMacros /\ DOMAIN MacrosOf(model, U) = {}
      /\ ~IsPacked(model) => U.macros = Bare(b) /\ U.map = Job.map
  BY <1>1, <1>4, NewUploaded
<1>6. EditsOf(b, E) /\ Named(E) /\ Stepped(E)
  BY <1>3, JobEdits
<1>7. Held = NoMacros
  BY DEF Held
<1>8. Without(EachEncoded(Held), Job.drops) = NoMacros
  BY <1>7, NothingHeld
<1>9. \A e \in E : e.macro # Zeroed
  BY <1>3, <1>7, NothingHeld DEF Effective
<1>10. CASE IsPacked(model)
  <2>1. /\ IsSlot(model, V) /\ V.used /\ MapOf(model, V) = MapOf(model, U)
        /\ EachEncoded(MacrosOf(model, V)) = Pack(AtOnce(EachEncoded(MacrosOf(model, U)), E))
        /\ Landed(V, E)
    BY <1>2, <1>3, <1>4, <1>5, <1>6, <1>9, <1>10, PackedEdited
  <2> QED
    BY <1>3, <1>5, <1>8, <1>10, <2>1 DEF MapAsked, MacrosAsked, Settled
<1>11. CASE ~IsPacked(model)
  <2>1. /\ IsSlot(model, V) /\ V.used /\ V.map = U.map
        /\ V.macros = DescribedWith(U.macros, E)
        /\ EachEncoded(MacrosOf(model, V)) = AtOnce(EachEncoded(MacrosOf(model, U)), E)
        /\ Landed(V, E)
    BY <1>2, <1>3, <1>4, <1>5, <1>6, <1>11, SlottedEdited
  <2>2. MapOf(model, V) = V.map
    BY <1>11 DEF MapOf
  <2> QED
    BY <1>3, <1>5, <1>8, <1>11, <2>1, <2>2 DEF MapAsked, MacrosAsked, Settled
<1> QED
  BY <1>10, <1>11

\* An upload without a profile to an empty slot has no edits, and changes nothing.
LEMMA KeptEmpty ==
  ASSUME NEW b, Uploads(b), ~Before.used, Job.map = Keep, NEW V, V = Built
  PROVE  V = Before /\ Effective = {} /\ Job.edits = <<>>
<1>1. Job.edits = <<>>
  BY DEF Uploads, EditsRefused
<1>2. ToSet(Job.edits) = {}
  BY <1>1 DEF ToSet
<1>3. Effective = {}
  BY <1>2 DEF Effective
<1>4. Uploaded(Before) = Before
  BY DEF Uploaded
<1>5. PICK n, q : n \in Nat /\ Arranged(Effective, n, q) /\ V = SetMacros(Before, q)
  BY <1>4, EditsInOrder
<1>6. n = 0 /\ q \in [1..n -> Effective]
  BY <1>3, <1>5 DEF Arranged
<1>7. PICK t : OneByOne(t, Before, q, n) /\ SetMacros(Before, q) = t[n]
  BY <1>6, SetMacrosIs, Zenon
<1> QED
  BY <1>1, <1>3, <1>5, <1>6, <1>7 DEF OneByOne

-------------------------------------------------------------------------------
(***************************************************************************)
(* The promise's operators are the model's.                                *)
(***************************************************************************)
LEMMA SamePack ==
  /\ \A M : Promise!Settled(model, M) = Settled(model, M)
  /\ \A M, d : Promise!Without(M, d) = Without(M, d)
  /\ Promise!Zeroed = Zeroed /\ Promise!NoMacros = NoMacros
<1>0. \A S : Promise!Cardinality(S) = Cardinality(S)
  BY Zenon DEF Promise!Cardinality, Cardinality
<1>1. \A S : Promise!InOrder(S) = InOrder(S)
  BY <1>0, Zenon DEF Promise!InOrder, InOrder
<1>2. \A M : Promise!Pack(M) = Pack(M)
  BY <1>1, Zenon DEF Promise!Pack, Pack
<1>3. \A M : Promise!Settled(model, M) = Settled(model, M)
  BY <1>2, Zenon DEF Promise!Settled, Settled, Promise!IsPacked, IsPacked
<1>4. \A M, d : Promise!Without(M, d) = Without(M, d)
  BY Zenon DEF Promise!Without, Without
<1> QED
  BY <1>3, <1>4, Zenon DEF Promise!Zeroed, Zeroed, Promise!NoMacros, NoMacros

\* The edits of a job by macro slot, as the promise looks them up.
EditAt(q, n) == q[CHOOSE i \in DOMAIN q : q[i].at = n].macro

\* What the promise asks of the edits of a job is what all at once leave.
LEMMA EditedAtOnce ==
  ASSUME NEW q \in Seq(Edit), NEW b, NEW E, E = ToSet(q), EditsOf(b, E), NEW M
  PROVE  Promise!Edited(M, q) = AtOnce(M, E)
<1>1. E = {q[i] : i \in DOMAIN q}
  BY DEF ToSet
<1>2. {q[i].at : i \in DOMAIN q} = Touched(E)
  BY <1>1 DEF Touched
<1>3. \A e \in E : EditAt(q, e.at) = e.macro
  <2> SUFFICES ASSUME NEW e \in E PROVE EditAt(q, e.at) = e.macro
    OBVIOUS
  <2> DEFINE c == CHOOSE i \in DOMAIN q : q[i].at = e.at
  <2>1. c \in DOMAIN q /\ q[c].at = e.at
    BY <1>1
  <2>2. EditAt(q, e.at) = q[c].macro
    BY DEF EditAt
  <2> HIDE DEF c
  <2>3. q[c] \in E
    BY <1>1, <2>1
  <2> QED
    BY <2>1, <2>2, <2>3 DEF EditsOf
<1>4. {n \in Touched(E) : EditAt(q, n) # Promise!Zeroed} = PutAt(E)
  BY <1>3, SamePack DEF Touched, PutAt
<1>5. Promise!Edited(M, q) = [n \in (DOMAIN M \ Touched(E)) \cup PutAt(E) |->
                                IF n \in PutAt(E) THEN EditAt(q, n) ELSE M[n]]
  BY <1>2, <1>4, Zenon DEF Promise!Edited, EditAt
<1>6. \A n \in PutAt(E) : EditAt(q, n) = (CHOOSE e \in E : e.at = n).macro
  <2> SUFFICES ASSUME NEW e \in E PROVE EditAt(q, e.at) = (CHOOSE f \in E : f.at = e.at).macro
    BY DEF PutAt
  <2> DEFINE c == CHOOSE f \in E : f.at = e.at
  <2>1. c \in E /\ c.at = e.at
    OBVIOUS
  <2> HIDE DEF c
  <2>2. c = e
    BY <2>1 DEF EditsOf
  <2> QED
    BY <1>3, <2>2 DEF c
<1>7. AtOnce(M, E) = [n \in (DOMAIN M \ Touched(E)) \cup PutAt(E) |->
                        IF n \in PutAt(E) THEN EditAt(q, n) ELSE M[n]]
  BY <1>6, Zenon DEF AtOnce
<1> QED
  BY <1>5, <1>7

-------------------------------------------------------------------------------
(***************************************************************************)
(* Each kind of job shows what it was asked for.                           *)
(***************************************************************************)
EmptyView == [used |-> FALSE, map |-> DefaultMap, macros |-> NoMacros]
UsedView(map, macros) == [used |-> TRUE, map |-> map, macros |-> macros]

\* What is shown of a slot in use, and of an empty one.
LEMMA ViewIs ==
  ASSUME NEW s
  PROVE  /\ s.used => View(s) = UsedView(MapOf(model, s), EachEncoded(MacrosOf(model, s)))
         /\ ~s.used => View(s) = EmptyView
BY DEF View, UsedView, EmptyView

\* The macros the promise asks for are those the edits in effect leave.
LEMMA MacrosAreAsked ==
  ASSUME NEW b, Uploads(b)
  PROVE  Promise!Settled(model, Promise!Edited(Promise!Without(EachEncoded(Held), Job.drops), Job.edits))
           = MacrosAsked
<1>1. PICK E : E = ToSet(Job.edits)
  OBVIOUS
<1>2. EditsOf(b, E) /\ Effective \subseteq E
  BY <1>1, JobEdits
<1>3. PICK M : M = Without(EachEncoded(Held), Job.drops)
  OBVIOUS
<1>4. DOMAIN M = DOMAIN Held
  BY <1>3 DEF Without, EachEncoded
<1>5. \A e \in E : e \in Effective \/ (e.macro = Zeroed /\ e.at \notin DOMAIN M)
  BY <1>1, <1>4 DEF Effective
<1>6. AtOnce(M, Effective) = AtOnce(M, E)
  BY <1>2, <1>5, SkippedDeletes
<1>7. Job.edits \in Seq(Edit)
  BY DEF Uploads, JobShape
<1>8. Promise!Edited(M, Job.edits) = AtOnce(M, E)
  BY <1>1, <1>2, <1>7, EditedAtOnce
<1>9. Promise!Without(EachEncoded(Held), Job.drops) = M
  BY <1>3, SamePack
<1>10. Promise!Settled(model, AtOnce(M, Effective)) = Settled(model, AtOnce(M, Effective))
  BY SamePack
<1> QED
  BY <1>3, <1>6, <1>8, <1>9, <1>10 DEF MacrosAsked

\* The upload shows what it was asked for.
LEMMA UploadAsked ==
  ASSUME NEW b, Uploads(b), IsPacked(model) \/ SteppedSlot(Before), NEW V, V = Built
  PROVE  View(V) = Promise!AsAsked(View(Before), Job)
<1>0. Job.op = "upload"
  BY DEF Uploads
<1>1. CASE Before.used
  <2>1. V.used /\ MapOf(model, V) = MapAsked /\ EachEncoded(MacrosOf(model, V)) = MacrosAsked
    BY <1>1, UsedPacked, UsedSlotted
  <2>2. View(V) = UsedView(MapAsked, MacrosAsked)
    BY <2>1, ViewIs
  <2>3. Held = MacrosOf(model, Before)
    BY <1>1 DEF Held
  <2>4. PICK w : w = View(Before)
    OBVIOUS
  <2>5. w.used = TRUE /\ w.map = MapOf(model, Before) /\ w.macros = EachEncoded(Held)
    BY <1>1, <2>3, <2>4, ViewIs DEF UsedView
  <2>6. Promise!AsAsked(w, Job) =
          UsedView(IF Job.map = Keep THEN w.map ELSE Job.map,
                   Promise!Settled(model, Promise!Edited(Promise!Without(w.macros, Job.drops), Job.edits)))
    BY <1>0, <2>5 DEF Promise!AsAsked, UsedView
  <2> QED
    BY <2>2, <2>4, <2>5, <2>6, MacrosAreAsked DEF MapAsked
<1>2. CASE ~Before.used /\ Job.map # Keep
  <2>1. V.used /\ MapOf(model, V) = MapAsked /\ EachEncoded(MacrosOf(model, V)) = MacrosAsked
    BY <1>2, NewSlot
  <2>2. View(V) = UsedView(MapAsked, MacrosAsked)
    BY <2>1, ViewIs
  <2>3. Held = NoMacros /\ EachEncoded(Held) = NoMacros
    BY <1>2, NothingHeld DEF Held
  <2>4. PICK w : w = View(Before)
    OBVIOUS
  <2>5. w.used = FALSE /\ w.macros = EachEncoded(Held)
    BY <1>2, <2>3, <2>4, ViewIs DEF EmptyView
  <2>6. Promise!AsAsked(w, Job) =
          UsedView(Job.map,
                   Promise!Settled(model, Promise!Edited(Promise!Without(w.macros, Job.drops), Job.edits)))
    BY <1>0, <1>2, <2>5 DEF Promise!AsAsked, UsedView
  <2> QED
    BY <1>2, <2>2, <2>4, <2>5, <2>6, MacrosAreAsked DEF MapAsked
<1>3. CASE ~Before.used /\ Job.map = Keep
  <2>1. V = Before
    BY <1>3, KeptEmpty
  <2>2. View(Before) = EmptyView
    BY <1>3, ViewIs
  <2> QED
    BY <1>0, <1>3, <2>1, <2>2 DEF Promise!AsAsked, EmptyView
<1> QED
  BY <1>1, <1>2, <1>3

\* A job that remaps a button of a slot in use.
Remaps(b) ==
  /\ Size(b) /\ JobShape(Job) /\ Job.op = "remap" /\ Before.used
  /\ IsSlot(model, Before) /\ banks[Place(Job)] = Before

\* A remap changes one button and no macro,
LEMMA RemapBuilt ==
  ASSUME NEW b, Remaps(b), NEW V, V = Built
  PROVE  /\ IsSlot(model, V) /\ V.used
         /\ MapOf(model, V) = [MapOf(model, Before) EXCEPT ![Job.button] = Job.output]
         /\ MacrosOf(model, V) = MacrosOf(model, Before)
         /\ ~IsPacked(model) => V.macros = Before.macros
<1>1. PICK s, map : s = Before /\ map = [MapOf(model, s) EXCEPT ![Job.button] = Job.output]
  OBVIOUS
<1>2. Size(b) /\ IsSlot(model, s) /\ s.used
  BY <1>1 DEF Remaps
<1>3. MapOf(model, s) \in [Buttons -> Outputs]
  BY <1>2, PackedSlot, SlottedSlot
<1>4. map \in [Buttons -> Outputs]
  BY <1>1, <1>3 DEF Remaps, JobShape
<1>5. V = CompileKeepMacros(model, s, map)
  BY <1>1 DEF Built, Remapped, Remaps
<1>6. CASE IsPacked(model)
  <2>1. PICK R : R = MacrosOf(model, s)
    OBVIOUS
  <2>2. RecordsKept(s) = R /\ \E L \in 0..b : R \in [1..L -> Macro]
    BY <1>2, <1>6, <2>1, PackedSlot
  <2>3. PICK L \in 0..b : R \in [1..L -> Macro]
    BY <2>2
  <2>4. V = WriteSlot(map, R)
    BY <1>5, <1>6, <2>2 DEF CompileKeepMacros
  <2>5. IsSlot(model, V) /\ V.used /\ MacrosOf(model, V) = R /\ MapOf(model, V) = map
    BY <1>2, <1>4, <1>6, <2>3, <2>4, WrittenSlot
  <2> QED
    BY <1>1, <1>6, <2>1, <2>5
<1>7. CASE ~IsPacked(model)
  <2>1. s = WithMacros(s, s.macros) /\ s.macros \in [1..b -> Macro] /\ MacrosOf(model, s) = HeldIn(b, s.macros)
    BY <1>2, <1>7, SlottedSlot
  <2>2. V = [used |-> TRUE, parts |-> s.parts, map |-> map, macros |-> s.macros]
    <3>1. V = [s EXCEPT !.used = TRUE, !.map = map]
      BY <1>5, <1>7 DEF CompileKeepMacros
    <3>2. PICK u, p, m, c : s = [used |-> u, parts |-> p, map |-> m, macros |-> c]
      BY <2>1 DEF WithMacros
    <3> QED
      BY <3>1, <3>2
  <2>3. IsSlot(model, V) /\ V.used /\ V.map = map /\ V.macros = s.macros
    BY <1>2, <1>4, <1>7, <2>1, <2>2, SlottedUsed
  <2>4. MacrosOf(model, V) = HeldIn(b, V.macros) /\ MapOf(model, V) = V.map
    BY <1>2, <1>7, <2>3, SlottedSlot
  <2> QED
    BY <1>1, <2>1, <2>3, <2>4
<1> QED
  BY <1>6, <1>7

\* ... and shows what it was asked for.
LEMMA RemapAsked ==
  ASSUME NEW b, Remaps(b), NEW V, V = Built
  PROVE  View(V) = Promise!AsAsked(View(Before), Job)
<1>1. Job.op = "remap" /\ Before.used
  BY DEF Remaps
<1>2. View(V) = UsedView([MapOf(model, Before) EXCEPT ![Job.button] = Job.output],
                         EachEncoded(MacrosOf(model, Before)))
  BY RemapBuilt, ViewIs
<1>3. PICK w, m, c : w = View(Before) /\ m = MapOf(model, Before) /\ c = EachEncoded(MacrosOf(model, Before))
  OBVIOUS
<1>4. w = [used |-> TRUE, map |-> m, macros |-> c]
  BY <1>1, <1>3, ViewIs DEF UsedView
<1>5. Promise!AsAsked(w, Job) = [w EXCEPT !.map[Job.button] = Job.output]
  BY <1>1, <1>4 DEF Promise!AsAsked
<1>6. [w EXCEPT !.map[Job.button] = Job.output]
        = [used |-> TRUE, map |-> [m EXCEPT ![Job.button] = Job.output], macros |-> c]
  <2>1. w.map = m
    BY <1>4
  <2>2. PICK N : N = [m EXCEPT ![Job.button] = Job.output]
    OBVIOUS
  <2>3. [w EXCEPT !.map[Job.button] = Job.output] = [w EXCEPT !.map = N]
    BY <2>1, <2>2
  <2>4. [w EXCEPT !.map = N] = [used |-> TRUE, map |-> N, macros |-> c]
    <3>1. PICK u : u = TRUE
      OBVIOUS
    <3>2. w = [used |-> u, map |-> m, macros |-> c]
      BY <1>4, <3>1
    <3>3. [w EXCEPT !.map = N] = [used |-> u, map |-> N, macros |-> c]
      BY <3>2
    <3> QED
      BY <3>1, <3>3
  <2> QED
    BY <2>2, <2>3, <2>4
<1> QED
  BY <1>2, <1>3, <1>5, <1>6 DEF UsedView

Clears(b) ==
  /\ Size(b) /\ JobShape(Job) /\ Job.op = "clear"
  /\ IsSlot(model, Before) /\ banks[Place(Job)] = Before

\* A clear takes the slot out of use and leaves its macros stored,
LEMMA ClearBuilt ==
  ASSUME NEW b, Clears(b), NEW V, V = Built
  PROVE  /\ IsSlot(model, V) /\ ~V.used /\ V.macros = Before.macros
         /\ ~Before.used => V = Before
<1>1. PICK s : s = Before
  OBVIOUS
<1>2. V = IF s.used THEN [s EXCEPT !.used = FALSE, !.parts = {}] ELSE s
  BY <1>1 DEF Built, Cleared, Deactivate, Clears
<1>3. PICK n \in Lengths(model) :
        s \in [used : BOOLEAN, parts : SUBSET Sections, map : [Buttons -> Outputs],
               macros : [1 .. n -> Macro]]
  BY <1>1 DEF IsSlot, Clears
<1>4. V \in [used : BOOLEAN, parts : SUBSET Sections, map : [Buttons -> Outputs],
             macros : [1 .. n -> Macro]]
  BY <1>2, <1>3
<1>5. ~V.used /\ V.macros = s.macros
  BY <1>2, <1>3
<1> QED
  BY <1>1, <1>2, <1>4, <1>5 DEF IsSlot

\* ... and shows what it was asked for.
LEMMA ClearAsked ==
  ASSUME NEW b, Clears(b), NEW V, V = Built
  PROVE  View(V) = Promise!AsAsked(View(Before), Job)
<1>1. View(V) = EmptyView
  BY ClearBuilt, ViewIs
<1>2. Promise!AsAsked(View(Before), Job) = Promise!Empty
  BY DEF Promise!AsAsked, Clears
<1> QED
  BY <1>1, <1>2, SamePack DEF Promise!Empty, EmptyView

-------------------------------------------------------------------------------
(***************************************************************************)
(* An upload that does not ask loses nothing, the macros it puts start     *)
(* alone, and their pages are planned.                                     *)
(***************************************************************************)
LEMMA MacrosAreTyped ==
  ASSUME NEW b, Size(b), NEW s, IsSlot(model, s)
  PROVE  \E K \in SUBSET (1..b) : /\ MacrosOf(model, s) \in [K -> Macro]
                                  /\ IsPacked(model) => \E L \in 0..b : K = 1..L
<1>1. CASE ~IsPacked(model)
  <2>1. s.macros \in [1..b -> Macro] /\ MacrosOf(model, s) = HeldIn(b, s.macros)
    BY <1>1, SlottedSlot
  <2>2. PICK K : K = {k \in 1..b : s.macros[k] # Zeroed}
    OBVIOUS
  <2>3. MacrosOf(model, s) = [n \in K |-> s.macros[n]] /\ K \in SUBSET (1..b)
    BY <2>1, <2>2 DEF HeldIn
  <2>4. MacrosOf(model, s) \in [K -> Macro]
    BY <2>1, <2>3
  <2> QED
    BY <1>1, <2>3, <2>4
<1>2. CASE IsPacked(model)
  <2>1. PICK L \in 0..b : s.macros \in [1..L -> Macro]
    BY <1>2 DEF IsSlot, Lengths, Size
  <2>2. MacrosOf(model, s) = IF InUse(s, "macros") THEN s.macros ELSE NoMacros
    BY <1>2 DEF MacrosOf
  <2>3. 0 \in 0..b /\ 1..0 \subseteq 1..b /\ 1..L \subseteq 1..b
    BY DEF Size
  <2>4. CASE InUse(s, "macros")
    <3>1. MacrosOf(model, s) \in [1..L -> Macro]
      BY <2>1, <2>2, <2>4
    <3> QED
      BY <2>3, <3>1
  <2>5. CASE ~InUse(s, "macros")
    <3>1. MacrosOf(model, s) \in [1..0 -> Macro]
      BY <2>2, <2>5, NothingHeld
    <3> QED
      BY <2>3, <3>1
  <2> QED
    BY <2>4, <2>5
<1> QED
  BY <1>1, <1>2

KeepsAll(v, w) ==
  v.used => /\ w.used
            /\ \A n \in DOMAIN v.macros : /\ n \in DOMAIN w.macros
                                          /\ w.macros[n].steps = v.macros[n].steps
                                          /\ w.macros[n].triggers \subseteq v.macros[n].triggers

\* An upload with nothing to ask about loses no macro.
LEMMA UploadKeeps ==
  ASSUME NEW b, Uploads(b), IsPacked(model) \/ SteppedSlot(Before), Before.used, Job.map = Keep,
         \A i \in DOMAIN Job.edits : Job.edits[i].at \notin DOMAIN Held, NEW V, V = Built
  PROVE  KeepsAll(View(Before), View(V))
<1>1. V.used /\ EachEncoded(MacrosOf(model, V)) = MacrosAsked
  BY UsedPacked, UsedSlotted
<1>2. PICK H : H = Held
  OBVIOUS
<1>3. H = MacrosOf(model, Before) /\ Size(b) /\ b \in Nat
  BY <1>2 DEF Held, Uploads, Size
<1>4. PICK K \in SUBSET (1..b) : /\ H \in [K -> Macro]
                                 /\ IsPacked(model) => \E L \in 0..b : K = 1..L
  BY <1>3, MacrosAreTyped DEF Uploads
<1>5. PICK S, M : S = EachEncoded(H) /\ M = Without(S, Job.drops)
  OBVIOUS
<1>6. S \in [K -> Macro]
  BY <1>4, <1>5, ShownIs
<1>7. M \in [K -> Macro] /\ \A n \in K : Less(S[n], Job.drops, M[n])
  BY <1>5, <1>6, WithoutIs
<1>8. PICK E : E = Effective
  OBVIOUS
<1>9. EditsOf(b, E)
  BY <1>8, JobEdits
<1>10. \A n \in K : n \notin Touched(E)
  <2>1. \A e \in E : e.at \notin K
    BY <1>2, <1>4, <1>8 DEF Effective, ToSet
  <2> QED
    BY <2>1 DEF Touched
<1>11. PICK A, D : A = AtOnce(M, E) /\ D = DOMAIN A
  OBVIOUS
<1>12. Upto(b, D) /\ A \in [D -> Macro]
  BY <1>7, <1>9, <1>11, AtOnceTyped
<1>13. K \subseteq D /\ DOMAIN M = K
  <2>1. D = (DOMAIN M \ Touched(E)) \cup PutAt(E)
    BY <1>11, AtOnceDomain
  <2> QED
    BY <1>7, <1>10, <2>1
<1>14. \A n \in K : A[n] = M[n]
  <2> SUFFICES ASSUME NEW n \in K PROVE A[n] = M[n]
    OBVIOUS
  <2>1. n \in DOMAIN M /\ n \notin Touched(E)
    BY <1>10, <1>13
  <2> QED
    BY <1>11, <2>1, AtOnceRest
<1>15. PICK T : T = Settled(model, A)
  OBVIOUS
<1>16. \A n \in K : n \in DOMAIN T /\ T[n] = M[n]
  <2>1. CASE ~IsPacked(model)
    BY <1>12, <1>13, <1>14, <1>15, <2>1 DEF Settled
  <2>2. CASE IsPacked(model)
    <3>1. PICK L \in 0..b : K = 1..L
      BY <1>4, <2>2
    <3>2. PICK c, e : Enum(D, c, e)
      BY <1>12, InOrderSorts
    <3>3. L <= c /\ \A i \in 1..L : e[i] = i
      BY <1>12, <1>13, <3>1, <3>2, Prefix
    <3>4. Upto(b, DOMAIN A) /\ Enum(DOMAIN A, c, e)
      BY <1>11, <1>12, <3>2
    <3>5. Pack(A) = [k \in 1..c |-> A[e[k]]]
      BY <3>4, PackIs
    <3>6. T = Pack(A) /\ c \in Nat /\ L \in Nat
      BY <1>3, <1>15, <2>2, <3>2 DEF Settled, Enum
    <3>7. \A n \in K : n \in 1..c /\ e[n] = n
      BY <3>1, <3>3, <3>6
    <3> QED
      BY <1>14, <3>5, <3>6, <3>7
  <2> QED
    BY <2>1, <2>2
<1>17. MacrosAsked = T
  BY <1>2, <1>5, <1>8, <1>11, <1>15 DEF MacrosAsked
<1>18. PICK v, w : v = View(Before) /\ w = View(V)
  OBVIOUS
<1>19. v.macros = S /\ w.used /\ w.macros = T
  BY <1>1, <1>3, <1>5, <1>17, <1>18, ViewIs DEF UsedView
<1>20. \A n \in K : T[n].steps = S[n].steps /\ T[n].triggers \subseteq S[n].triggers
  BY <1>7, <1>16 DEF Less
<1> QED
  BY <1>6, <1>16, <1>18, <1>19, <1>20 DEF KeepsAll

\* The slot shows all the job put there.
LEMMA PutsLand ==
  ASSUME NEW b, Uploads(b), NEW V, V = Built
  PROVE  IsSlot(model, V) /\ Landed(V, Effective)
<1>1. CASE Before.used
  BY <1>1, UsedPacked, UsedSlotted
<1>2. CASE ~Before.used /\ Job.map # Keep
  BY <1>2, NewSlot
<1>3. CASE ~Before.used /\ Job.map = Keep
  <2>1. V = Before /\ Effective = {}
    BY <1>3, KeptEmpty
  <2> QED
    BY <2>1 DEF Uploads, Landed
<1> QED
  BY <1>1, <1>2, <1>3

AloneIn(s, put) ==
  \A b \in put.triggers :
    /\ Cardinality({n \in DOMAIN MacrosOf(model, s) : b \in MacrosOf(model, s)[n].triggers}) = 1
    /\ MapOf(model, s)[b] = DefaultMap[b]

\* A macro that is put starts alone.
LEMMA PutsAlone ==
  ASSUME NEW b, Uploads(b), ~MacrosRefused, NEW V, V = Built, NEW e \in ToSet(Job.edits)
  PROVE  AloneIn(V, e.macro)
<1> SUFFICES ASSUME NEW t \in e.macro.triggers
              PROVE  /\ Cardinality({n \in DOMAIN MacrosOf(model, V) :
                                       t \in MacrosOf(model, V)[n].triggers}) = 1
                     /\ MapOf(model, V)[t] = DefaultMap[t]
  BY DEF AloneIn
<1>1. e.macro # Zeroed
  BY DEF Zeroed
<1>2. e \in Effective /\ e \in Puts(Effective)
  BY <1>1 DEF Effective, Puts
<1>3. Job.edits # <<>>
  <2>1. ToSet(<<>>) = {}
    BY DEF ToSet
  <2> QED
    BY <2>1
<1>4. ~PutRefused(e)
  BY <1>2, <1>3 DEF MacrosRefused
<1>5. PICK M : M = MacrosOf(model, V)
  OBVIOUS
<1>6. ~StartsAnother(M, e) /\ ~IsMapped(MapOf(model, V), e)
  BY <1>4, <1>5 DEF PutRefused
<1>7. MapOf(model, V)[t] = DefaultMap[t]
  BY <1>6 DEF IsMapped
<1>8. IsSlot(model, V) /\ Landed(V, Effective) /\ Size(b)
  BY PutsLand DEF Uploads
<1>9. DOMAIN M \subseteq Nat
  <2>1. PICK K \in SUBSET (1..b) : M \in [K -> Macro]
    BY <1>5, <1>8, MacrosAreTyped
  <2> QED
    BY <2>1 DEF Size
<1>10. PICK same : same = {n \in DOMAIN M : M[n].triggers = e.macro.triggers}
  OBVIOUS
<1>11. same # {} /\ same \in SUBSET Nat
  BY <1>1, <1>2, <1>5, <1>8, <1>9, <1>10 DEF Landed
<1>12. PICK own : own = IF e.at \in same THEN {e.at} ELSE {n \in same : \A k \in same : n <= k}
  OBVIOUS
<1>13. \E x \in same : own = {x}
  <2>1. CASE e.at \in same
    BY <1>12, <2>1
  <2>2. CASE e.at \notin same
    <3>1. PICK x \in same : \A k \in same : x <= k
      BY <1>11, LeastNumber
    <3>2. own = {n \in same : \A k \in same : n <= k}
      BY <1>12, <2>2
    <3>3. \A n \in same : n \in Nat
      BY <1>11
    <3>4. own = {x}
      BY <3>1, <3>2, <3>3
    <3> QED
      BY <3>1, <3>4
  <2> QED
    BY <2>1, <2>2
<1>14. PICK x \in same : own = {x}
  BY <1>13
<1>15. \A n \in DOMAIN M \ own : M[n].triggers \cap e.macro.triggers = {}
  BY <1>6, <1>10, <1>12, Zenon DEF StartsAnother
<1>16. {n \in DOMAIN M : t \in M[n].triggers} = {x}
  BY <1>10, <1>14, <1>15
<1>17. Cardinality({x}) = 1
  BY FS_Singleton
<1> QED
  BY <1>5, <1>7, <1>16, <1>17

\* Step data that comes to a slotted macro slot has its page planned, with what was
\* there to put back.
LEMMA PutsHavePages ==
  ASSUME NEW b, Uploads(b), ~IsPacked(model), NEW V, V = Built, NEW n \in 1..b,
         V.macros[n].steps # Before.macros[n].steps, V.macros[n] # Zeroed
  PROVE  \E page \in PutPages :
           /\ page.at = Place(Job) /\ page.n = n
           /\ page.old <=> (Before.used /\ Before.macros[n].steps # NoSteps)
<1>1. PICK M, N : M = Before.macros /\ N = V.macros
  OBVIOUS
<1>2. M \in [1..b -> Macro] /\ MacrosOf(model, Before) = HeldIn(b, M)
  BY <1>1, SlottedSlot DEF Uploads
<1>3. Size(b) /\ IsSlot(model, Before)
  BY DEF Uploads
<1>4. PICK E : E = Effective
  OBVIOUS
<1>5. EditsOf(b, E)
  BY <1>4, JobEdits
<1>6. \E e \in E : e.macro # Zeroed /\ e.at = n
  <2>1. SUFFICES ASSUME n \in Touched(E) PROVE \E e \in E : e.macro # Zeroed /\ e.at = n
    <3> SUFFICES ASSUME n \notin Touched(E) PROVE FALSE
      BY <2>1
    <3>1. CASE Before.used
      <4>1. PICK W : W = Without(M, Job.drops)
        OBVIOUS
      <4>2. N = DescribedWith(W, E)
        BY <1>1, <1>4, <3>1, <4>1, UsedSlotted
      <4>3. W \in [1..b -> Macro] /\ \A k \in 1..b : Less(M[k], Job.drops, W[k])
        BY <1>2, <4>1, WithoutIs
      <4>4. n \in DOMAIN W
        BY <4>3
      <4>5. N[n] = W[n]
        BY <4>2, <4>4, DescribedRest
      <4> QED
        BY <1>1, <4>3, <4>5 DEF Less
    <3>2. CASE ~Before.used /\ Job.map # Keep
      <4>1. PICK W : W = Bare(b)
        OBVIOUS
      <4>2. N = DescribedWith(W, E)
        BY <1>1, <1>4, <3>2, <4>1, NewSlot
      <4>3. n \in DOMAIN W /\ W[n] = Zeroed
        BY <4>1 DEF Bare
      <4>4. N[n] = W[n]
        BY <4>2, <4>3, DescribedRest
      <4> QED
        BY <1>1, <4>3, <4>4
    <3>3. CASE ~Before.used /\ Job.map = Keep
      BY <3>3, KeptEmpty
    <3> QED
      BY <3>1, <3>2, <3>3
  <2>2. PICK e \in E : e.at = n
    BY <2>1 DEF Touched
  <2>3. N[n] = Encoded(e.macro)
    <3>1. CASE Before.used
      <4>1. PICK W : W = Without(M, Job.drops)
        OBVIOUS
      <4>2. N = DescribedWith(W, E)
        BY <1>1, <1>4, <3>1, <4>1, UsedSlotted
      <4>3. W \in [1..b -> Macro]
        BY <1>2, <4>1, WithoutIs
      <4>4. e.at \in DOMAIN W
        BY <2>2, <4>3
      <4> QED
        BY <1>5, <2>2, <4>2, <4>4, DescribedPut
    <3>2. CASE ~Before.used /\ Job.map # Keep
      <4>1. PICK W : W = Bare(b)
        OBVIOUS
      <4>2. N = DescribedWith(W, E)
        BY <1>1, <1>4, <3>2, <4>1, NewSlot
      <4>3. e.at \in DOMAIN W
        BY <2>2, <4>1 DEF Bare
      <4> QED
        BY <1>5, <2>2, <4>2, <4>3, DescribedPut
    <3>3. CASE ~Before.used /\ Job.map = Keep
      BY <1>4, <2>2, <3>3, KeptEmpty
    <3> QED
      BY <3>1, <3>2, <3>3
  <2>4. e.macro # Zeroed
    BY <1>1, <2>3, ZeroedIs
  <2> QED
    BY <2>2, <2>4
<1>7. PICK e \in E : e.macro # Zeroed /\ e.at = n
  BY <1>6
<1>8. e \in Puts(Effective)
  BY <1>4, <1>7 DEF Puts
<1>9. PICK page : page = [at |-> Place(Job), n |-> e.at,
                          old |-> e.at \in DOMAIN Held /\ Held[e.at].steps # NoSteps]
  OBVIOUS
<1>10. page \in PutPages
  BY <1>8, <1>9 DEF PutPages, Uploads
<1>11. (e.at \in DOMAIN Held /\ Held[e.at].steps # NoSteps) <=> (Before.used /\ M[n].steps # NoSteps)
  <2>1. CASE Before.used
    <3>1. Held = HeldIn(b, M)
      BY <1>2, <2>1 DEF Held
    <3>2. PICK K : K = {k \in 1..b : M[k] # Zeroed}
      OBVIOUS
    <3>3. Held = [k \in K |-> M[k]]
      BY <3>1, <3>2 DEF HeldIn
    <3>4. M[n].steps # NoSteps => M[n] # Zeroed
      BY DEF Zeroed
    <3> QED
      BY <1>7, <2>1, <3>2, <3>3, <3>4
  <2>2. CASE ~Before.used
    BY <2>2, NothingHeld DEF Held
  <2> QED
    BY <2>1, <2>2
<1> QED
  BY <1>1, <1>7, <1>9, <1>10, <1>11

-------------------------------------------------------------------------------
(***************************************************************************)
(* The inductive invariant.  Sound needs nothing of the pads, Faithful     *)
(* needs that no macro with a trigger is without steps (SteppedPads).      *)
(***************************************************************************)
\* What a slot shows and what a job asks of it, for a model m.
ViewFor(m, s) ==
  IF ~s.used THEN EmptyView ELSE UsedView(MapOf(m, s), EachEncoded(MacrosOf(m, s)))
EditedFor(M, q) ==
  LET touched == {q[i].at : i \in DOMAIN q}
      puts    == {n \in touched : EditAt(q, n) # Zeroed}
  IN  [n \in (DOMAIN M \ touched) \cup puts |-> IF n \in puts THEN EditAt(q, n) ELSE M[n]]
AskedFor(m, w, job) ==
  IF job.op = "clear" THEN EmptyView
  ELSE IF job.op = "remap" THEN IF w.used THEN [w EXCEPT !.map[job.button] = job.output] ELSE w
  ELSE IF ~w.used /\ job.map = Keep THEN w
  ELSE UsedView(IF job.map = Keep THEN w.map ELSE job.map,
                Settled(m, EditedFor(Without(w.macros, job.drops), job.edits)))
AloneFor(m, s, put) ==
  \A b \in put.triggers :
    /\ Cardinality({n \in DOMAIN MacrosOf(m, s) : b \in MacrosOf(m, s)[n].triggers}) = 1
    /\ MapOf(m, s)[b] = DefaultMap[b]

\* View, AsAsked and the puts that start alone, with the model as a parameter.
LEMMA ViewForIs ==
  ASSUME NEW s
  PROVE  View(s) = ViewFor(model, s)
BY DEF View, ViewFor, EmptyView, UsedView

LEMMA AskedForIs ==
  ASSUME NEW w, NEW job
  PROVE  Promise!AsAsked(w, job) = AskedFor(model, w, job)
<1>1. \A M, q : Promise!Edited(M, q) = EditedFor(M, q)
  BY SamePack, Zenon DEF Promise!Edited, EditedFor, EditAt
<1>2. Promise!Settled(model, Promise!Edited(Promise!Without(w.macros, job.drops), job.edits))
        = Settled(model, EditedFor(Without(w.macros, job.drops), job.edits))
  BY <1>1, SamePack, Zenon
<1>3. Promise!Empty = EmptyView
  BY SamePack, Zenon DEF Promise!Empty, EmptyView
<1> QED
  BY <1>2, <1>3, Zenon DEF Promise!AsAsked, AskedFor, UsedView

LEMMA AloneForIs ==
  ASSUME NEW s, NEW put
  PROVE  AloneIn(s, put) = AloneFor(model, s, put)
BY DEF AloneIn, AloneFor

-------------------------------------------------------------------------------
Doing == 1..planned

\* The banks are worked on as they were read.
Based == base = pad

\* Each planned job is for a slot of its own, and the other slots are as read.
OnePlaceEach ==
  \A i \in Doing : /\ Place(batch[i]) \in Places
                   /\ \A j \in Doing : Place(batch[i]) = Place(batch[j]) => i = j
Untouched ==
  \A at \in Places : (\A i \in Doing : Place(batch[i]) # at) => banks[at] = base[at]

\* A bank that is not written has not changed.
OnlyDirty == \A at \in Places : at[1] \notin dirty => banks[at] = base[at]

\* The slot of a planned job shows what was asked for.
ShowsAsked ==
  \A i \in Doing : ViewFor(model, banks[Place(batch[i])])
                     = AskedFor(model, ViewFor(model, base[Place(batch[i])]), batch[i])
KeepsShown ==
  policy = "abort" => \A i \in Doing : KeepsAll(ViewFor(model, base[Place(batch[i])]),
                                                ViewFor(model, banks[Place(batch[i])]))

PutsAreAlone ==
  \A i \in Doing : batch[i].op = "upload" =>
    \A e \in ToSet(batch[i].edits) : AloneFor(model, banks[Place(batch[i])], e.macro)

HasPage(at, n, was) ==
  \E page \in pages : /\ page.at = at /\ page.n = n
                      /\ page.old <=> (was.used /\ was.macros[n].steps # NoSteps)
PagesArePlanned ==
  ~IsPacked(model) =>
    \A at \in Places, n \in MacroSlots(model) :
      (banks[at].macros[n].steps # base[at].macros[n].steps /\ banks[at].macros[n] # Zeroed)
        => HasPage(at, n, base[at])

SteppedPad(of) == \A at \in Places : SteppedSlot(of[at])
AreStepped == ~IsPacked(model) => SteppedPad(base) /\ SteppedPad(banks)

Sound == TypeOK /\ Based /\ OnePlaceEach /\ Untouched /\ OnlyDirty /\ PutsAreAlone /\ PagesArePlanned
Faithful == AreStepped /\ ShowsAsked /\ KeepsShown

\* A batch begins or ends: nothing is planned.
LEMMA NothingPlanned ==
  ASSUME model' \in Models, IsPad(model', pad'), banks' = pad', base' = pad',
         planned' = 0, dirty' = {}, pages' = {}, batch' = <<>> \/ IsBatch(batch'),
         policy' \in Policies, asked' \in 0..MaxBatches
  PROVE  Sound'
<1>1. Doing' = {}
  BY DEF Doing
<1>2. Len(batch') \in Nat
  BY DEF IsBatch
<1>3. TypeOK'
  BY <1>2 DEF TypeOK
<1>4. Based' /\ OnePlaceEach' /\ Untouched' /\ OnlyDirty'
  BY <1>1 DEF Based, OnePlaceEach, Untouched, OnlyDirty
<1>5. PutsAreAlone' /\ PagesArePlanned'
  BY <1>1 DEF PutsAreAlone, PagesArePlanned
<1> QED
  BY <1>3, <1>4, <1>5 DEF Sound

\* Before the first job is planned nothing is asked.
LEMMA NothingShown ==
  ASSUME banks' = pad', base' = pad', planned' = 0, ~IsPacked(model') => SteppedPad(pad')
  PROVE  Faithful'
<1>1. Doing' = {}
  BY DEF Doing
<1>2. AreStepped'
  BY DEF AreStepped, SteppedPad
<1> QED
  BY <1>1, <1>2 DEF Faithful, ShowsAsked, KeepsShown

\* The next job, when its slot is on the pad and no planned job's.
LEMMA NextJob ==
  ASSUME Sound, planned < Len(batch), Place(Job) \in Places,
         \A i \in Doing : Place(batch[i]) # Place(Job)
  PROVE  /\ JobShape(Job) /\ planned + 1 \in DOMAIN batch /\ planned \in Nat
         /\ Before = base[Place(Job)] /\ banks[Place(Job)] = Before /\ IsSlot(model, Before)
         /\ \E b : Size(b)
<1>1. /\ batch = <<>> \/ IsBatch(batch)
      /\ planned \in 0..Len(batch) /\ model \in Models /\ IsPad(model, base)
  BY DEF Sound, TypeOK
<1>2. IsBatch(batch)
  BY <1>1
<1>3. batch \in Seq(ToSet(batch)) /\ \A i \in DOMAIN batch : JobShape(batch[i])
  BY <1>2 DEF IsBatch
<1>4. planned \in Nat /\ planned + 1 \in DOMAIN batch
  BY <1>1, <1>3
<1>5. JobShape(Job)
  BY <1>3, <1>4 DEF Job
<1>6. banks[Place(Job)] = Before
  BY DEF Sound, Untouched, Before
<1>7. IsSlot(model, Before)
  BY <1>1 DEF IsPad, Before
<1> QED
  BY <1>1, <1>4, <1>5, <1>6, <1>7, SizeIs DEF Before

\* A job is planned.
LEMMA JobIs ==
  ASSUME Sound, PlanJob
  PROVE  /\ JobShape(Job) /\ planned + 1 \in DOMAIN batch /\ planned \in Nat
         /\ Place(Job) \in Places /\ Before = base[Place(Job)]
         /\ banks[Place(Job)] = Before /\ IsSlot(model, Before)
         /\ \A i \in Doing : Place(batch[i]) # Place(Job)
         /\ \E b : Size(b)
<1>1. planned < Len(batch)
  BY DEF PlanJob
<1>2. Place(Job) \in Places /\ \A i \in Doing : Place(batch[i]) # Place(Job)
  BY DEF PlanJob, MustRefuse, Doing
<1> QED
  BY <1>1, <1>2, NextJob

\* A job is one of three kinds.
LEMMA JobKinds ==
  ASSUME Sound, PlanJob
  PROVE  \E b : Size(b) /\ (Uploads(b) \/ Remaps(b) \/ Clears(b))
<1>1. /\ JobShape(Job) /\ banks[Place(Job)] = Before /\ IsSlot(model, Before)
      /\ \E b : Size(b)
  BY JobIs
<1>2. PICK b : Size(b)
  BY <1>1
<1>3. Job.op \in {"upload", "clear", "remap"}
  BY <1>1 DEF JobShape
<1>4. ~MustRefuse
  BY DEF PlanJob
<1>5. Job.sound /\ (Job.op = "upload" => ~MacrosRefused) /\ (Job.op = "remap" => Before.used)
  BY <1>4 DEF MustRefuse
<1>6. CASE Job.op = "upload"
  <2>1. ~EditsRefused
    BY <1>5, <1>6 DEF MacrosRefused, EditsRefused
  <2> QED
    BY <1>1, <1>2, <1>5, <1>6, <2>1 DEF Uploads
<1>7. CASE Job.op = "remap"
  BY <1>1, <1>2, <1>5, <1>7 DEF Remaps
<1>8. CASE Job.op = "clear"
  BY <1>1, <1>2, <1>8 DEF Clears
<1> QED
  BY <1>2, <1>3, <1>6, <1>7, <1>8

-------------------------------------------------------------------------------
(***************************************************************************)
(* A job is planned.                                                       *)
(***************************************************************************)
LEMMA BuiltIs ==
  ASSUME Sound, PlanJob, NEW V, V = Built
  PROVE  IsSlot(model, V) /\ (~Changes => V = Before)
<1>1. PICK b : Size(b) /\ (Uploads(b) \/ Remaps(b) \/ Clears(b))
  BY JobKinds
<1>2. CASE Remaps(b)
  <2>1. Changes
    BY <1>2 DEF Changes, Remaps
  <2> QED
    BY <1>2, <2>1, RemapBuilt
<1>3. CASE Clears(b)
  <2>1. Changes <=> Before.used
    BY <1>3 DEF Changes, Clears
  <2> QED
    BY <1>3, <2>1, ClearBuilt
<1>4. CASE Uploads(b)
  <2>1. IsSlot(model, V)
    BY <1>4, PutsLand
  <2>2. ASSUME ~Changes PROVE V = Before
    <3>1. Job.map = Keep /\ ~(Before.used /\ Job.drops # {}) /\ Effective = {}
      BY <1>4, <2>2 DEF Changes, Uploads
    <3>2. Uploaded(Before) = Before
      BY <3>1 DEF Uploaded
    <3>3. PICK n, q : n \in Nat /\ Arranged(Effective, n, q) /\ V = SetMacros(Before, q)
      BY <1>4, <3>2, EditsInOrder
    <3>4. n = 0 /\ q \in [1..n -> Effective]
      BY <3>1, <3>3 DEF Arranged
    <3>5. PICK t : OneByOne(t, Before, q, n) /\ SetMacros(Before, q) = t[n]
      BY <3>4, SetMacrosIs, Zenon
    <3> QED
      BY <3>3, <3>4, <3>5 DEF OneByOne
  <2> QED
    BY <2>1, <2>2
<1> QED
  BY <1>1, <1>2, <1>3, <1>4

\* The slot of the job is now as built, the others are as they were.
Builds(V) ==
  /\ V = Built /\ IsSlot(model, V)
  /\ banks'[Place(Job)] = V /\ \A at \in Places \ {Place(Job)} : banks'[at] = banks[at]
  /\ DOMAIN banks' = Places
  /\ model' = model /\ pad' = pad /\ batch' = batch /\ policy' = policy /\ base' = base
  /\ asked' = asked
  /\ Doing' = Doing \cup {planned + 1} /\ planned + 1 \notin Doing /\ batch[planned + 1] = Job
  /\ \A i \in Doing : /\ Place(batch[i]) # Place(Job) /\ Place(batch[i]) \in Places
                      /\ banks'[Place(batch[i])] = banks[Place(batch[i])]

\* PlanJob sets the slot of its job to what is built and leaves the rest.
LEMMA PlanBuilds ==
  ASSUME Sound, PlanJob
  PROVE  \E V : Builds(V)
<1>1. PICK V : V = Built
  OBVIOUS
<1>2. IsSlot(model, V)
  BY <1>1, BuiltIs
<1>3. banks' = [banks EXCEPT ![Place(Job)] = V]
  BY <1>1 DEF PlanJob
<1>4. DOMAIN banks = Places
  BY DEF Sound, TypeOK, IsPad
<1>5. /\ planned \in Nat /\ Place(Job) \in Places
      /\ \A i \in Doing : Place(batch[i]) # Place(Job)
  BY JobIs
<1>6. banks'[Place(Job)] = V /\ (\A at \in Places \ {Place(Job)} : banks'[at] = banks[at])
      /\ DOMAIN banks' = Places
  BY <1>3, <1>4, <1>5
<1>7. Doing' = Doing \cup {planned + 1} /\ planned + 1 \notin Doing
  BY <1>5 DEF Doing, PlanJob
<1>8. \A i \in Doing : Place(batch[i]) \in Places
  BY DEF Sound, OnePlaceEach
<1>9. \A i \in Doing : banks'[Place(batch[i])] = banks[Place(batch[i])]
  BY <1>5, <1>6, <1>8
<1> QED
  BY <1>1, <1>2, <1>5, <1>6, <1>7, <1>8, <1>9 DEF Builds, PlanJob, Job

\* The type invariant after it,
LEMMA PlanTyped ==
  ASSUME Sound, PlanJob
  PROVE  TypeOK'
<1>1. PICK V : Builds(V)
  BY PlanBuilds
<1>2. /\ Place(Job) \in Places /\ JobShape(Job) /\ planned \in Nat
  BY JobIs
<1>3. TypeOK
  BY DEF Sound
<1>4. IsPad(model', banks')
  BY <1>1, <1>3 DEF Builds, TypeOK, IsPad
<1>5. IsPad(model', pad') /\ IsPad(model', base')
  BY <1>1, <1>3 DEF Builds, TypeOK
<1>6. dirty' \subseteq Modes
  <2>1. Job.mode \in Modes
    BY <1>2 DEF Place, Places
  <2> QED
    BY <1>3, <2>1 DEF TypeOK, PlanJob
<1>7. PutPages \subseteq Page
  <2>1. CASE IsPacked(model) \/ Job.op # "upload"
    BY <2>1 DEF PutPages
  <2>2. CASE ~(IsPacked(model) \/ Job.op # "upload")
    <3> SUFFICES ASSUME NEW put \in Puts(Effective)
                  PROVE  [at |-> Place(Job), n |-> put.at,
                          old |-> put.at \in DOMAIN Held /\ Held[put.at].steps # NoSteps] \in Page
      BY <2>2 DEF PutPages
    <3>1. put \in ToSet(Job.edits)
      BY DEF Puts, Effective
    <3>2. put \in Edit
      BY <1>2, <3>1 DEF ToSet, JobShape
    <3>3. put.at \in Nat
      BY <3>2 DEF Edit
    <3> QED
      BY <1>2, <3>3 DEF Page
  <2> QED
    BY <2>1, <2>2
<1>8. pages' \subseteq Page
  BY <1>3, <1>7 DEF TypeOK, PlanJob
<1>9. planned' \in 0..Len(batch')
  <2>1. Len(batch) \in Nat
    BY <1>3 DEF TypeOK, IsBatch
  <2> QED
    BY <1>2, <2>1 DEF PlanJob
<1> QED
  BY <1>1, <1>3, <1>4, <1>5, <1>6, <1>8, <1>9 DEF TypeOK, Builds

\* ... the other parts of Sound,
LEMMA PlanKeepsSound ==
  ASSUME Sound, PlanJob
  PROVE  Sound'
<1>1. PICK V : Builds(V)
  BY PlanBuilds
<1>2. /\ Place(Job) \in Places /\ banks[Place(Job)] = Before
      /\ Before = base[Place(Job)] /\ planned \in Nat
  BY JobIs
<1>3. Based'
  BY <1>1 DEF Sound, Based, Builds
<1>4. OnePlaceEach'
  <2>1. \A i \in Doing' : Place(batch[i]) \in Places
    BY <1>1, <1>2 DEF Builds
  <2>2. \A i, j \in Doing' : Place(batch[i]) = Place(batch[j]) => i = j
    BY <1>1 DEF Builds, Sound, OnePlaceEach
  <2> QED
    BY <1>1, <2>1, <2>2 DEF OnePlaceEach, Builds
<1>5. Untouched'
  <2> SUFFICES ASSUME NEW at \in Places, \A i \in Doing' : Place(batch'[i]) # at
                PROVE  banks'[at] = base'[at]
    BY DEF Untouched
  <2>1. at # Place(Job) /\ \A i \in Doing : Place(batch[i]) # at
    BY <1>1 DEF Builds
  <2> QED
    BY <1>1, <2>1 DEF Builds, Sound, Untouched
<1>6. OnlyDirty'
  <2> SUFFICES ASSUME NEW at \in Places, at[1] \notin dirty' PROVE banks'[at] = base'[at]
    BY DEF OnlyDirty
  <2>1. CASE at # Place(Job)
    BY <1>1, <2>1 DEF Builds, Sound, OnlyDirty, PlanJob
  <2>2. CASE at = Place(Job)
    <3>1. at[1] = Job.mode
      BY <2>2 DEF Place
    <3>2. ~Changes
      BY <3>1 DEF PlanJob
    <3>3. V = Before
      BY <1>1, <3>2, BuiltIs DEF Builds
    <3> QED
      BY <1>1, <1>2, <2>2, <3>3 DEF Builds
  <2> QED
    BY <2>1, <2>2
<1>7. PutsAreAlone'
  <2> SUFFICES ASSUME NEW i \in Doing', batch'[i].op = "upload", NEW e \in ToSet(batch'[i].edits)
                PROVE  AloneFor(model', banks'[Place(batch'[i])], e.macro)
    BY DEF PutsAreAlone
  <2>1. CASE i \in Doing
    <3>1. AloneFor(model, banks[Place(batch[i])], e.macro)
      BY <1>1, <2>1 DEF Builds, Sound, PutsAreAlone
    <3> QED
      BY <1>1, <2>1, <3>1 DEF Builds
  <2>2. CASE i \notin Doing
    <3>1. i = planned + 1 /\ batch'[i] = Job /\ e \in ToSet(Job.edits) /\ Job.op = "upload"
      BY <1>1, <2>2 DEF Builds
    <3>2. PICK b : Uploads(b)
      BY <3>1, JobKinds DEF Remaps, Clears
    <3>3. V = Built
      BY <1>1 DEF Builds
    <3>4. ~MacrosRefused
      BY <3>1 DEF PlanJob, MustRefuse
    <3>5. AloneIn(V, e.macro)
      BY <3>1, <3>2, <3>3, <3>4, PutsAlone
    <3> QED
      BY <1>1, <3>1, <3>5, AloneForIs DEF Builds
  <2> QED
    BY <2>1, <2>2
<1>8. PagesArePlanned'
  <2> SUFFICES ASSUME ~IsPacked(model'), NEW at \in Places, NEW n \in MacroSlots(model'),
                      banks'[at].macros[n].steps # base'[at].macros[n].steps,
                      banks'[at].macros[n] # Zeroed
                PROVE  \E page \in pages' :
                         /\ page.at = at /\ page.n = n
                         /\ page.old <=> (base'[at].used /\ base'[at].macros[n].steps # NoSteps)
    BY DEF PagesArePlanned, HasPage
  <2>0. ~IsPacked(model) /\ n \in MacroSlots(model) /\ pages \subseteq pages' /\ PutPages \subseteq pages'
    BY <1>1 DEF Builds, PlanJob
  <2>1. CASE at # Place(Job)
    <3>1. banks'[at] = banks[at] /\ base'[at] = base[at]
      BY <1>1, <2>1 DEF Builds
    <3>2. HasPage(at, n, base[at])
      BY <2>0, <3>1 DEF Sound, PagesArePlanned
    <3> QED
      BY <1>1, <2>0, <3>2 DEF HasPage, Builds
  <2>2. CASE at = Place(Job)
    <3>1. V.macros[n].steps # Before.macros[n].steps /\ V.macros[n] # Zeroed
      BY <1>1, <1>2, <2>2 DEF Builds
    <3>2. PICK b : Size(b) /\ (Uploads(b) \/ Remaps(b) \/ Clears(b))
      BY JobKinds
    <3>3. V = Built
      BY <1>1 DEF Builds
    <3>4. n \in 1..b
      BY <2>0, <3>2 DEF MacroSlots, Size
    <3>5. V.macros # Before.macros
      BY <3>1
    <3>6. Uploads(b)
      BY <2>0, <3>2, <3>3, <3>5, RemapBuilt, ClearBuilt
    <3>7. \E page \in PutPages :
           /\ page.at = Place(Job) /\ page.n = n
           /\ page.old <=> (Before.used /\ Before.macros[n].steps # NoSteps)
      BY <2>0, <3>1, <3>3, <3>4, <3>6, PutsHavePages
    <3> QED
      BY <1>1, <1>2, <2>0, <2>2, <3>7 DEF HasPage, Builds
  <2> QED
    BY <2>1, <2>2
<1> QED
  BY <1>3, <1>4, <1>5, <1>6, <1>7, <1>8, PlanTyped DEF Sound

\* A put macro has steps, and a delete leaves no trigger,
LEMMA DescribedStepped ==
  ASSUME NEW b, NEW E, EditsOf(b, E), Stepped(E), NEW W \in [1..b -> Macro],
         \A n \in 1..b : W[n].triggers # {} => W[n].steps # NoSteps,
         NEW V, V.macros = DescribedWith(W, E)
  PROVE  SteppedSlot(V)
<1>1. DOMAIN V.macros = 1..b
  BY DEF DescribedWith
<1> SUFFICES ASSUME NEW n \in 1..b, V.macros[n].triggers # {} PROVE V.macros[n].steps # NoSteps
  BY <1>1 DEF SteppedSlot
<1>2. n \in DOMAIN W
  OBVIOUS
<1>3. CASE n \in Touched(E)
  <2>1. PICK e \in E : e.at = n
    BY <1>3 DEF Touched
  <2>2. V.macros[n] = Encoded(e.macro)
    BY <1>2, <2>1, DescribedPut
  <2>3. e.macro \in Macro
    BY DEF EditsOf, Edit
  <2>4. Encoded(e.macro).triggers = e.macro.triggers /\ Encoded(e.macro).steps = e.macro.steps
    BY <2>3 DEF Encoded, Macro
  <2>5. e.macro # Zeroed
    BY <2>2, <2>4 DEF Zeroed
  <2> QED
    BY <2>2, <2>4, <2>5 DEF Stepped
<1>4. CASE n \notin Touched(E)
  <2>1. DescribedWith(W, E)[n] = W[n]
    BY <1>2, <1>4 DEF DescribedWith
  <2> QED
    BY <2>1
<1> QED
  BY <1>3, <1>4

\* ... so no job leaves a macro with a trigger and no steps.
LEMMA BuiltStepped ==
  ASSUME NEW b, Uploads(b) \/ Remaps(b) \/ Clears(b), ~IsPacked(model), SteppedSlot(Before),
         NEW V, V = Built
  PROVE  SteppedSlot(V)
<1>1. CASE Remaps(b)
  BY <1>1, RemapBuilt DEF SteppedSlot
<1>2. CASE Clears(b)
  BY <1>2, ClearBuilt DEF SteppedSlot
<1>3. CASE Uploads(b)
  <2>1. PICK E : E = Effective
    OBVIOUS
  <2>2. EditsOf(b, E) /\ Stepped(E)
    BY <1>3, <2>1, JobEdits
  <2>3. CASE Before.used
    <3>1. PICK M, W : M = Before.macros /\ W = Without(M, Job.drops)
      OBVIOUS
    <3>2. M \in [1..b -> Macro] /\ DOMAIN M = 1..b
      BY <1>3, <3>1, SlottedSlot DEF Uploads
    <3>3. W \in [1..b -> Macro] /\ \A n \in 1..b : Less(M[n], Job.drops, W[n])
      BY <3>1, <3>2, WithoutIs
    <3>4. \A n \in 1..b : W[n].triggers # {} => W[n].steps # NoSteps
      BY <3>1, <3>2, <3>3 DEF SteppedSlot, Less
    <3>5. V.macros = DescribedWith(W, E)
      BY <1>3, <2>1, <2>3, <3>1, UsedSlotted
    <3> QED
      BY <2>2, <3>3, <3>4, <3>5, DescribedStepped
  <2>4. CASE ~Before.used /\ Job.map # Keep
    <3>1. PICK W : W = Bare(b)
      OBVIOUS
    <3>2. W \in [1..b -> Macro] /\ \A n \in 1..b : W[n].triggers # {} => W[n].steps # NoSteps
      <4>1. \A n \in 1..b : W[n] = Zeroed
        BY <3>1 DEF Bare
      <4>2. W \in [1..b -> Macro]
        BY <3>1, ZeroedIs DEF Bare
      <4>3. Zeroed.triggers = {}
        BY DEF Zeroed
      <4> QED
        BY <4>1, <4>2, <4>3
    <3>3. V.macros = DescribedWith(W, E)
      BY <1>3, <2>1, <2>4, <3>1, NewSlot
    <3> QED
      BY <2>2, <3>2, <3>3, DescribedStepped
  <2>5. CASE ~Before.used /\ Job.map = Keep
    BY <1>3, <2>5, KeptEmpty
  <2> QED
    BY <2>3, <2>4, <2>5
<1> QED
  BY <1>1, <1>2, <1>3

\* The slot of a planned job shows what was asked for, and loses nothing unless the policy
\* was asked.
LEMMA JobShows ==
  ASSUME NEW b, Uploads(b) \/ Remaps(b) \/ Clears(b), IsPacked(model) \/ SteppedSlot(Before),
         NEW V, V = Built
  PROVE  View(V) = Promise!AsAsked(View(Before), Job)
BY UploadAsked, RemapAsked, ClearAsked

\* A job with nothing to ask about loses no macro.
LEMMA JobKeeps ==
  ASSUME NEW b, Uploads(b) \/ Remaps(b) \/ Clears(b), IsPacked(model) \/ SteppedSlot(Before),
         ~Asks, NEW V, V = Built
  PROVE  KeepsAll(View(Before), View(V))
<1> SUFFICES ASSUME Before.used PROVE KeepsAll(View(Before), View(V))
  <2>1. ~Before.used => View(Before).used = FALSE
    BY ViewIs DEF EmptyView
  <2> QED
    BY <2>1 DEF KeepsAll
<1>1. CASE Clears(b)
  BY <1>1 DEF Asks, AsksForSlot, Clears
<1>2. CASE Remaps(b)
  <2>1. V.used /\ MacrosOf(model, V) = MacrosOf(model, Before)
    BY <1>2, RemapBuilt
  <2>2. PICK v, w : v = View(Before) /\ w = View(V)
    OBVIOUS
  <2>3. w.used /\ v.macros = w.macros
    BY <2>1, <2>2, ViewIs DEF UsedView
  <2> QED
    BY <2>2, <2>3 DEF KeepsAll
<1>3. CASE Uploads(b)
  <2>1. Job.op = "upload"
    BY <1>3 DEF Uploads
  <2>2. Job.map = Keep
    BY <2>1 DEF Asks, AsksForSlot, Brings
  <2>3. \A i \in DOMAIN Job.edits : Job.edits[i].at \notin DOMAIN Held
    BY <2>1, <2>2 DEF Asks, AsksForMacro, Brings
  <2> QED
    BY <1>3, <2>2, <2>3, UploadKeeps
<1> QED
  BY <1>1, <1>2, <1>3

\* ... and Faithful.
LEMMA PlanKeepsFaithful ==
  ASSUME Sound, Faithful, PlanJob
  PROVE  Faithful'
<1>1. PICK V : Builds(V)
  BY PlanBuilds
<1>2. /\ Place(Job) \in Places /\ banks[Place(Job)] = Before /\ Before = base[Place(Job)]
  BY JobIs
<1>3. PICK b : Uploads(b) \/ Remaps(b) \/ Clears(b)
  BY JobKinds
<1>4. V = Built
  BY <1>1 DEF Builds
<1>5. IsPacked(model) \/ SteppedSlot(Before)
  BY <1>2 DEF Faithful, AreStepped, SteppedPad
<1>6. AreStepped'
  <2> SUFFICES ASSUME ~IsPacked(model) PROVE SteppedPad(base') /\ SteppedPad(banks')
    BY <1>1 DEF AreStepped, Builds
  <2>1. SteppedSlot(V)
    BY <1>3, <1>4, <1>5, BuiltStepped
  <2> QED
    BY <1>1, <2>1 DEF Faithful, AreStepped, SteppedPad, Builds
<1>7. ViewFor(model, V) = AskedFor(model, ViewFor(model, Before), Job)
  <2>1. View(V) = Promise!AsAsked(View(Before), Job)
    BY <1>3, <1>4, <1>5, JobShows
  <2> QED
    BY <2>1, ViewForIs, AskedForIs
<1>8. ShowsAsked'
  <2> SUFFICES ASSUME NEW i \in Doing'
                PROVE  ViewFor(model', banks'[Place(batch'[i])])
                         = AskedFor(model', ViewFor(model', base'[Place(batch'[i])]), batch'[i])
    BY DEF ShowsAsked
  <2>1. CASE i \in Doing
    <3>1. ViewFor(model, banks[Place(batch[i])])
            = AskedFor(model, ViewFor(model, base[Place(batch[i])]), batch[i])
      BY <2>1 DEF Faithful, ShowsAsked
    <3> QED
      BY <1>1, <2>1, <3>1 DEF Builds
  <2>2. CASE i \notin Doing
    <3>1. i = planned + 1 /\ batch'[i] = Job
      BY <1>1, <2>2 DEF Builds
    <3> QED
      BY <1>1, <1>2, <1>7, <3>1 DEF Builds
  <2> QED
    BY <2>1, <2>2
<1>9. KeepsShown'
  <2> SUFFICES ASSUME policy' = "abort", NEW i \in Doing'
                PROVE  KeepsAll(ViewFor(model', base'[Place(batch'[i])]),
                                ViewFor(model', banks'[Place(batch'[i])]))
    BY DEF KeepsShown
  <2>0. policy = "abort"
    BY <1>1 DEF Builds
  <2>1. CASE i \in Doing
    <3>1. KeepsAll(ViewFor(model, base[Place(batch[i])]), ViewFor(model, banks[Place(batch[i])]))
      BY <2>0, <2>1 DEF Faithful, KeepsShown
    <3> QED
      BY <1>1, <2>1, <3>1 DEF Builds
  <2>2. CASE i \notin Doing
    <3>1. i = planned + 1 /\ batch'[i] = Job
      BY <1>1, <2>2 DEF Builds
    <3>2. ~Asks
      BY <2>0 DEF PlanJob, MustRefuse
    <3>3. KeepsAll(View(Before), View(V))
      BY <1>3, <1>4, <1>5, <3>2, JobKeeps
    <3>4. KeepsAll(ViewFor(model, Before), ViewFor(model, V))
      BY <3>3, ViewForIs
    <3> QED
      BY <1>1, <1>2, <3>1, <3>4 DEF Builds
  <2> QED
    BY <2>1, <2>2
<1> QED
  BY <1>6, <1>8, <1>9 DEF Faithful

-------------------------------------------------------------------------------
(***************************************************************************)
(* The other actions, and the invariants.                                  *)
(***************************************************************************)
\* Begin, a refusal and Write leave nothing planned.
LEMMA StartsSound ==
  ASSUME Sound, NEW jobs, IsBatch(jobs), NEW pol \in Policies, Starts(jobs, pol),
         asked' \in 0..MaxBatches
  PROVE  Sound' /\ (Faithful => Faithful')
<1>1. /\ model' \in Models /\ IsPad(model', pad') /\ banks' = pad' /\ base' = pad'
      /\ planned' = 0 /\ dirty' = {} /\ pages' = {} /\ IsBatch(batch')
      /\ policy' \in Policies /\ pad' = base /\ model' = model
  BY DEF Sound, TypeOK, Starts, Based
<1>2. Sound'
  BY <1>1, NothingPlanned
<1>3. Faithful => Faithful'
  BY <1>1, NothingShown DEF Faithful, AreStepped
<1> QED
  BY <1>2, <1>3

\* A refused batch is forgotten.
LEMMA RefuseSound ==
  ASSUME Sound, RefuseBatch
  PROVE  Sound' /\ (Faithful => Faithful')
<1>1. /\ model' \in Models /\ IsPad(model', pad') /\ banks' = pad' /\ base' = pad'
      /\ planned' = 0 /\ dirty' = {} /\ pages' = {} /\ batch' = <<>>
      /\ policy' \in Policies /\ asked' \in 0..MaxBatches /\ pad' = base /\ model' = model
  BY DEF Sound, TypeOK, RefuseBatch, Idle, Based, Policies
<1>2. Sound'
  BY <1>1, NothingPlanned
<1>3. Faithful => Faithful'
  BY <1>1, NothingShown DEF Faithful, AreStepped
<1> QED
  BY <1>2, <1>3

\* What is written is what was planned.
LEMMA WriteIs ==
  ASSUME Sound, Write
  PROVE  \A at \in Places : pad'[at] = banks[at]
<1> SUFFICES ASSUME NEW at \in Places PROVE pad'[at] = banks[at]
  OBVIOUS
<1>1. pad'[at] = IF at[1] \in dirty THEN banks[at] ELSE pad[at]
  BY DEF Write
<1>2. at[1] \notin dirty => banks[at] = pad[at]
  BY DEF Sound, OnlyDirty, Based
<1> QED
  BY <1>1, <1>2

\* A written batch is the pad's.
LEMMA WriteSound ==
  ASSUME Sound, Write
  PROVE  Sound' /\ (Faithful => Faithful')
<1>0. DOMAIN pad' = Places /\ model' = model
  BY DEF Write
<1>1. IsPad(model', pad')
  BY <1>0, WriteIs DEF IsPad, Sound, TypeOK
<1>2. /\ model' \in Models /\ banks' = pad' /\ base' = pad'
      /\ planned' = 0 /\ dirty' = {} /\ pages' = {} /\ batch' = <<>>
      /\ policy' \in Policies /\ asked' \in 0..MaxBatches
  BY DEF Sound, TypeOK, Write, Idle, Policies
<1>3. Sound'
  BY <1>1, <1>2, NothingPlanned
<1>4. Faithful => Faithful'
  <2>1. Faithful => (~IsPacked(model') => SteppedPad(pad'))
    BY <1>0, WriteIs DEF Faithful, AreStepped, SteppedPad
  <2> QED
    BY <1>2, <2>1, NothingShown
<1> QED
  BY <1>3, <1>4

\* A stutter.
LEMMA StandsStill ==
  ASSUME UNCHANGED vars
  PROVE  (Sound => Sound') /\ (Faithful => Faithful')
<1>1. Doing' = Doing
  BY DEF Doing, vars
<1>2. TypeOK => TypeOK'
  BY DEF TypeOK, vars
<1>3. Sound => Sound'
  BY <1>1, <1>2 DEF Sound, Based, OnePlaceEach, Untouched, OnlyDirty, PutsAreAlone,
                    PagesArePlanned, HasPage, vars
<1>4. Faithful => Faithful'
  BY <1>1 DEF Faithful, AreStepped, ShowsAsked, KeepsShown, vars
<1> QED
  BY <1>3, <1>4

\* The first state,
LEMMA InitSound ==
  ASSUME Init
  PROVE  Sound
<1>1. PICK p \in Pads : model = p.model /\ pad = p.banks
  BY DEF Init
<1>2. model \in Models /\ IsPad(model, pad)
  BY <1>1, PlanConstants
<1>3. /\ banks = pad /\ base = pad /\ planned = 0 /\ dirty = {} /\ pages = {}
      /\ batch = <<>> /\ policy \in Policies /\ asked \in 0..MaxBatches
  BY PlanConstants DEF Init, Policies
<1>4. Doing = {}
  BY <1>3 DEF Doing
<1>5. TypeOK
  BY <1>2, <1>3 DEF TypeOK
<1> QED
  BY <1>3, <1>4, <1>5 DEF Sound, Based, OnePlaceEach, Untouched, OnlyDirty, PutsAreAlone,
                          PagesArePlanned

\* The program writes no macro that has a trigger and no steps, and no pad of a slotted
\* model holds one at first.
SteppedPads == \A p \in Pads : ~IsPacked(p.model) => SteppedPad(p.banks)

\* ... with stepped pads.
LEMMA InitFaithful ==
  ASSUME Init, SteppedPads
  PROVE  Faithful
<1>1. PICK p \in Pads : model = p.model /\ pad = p.banks
  BY DEF Init
<1>2. base = pad /\ banks = pad /\ planned = 0
  BY DEF Init
<1>3. Doing = {}
  BY <1>2 DEF Doing
<1>4. AreStepped
  BY <1>1, <1>2 DEF AreStepped, SteppedPads
<1> QED
  BY <1>3, <1>4 DEF Faithful, ShowsAsked, KeepsShown

\* Every step keeps Sound, and Faithful on top of it.
LEMMA NextSound ==
  ASSUME Sound, [Next]_vars
  PROVE  Sound' /\ (Faithful => Faithful')
<1>1. CASE Begin
  <2>1. PICK jobs \in Batches, pol \in Policies : Starts(jobs, pol)
    BY <1>1 DEF Begin
  <2>2. IsBatch(jobs)
    BY PlanConstants
  <2>3. asked' \in 0..MaxBatches
    BY <1>1, PlanConstants DEF Begin, Sound, TypeOK
  <2> QED
    BY <2>1, <2>2, <2>3, StartsSound
<1>2. CASE PlanJob
  BY <1>2, PlanKeepsSound, PlanKeepsFaithful
<1>3. CASE RefuseBatch
  BY <1>3, RefuseSound
<1>4. CASE Write
  BY <1>4, WriteSound
<1>5. CASE UNCHANGED vars
  BY <1>5, StandsStill
<1> QED
  BY <1>1, <1>2, <1>3, <1>4, <1>5 DEF Next

\* The inductive invariant: on any pad, and whatever the batches ask, a planned slot is
\* well-formed and its own, its puts start alone and its pages are planned, and no other
\* slot has changed.
THEOREM SoundAlways == Spec => []Sound
<1>1. Init => Sound
  BY InitSound
<1>2. Sound /\ [Next]_vars => Sound'
  BY NextSound
<1> QED
  BY <1>1, <1>2, PTL DEF Spec

\* Plan's variables keep their types: every bank built by write.rs, patch.rs and
\* macros.rs is one the pad's model can hold.
THEOREM TypeCorrect == Spec => []TypeOK
<1>1. Sound => TypeOK
  BY DEF Sound
<1> QED
  BY <1>1, SoundAlways, PTL

\* Sound says it of every planned job, a ready batch has planned them all.
LEMMA SoundPutsStartAlone ==
  ASSUME Sound
  PROVE  PutsStartAlone
<1> SUFFICES ASSUME Ready, NEW i \in DOMAIN batch, NEW k \in DOMAIN batch[i].edits,
                    batch[i].op = "upload"
              PROVE  AloneFor(model, banks[Place(batch[i])], batch[i].edits[k].macro)
  BY DEF PutsStartAlone, AloneFor
<1>1. i \in Doing
  BY DEF Ready, Doing, Sound, TypeOK, IsBatch
<1>2. batch[i].edits[k] \in ToSet(batch[i].edits)
  BY DEF ToSet
<1> QED
  BY <1>1, <1>2 DEF Sound, PutsAreAlone

\* No macro of a planned batch that is put shares its trigger with another one of its
\* slot (check_bank, macros.rs), also when a packed model moves it to another slot.
THEOREM PutsStartAloneHolds == Spec => []PutsStartAlone
<1>1. Sound => PutsStartAlone
  BY SoundPutsStartAlone
<1> QED
  BY <1>1, SoundAlways, PTL

\* ... and so of the pages.
LEMMA SoundPages ==
  ASSUME Sound
  PROVE  PagesCoverReplaced
BY DEF PagesCoverReplaced, Sound, PagesArePlanned, HasPage

\* Every step page a planned batch fills is one it writes, and is saved before when the
\* pad was using it (pages, macros.rs), so that the rollback can put it back.
THEOREM PagesCoverReplacedHolds == Spec => []PagesCoverReplaced
<1>1. Sound => PagesCoverReplaced
  BY SoundPages
<1> QED
  BY <1>1, SoundAlways, PTL

-------------------------------------------------------------------------------
ShownOn(m, of) == [at \in Places |-> ViewFor(m, of[at])]

\* What the pad shows, as the refinement maps it, before and after a step.
LEMMA ShowsIs ==
  /\ [at \in Places |-> View(pad[at])] = ShownOn(model, pad)
  /\ [at \in Places |-> View(pad[at])]' = ShownOn(model', pad')
<1>1. [at \in Places |-> View(pad[at])] = ShownOn(model, pad)
  BY DEF ShownOn, View, ViewFor, EmptyView, UsedView
<1>2. [at \in Places |-> View(pad[at])]' = ShownOn(model', pad')
  BY DEF ShownOn, View, ViewFor, EmptyView, UsedView
<1> QED
  BY <1>1, <1>2

-------------------------------------------------------------------------------
(***************************************************************************)
(* The promise, step by step.                                              *)
(***************************************************************************)
\* The slots a step leaves alone, asks for, and fulfils.
LEMMA AsksPromise ==
  ASSUME Sound, NEW jobs, IsBatch(jobs), NEW pol, Starts(jobs, pol)
  PROVE  Promise!Ask
<1>1. batch = <<>> /\ batch' # <<>> /\ model' = model /\ pad' = pad
  BY DEF Starts, IsBatch
<1>2. ShownOn(model', pad') = ShownOn(model, pad)
  BY <1>1
<1> QED
  BY <1>1, <1>2, ShowsIs DEF Promise!Ask

\* A refused batch does nothing to the pad.
LEMMA RefusePromise ==
  ASSUME RefuseBatch
  PROVE  Promise!Refuse
<1>1. batch # <<>> /\ batch' = <<>> /\ model' = model /\ pad' = pad
  BY DEF RefuseBatch, Idle
<1>2. ShownOn(model', pad') = ShownOn(model, pad)
  BY <1>1
<1> QED
  BY <1>1, <1>2, ShowsIs DEF Promise!Refuse

\* Planning shows nothing.
LEMMA PlanPromise ==
  ASSUME UNCHANGED <<model, pad, batch, policy>>
  PROVE  UNCHANGED <<model, [at \in Places |-> View(pad[at])], batch, policy>>
<1>1. ShownOn(model', pad') = ShownOn(model, pad)
  OBVIOUS
<1> QED
  BY <1>1, ShowsIs

\* Writing shows the whole batch at once.
LEMMA WritePromise ==
  ASSUME Sound, Faithful, Write
  PROVE  Promise!Fulfil
<1> DEFINE now == ShownOn(model, pad)
           then == ShownOn(model', pad')
           at_(i) == <<batch[i].mode, batch[i].slot>>
<1>1. batch # <<>> /\ batch' = <<>> /\ model' = model
  BY DEF Write, Idle
<1>2. Doing = DOMAIN batch
  <2>1. Len(batch) = planned /\ batch \in Seq(ToSet(batch))
    BY DEF Write, Sound, TypeOK, IsBatch
  <2> QED
    BY <2>1 DEF Doing
<1>3. \A at \in Places : now[at] = ViewFor(model, base[at]) /\ then[at] = ViewFor(model, banks[at])
  BY <1>1, WriteIs DEF ShownOn, Sound, Based
<1>4. DOMAIN now = Places /\ DOMAIN then = Places
  BY DEF ShownOn
<1>5. \A i \in DOMAIN batch : at_(i) = Place(batch[i]) /\ at_(i) \in Places
  BY <1>2 DEF Place, Sound, OnePlaceEach
<1> HIDE DEF now, then
<1>6. ASSUME NEW at \in Places, NEW jobs, jobs = {i \in DOMAIN batch : at_(i) = at}
      PROVE  then[at] = IF jobs = {} THEN now[at]
                        ELSE Promise!AsAsked(now[at], batch[CHOOSE i \in jobs : TRUE])
  <2>1. CASE jobs = {}
    <3>1. \A i \in Doing : Place(batch[i]) # at
      BY <1>2, <1>5, <1>6, <2>1
    <3>2. banks[at] = base[at]
      BY <3>1 DEF Sound, Untouched
    <3> QED
      BY <1>3, <2>1, <3>2
  <2>2. CASE jobs # {}
    <3>1. PICK i : i = CHOOSE j \in jobs : TRUE
      OBVIOUS
    <3>2. i \in jobs
      BY <2>2, <3>1
    <3>3. i \in Doing /\ Place(batch[i]) = at
      BY <1>2, <1>5, <1>6, <3>2
    <3>4. ViewFor(model, banks[at]) = AskedFor(model, ViewFor(model, base[at]), batch[i])
      BY <3>3 DEF Faithful, ShowsAsked
    <3>5. Promise!AsAsked(now[at], batch[i]) = AskedFor(model, now[at], batch[i])
      BY AskedForIs
    <3> QED
      BY <1>3, <2>2, <3>1, <3>4, <3>5
  <2> QED
    BY <2>1, <2>2
<1>7. then = [at \in DOMAIN now |->
                LET jobs == {i \in DOMAIN batch : at_(i) = at}
                IN  IF jobs = {} THEN now[at]
                    ELSE Promise!AsAsked(now[at], batch[CHOOSE i \in jobs : TRUE])]
  <2>1. then = [at \in Places |-> then[at]]
    BY DEF then, ShownOn
  <2>2. \A at \in Places :
          then[at] = LET jobs == {i \in DOMAIN batch : at_(i) = at}
                     IN  IF jobs = {} THEN now[at]
                         ELSE Promise!AsAsked(now[at], batch[CHOOSE i \in jobs : TRUE])
    BY <1>6
  <2> QED
    BY <1>4, <2>1, <2>2, Zenon
<1>8. ASSUME policy = "abort", NEW at \in Places PROVE KeepsAll(now[at], then[at])
  <2>1. CASE \E i \in Doing : Place(batch[i]) = at
    <3>1. PICK i \in Doing : Place(batch[i]) = at
      BY <2>1
    <3>2. KeepsAll(ViewFor(model, base[at]), ViewFor(model, banks[at]))
      BY <1>8, <3>1 DEF Faithful, KeepsShown
    <3> QED
      BY <1>3, <3>2
  <2>2. CASE \A i \in Doing : Place(batch[i]) # at
    <3>1. then[at] = now[at]
      BY <1>3, <2>2 DEF Sound, Untouched
    <3> QED
      BY <3>1 DEF KeepsAll
  <2> QED
    BY <2>1, <2>2
<1>9. policy = "abort" => \A at \in DOMAIN now :
        now[at].used =>
          /\ then[at].used
          /\ \A n \in DOMAIN now[at].macros :
               /\ n \in DOMAIN then[at].macros
               /\ then[at].macros[n].steps = now[at].macros[n].steps
               /\ then[at].macros[n].triggers \subseteq now[at].macros[n].triggers
  BY <1>4, <1>8 DEF KeepsAll
<1>10. [at \in Places |-> View(pad[at])] = now /\ [at \in Places |-> View(pad[at])]' = then
  BY ShowsIs DEF now, then
<1>11. policy = "abort" => Promise!LosesNothing
  BY <1>9, <1>10 DEF Promise!LosesNothing
<1> QED
  BY <1>1, <1>7, <1>10, <1>11 DEF Promise!Fulfil

\* Planning and writing implement PadPromise: a batch does to each slot what it was asked
\* for, all its edits at once, or nothing, and under "abort" no macro is lost. The pads
\* hold no macro with a trigger and no steps, which the program never writes.
THEOREM KeepsPromiseHolds ==
  ASSUME SteppedPads
  PROVE  Spec => KeepsPromise
<1> DEFINE Inv == Sound /\ Faithful
<1>1. Init => Inv
  BY InitSound, InitFaithful
<1>2. Inv /\ [Next]_vars => Inv'
  BY NextSound
<1>3. Init => batch = <<>>
  BY DEF Init
<1>4. Inv /\ [Next]_vars =>
        [Promise!PromiseNext]_<<model, [at \in Places |-> View(pad[at])], batch, policy>>
  <2> SUFFICES ASSUME Inv, [Next]_vars
                PROVE  \/ Promise!PromiseNext
                       \/ UNCHANGED <<model, [at \in Places |-> View(pad[at])], batch, policy>>
    OBVIOUS
  <2>1. CASE Begin
    <3>1. PICK jobs \in Batches, pol \in Policies : Starts(jobs, pol)
      BY <2>1 DEF Begin
    <3>2. IsBatch(jobs)
      BY PlanConstants
    <3> QED
      BY <3>1, <3>2, AsksPromise DEF Promise!PromiseNext
  <2>2. CASE PlanJob \/ UNCHANGED vars
    BY <2>2, PlanPromise DEF PlanJob, vars
  <2>3. CASE RefuseBatch
    BY <2>3, RefusePromise DEF Promise!PromiseNext
  <2>4. CASE Write
    BY <2>4, WritePromise DEF Promise!PromiseNext
  <2> QED
    BY <2>1, <2>2, <2>3, <2>4 DEF Next
<1> QED
  BY <1>1, <1>2, <1>3, <1>4, PTL DEF Spec, KeepsPromise, Promise!PromiseSpec, Promise!pvars

-------------------------------------------------------------------------------
(***************************************************************************)
(* What the runs check of the command line's planning, proved for every    *)
(* set of pads, files and commands: a command hands the planner a batch    *)
(* whose jobs are in their ranges (JobShape), so each of its steps is one  *)
(* that Plan may take with another batch, and the planner's invariant      *)
(* (Sound) is kept. FilesOK is what the folder adds to it: every file in   *)
(* it, also a half-written one, has a shape that the commands can read.    *)
(* KeepsExport and Restores add what an export saved: it is in the folder  *)
(* as it showed, and the batch of a restore asks for it, slot by slot.     *)
(***************************************************************************)

-------------------------------------------------------------------------------
(***************************************************************************)
(* Sets in an order.                                                       *)
(***************************************************************************)
\* SetToSeq lists each element of a finite set once.
LEMMA ListIs ==
  ASSUME NEW S, IsFiniteSet(S), NEW q, q = SetToSeq(S)
  PROVE  /\ q \in Seq(S) /\ ToSet(q) = S
         /\ \A i, j \in DOMAIN q : q[i] = q[j] => i = j
         /\ S # {} => q # <<>>
<1>1. PICK n \in Nat : n = Cardinality(S) /\ ExistsBijection(1..n, S)
  BY FS_CardinalityType
<1>2. \E f \in [1..n -> S] : IsInjective(f)
  BY <1>1 DEF ExistsBijection, Bijection, Injection
<1>3. q \in [1..n -> S] /\ IsInjective(q)
  <2>1. q = CHOOSE f \in [1..n -> S] : IsInjective(f)
    BY <1>1 DEF SetToSeq
  <2> QED
    BY <1>2, <2>1, Zenon
<1>4. q \in Injection(1..n, S)
  BY <1>3 DEF Injection
<1>5. Cardinality(1..n) = n
  BY FS_Interval
<1>6. q \in Surjection(1..n, S)
  BY <1>1, <1>4, <1>5, FS_Injection
<1>7. ToSet(q) = S
  BY <1>3, <1>6 DEF Surjection, ToSet
<1>8. q \in Seq(S)
  BY <1>3
<1>9. \A i, j \in DOMAIN q : q[i] = q[j] => i = j
  BY <1>3 DEF IsInjective
<1>10. S # {} => q # <<>>
  BY <1>7 DEF ToSet
<1> QED
  BY <1>7, <1>8, <1>9, <1>10

\* The places of a pad, and the macro slots of a model.
LEMMA SlotsAreFinite ==
  ASSUME model \in Models
  PROVE  IsFiniteSet(MacroSlots(model)) /\ MacroSlots(model) \subseteq Nat
<1>1. MacroCount[model] \in Nat
  BY BankConstants
<1> QED
  BY <1>1, FS_Interval DEF MacroSlots

\* A set with an element for each element of a finite set.
LEMMA OneForEach ==
  ASSUME NEW S, IsFiniteSet(S), NEW T, NEW f \in [S -> T], T = {f[x] : x \in S}
  PROVE  IsFiniteSet(T)
<1>1. f \in Surjection(S, T)
  BY DEF Surjection
<1> QED
  BY <1>1, FS_Surjection

-------------------------------------------------------------------------------
(***************************************************************************)
(* The jobs of the commands.                                               *)
(***************************************************************************)
SoundEdits(q) ==
  \A i \in DOMAIN q : LET macro == q[i].macro
                      IN  macro = Zeroed \/ (macro.steps # NoSteps /\ ~macro.unknown)

\* A job of the command line, with the fields it sets.
Made(at, op, map, edits, button, output, sound) ==
  [mode |-> at[1], slot |-> at[2], op |-> op, map |-> map, drops |-> {}, edits |-> edits,
   button |-> button, output |-> output, sound |-> sound]

\* A job made of parts in their ranges is a job.
LEMMA MadeJob ==
  ASSUME NEW at, NEW op \in {"upload", "clear", "remap"}, NEW map \in [Buttons -> Outputs] \cup {Keep},
         NEW edits \in Seq(Edit), NEW button \in Buttons, NEW output \in Outputs,
         NEW sound \in BOOLEAN, sound => SoundEdits(edits),
         NEW job, job = Made(at, op, map, edits, button, output, sound)
  PROVE  JobShape(job)
<1>1. /\ job.op = op /\ job.map = map /\ job.edits = edits /\ job.button = button
      /\ job.output = output /\ job.sound = sound /\ job.drops = {}
  BY DEF Made
<1>2. DOMAIN job = {"mode", "slot", "op", "map", "drops", "edits", "button", "output", "sound"}
  BY DEF Made
<1> HIDE DEF Made
<1> QED
  BY <1>1, <1>2 DEF JobShape, SoundEdits

AnyButton == CHOOSE b \in Buttons : TRUE
AnyOutput == CHOOSE o \in Outputs : TRUE

\* A button and an output for the jobs that have none.
LEMMA AnyOnes == AnyButton \in Buttons /\ AnyOutput \in Outputs
<1>1. PICK b : b \in Buttons
  BY CliConstants
<1>2. DefaultMap[b] \in Outputs
  BY <1>1, BankConstants
<1> QED
  BY <1>1, <1>2 DEF AnyButton, AnyOutput

\* The jobs, field by field.
LEMMA JobAtIs ==
  ASSUME NEW at, NEW op
  PROVE  JobAt(at, op) = Made(at, op, Keep, <<>>, AnyButton, AnyOutput, TRUE)
BY DEF JobAt, Made, AnyButton, AnyOutput

\* A file's job: a clear when the file is blank, else an upload with the macros it takes.
LEMMA FileJobIs ==
  ASSUME NEW at, NEW file, NEW withMacros
  PROVE  FileJob(at, file, withMacros) =
           IF IsEmptied(file) THEN JobAt(at, "clear")
           ELSE Made(at, "upload", file.map, IF withMacros THEN FileMacroEdits(file) ELSE <<>>,
                     AnyButton, AnyOutput, file.sound)
<1>1. CASE IsEmptied(file)
  BY <1>1 DEF FileJob
<1>2. CASE ~IsEmptied(file)
  <2>1. PICK q : q = IF withMacros THEN FileMacroEdits(file) ELSE <<>>
    OBVIOUS
  <2>2. PICK j : j = JobAt(at, "upload")
    OBVIOUS
  <2>3. FileJob(at, file, withMacros) = [j EXCEPT !.map = file.map, !.sound = file.sound, !.edits = q]
    BY <1>2, <2>1, <2>2 DEF FileJob
  <2>4. j = Made(at, "upload", Keep, <<>>, AnyButton, AnyOutput, TRUE)
    BY <2>2, JobAtIs
  <2> QED
    BY <1>2, <2>1, <2>3, <2>4 DEF Made
<1> QED
  BY <1>1, <1>2

\* The edits of a file are one for each of its macros and for each macro slot, in any order.
EditOf(file, n) ==
  [at |-> n, macro |-> IF n \in DOMAIN file.macros THEN file.macros[n] ELSE Zeroed]
EditsOfFile(file) == {EditOf(file, n) : n \in DOMAIN file.macros \cup MacroSlots(model)}

\* A file's edits: one for each macro of it and for each macro slot without one.
LEMMA FileEdits ==
  ASSUME model \in Models, NEW file, FileShape(file), NEW q, q = FileMacroEdits(file)
  PROVE  /\ q \in Seq(Edit) /\ ToSet(q) = EditsOfFile(file)
         /\ \A i, j \in DOMAIN q : q[i] = q[j] => i = j
<1> DEFINE N == DOMAIN file.macros \cup MacroSlots(model)
<1>1. IsFiniteSet(N) /\ N \subseteq Nat
  BY SlotsAreFinite, FS_Union DEF FileShape
<1>2. \A n \in N : EditOf(file, n) \in Edit
  BY <1>1, ZeroedIs DEF EditOf, Edit, FileShape
<1>3. PICK f : f = [n \in N |-> EditOf(file, n)]
  OBVIOUS
<1>4. IsFiniteSet(EditsOfFile(file))
  BY <1>1, <1>3, OneForEach DEF EditsOfFile
<1>5. q = SetToSeq(EditsOfFile(file))
  BY DEF FileMacroEdits, EditsOfFile, EditOf
<1>6. q \in Seq(EditsOfFile(file)) /\ ToSet(q) = EditsOfFile(file)
  BY <1>4, <1>5, ListIs
<1>7. EditsOfFile(file) \subseteq Edit
  BY <1>2 DEF EditsOfFile
<1> QED
  BY <1>4, <1>5, <1>6, <1>7, ListIs

\* The edits of a file whose macros can be taken have steps.
LEMMA FileEditsSound ==
  ASSUME model \in Models, NEW file, FileShape(file), TakesMacros(file),
         NEW q, q = FileMacroEdits(file)
  PROVE  SoundEdits(q)
<1>1. \A n \in DOMAIN file.macros : file.macros[n].steps # NoSteps /\ ~file.macros[n].unknown
  BY DEF TakesMacros, ValidMacros, FileShape
<1>2. \A i \in DOMAIN q : q[i] \in EditsOfFile(file)
  BY FileEdits DEF ToSet
<1>3. \A e \in EditsOfFile(file) : e.macro = Zeroed \/ (e.macro.steps # NoSteps /\ ~e.macro.unknown)
  BY <1>1 DEF EditsOfFile, EditOf
<1> QED
  BY <1>2, <1>3 DEF SoundEdits

\* A job without edits is in the shape of one with any.
LEMMA NothingEdited ==
  ASSUME NEW q \in Seq(Edit), Len(q) = 0
  PROVE  SoundEdits(q)
<1>1. \A i \in DOMAIN q : FALSE
  OBVIOUS
<1> QED
  BY <1>1 DEF SoundEdits

\* JobAt's, and a file's, are jobs.
LEMMA JobAtShape ==
  ASSUME NEW at, NEW op \in {"upload", "clear", "remap"}
  PROVE  JobShape(JobAt(at, op))
<1>0. PICK q : q = <<>>
  OBVIOUS
<1>1. JobAt(at, op) = Made(at, op, Keep, q, AnyButton, AnyOutput, TRUE)
  BY <1>0, JobAtIs
<1>2. Keep \in [Buttons -> Outputs] \cup {Keep} /\ TRUE \in BOOLEAN
  OBVIOUS
<1>3. q \in Seq(Edit) /\ Len(q) = 0
  BY <1>0
<1>4. SoundEdits(q) /\ AnyButton \in Buttons /\ AnyOutput \in Outputs
  BY <1>3, AnyOnes, NothingEdited
<1> QED
  BY <1>1, <1>2, <1>3, <1>4, MadeJob

\* A readable file's job is in its ranges.
LEMMA FileJobShape ==
  ASSUME model \in Models, NEW at, NEW file, FileShape(file), NEW withMacros \in BOOLEAN,
         withMacros /\ ~IsEmptied(file) => TakesMacros(file)
  PROVE  JobShape(FileJob(at, file, withMacros))
<1>1. CASE IsEmptied(file)
  BY <1>1, FileJobIs, JobAtShape
<1>2. CASE ~IsEmptied(file)
  <2>1. PICK q : q = IF withMacros THEN FileMacroEdits(file) ELSE <<>>
    OBVIOUS
  <2>2. q \in Seq(Edit) /\ SoundEdits(q)
    <3>1. CASE withMacros
      <4>1. q = FileMacroEdits(file)
        BY <2>1, <3>1
      <4>2. q \in Seq(Edit)
        BY <4>1, FileEdits
      <4>3. SoundEdits(q)
        BY <1>2, <3>1, <4>1, FileEditsSound
      <4> QED
        BY <4>2, <4>3
    <3>2. CASE ~withMacros
      <4>1. q \in Seq(Edit) /\ Len(q) = 0
        BY <2>1, <3>2
      <4> QED
        BY <4>1, NothingEdited
    <3> QED
      BY <3>1, <3>2
  <2>3. file.map \in [Buttons -> Outputs] \cup {Keep} /\ file.sound \in BOOLEAN
    BY DEF FileShape
  <2>4. FileJob(at, file, withMacros) = Made(at, "upload", file.map, q, AnyButton, AnyOutput, file.sound)
    BY <1>2, <2>1, FileJobIs
  <2> QED
    BY <2>2, <2>3, <2>4, AnyOnes, MadeJob
<1> QED
  BY <1>1, <1>2

\* One job is a batch.
LEMMA OneIsBatch ==
  ASSUME NEW job, JobShape(job)
  PROVE  IsBatch(<<job>>)
BY DEF IsBatch, ToSet

-------------------------------------------------------------------------------
(***************************************************************************)
(* The folder.                                                             *)
(***************************************************************************)
AreFiles(f) == IsFiniteSet(DOMAIN f) /\ \A name \in DOMAIN f : FileShape(f[name])
FilesOK == AreFiles(folder)

\* What a slot in use shows: a map, and macros by macro slot that name their buttons.
ShownOK(w) ==
  /\ w.map \in [Buttons -> Outputs]
  /\ \E K \in SUBSET MacroSlots(model) :
       /\ w.macros \in [K -> Macro] /\ IsFiniteSet(K)
       /\ IsPacked(model) => \E L \in Nat : K = 1..L
       /\ \A n \in K : ~w.macros[n].unknown

\* A slot in use shows a map of all buttons and macros that name theirs.
LEMMA HeldShows ==
  ASSUME model \in Models, NEW s, IsSlot(model, s), s.used, NEW w, w = View(s)
  PROVE  w.used /\ ShownOK(w) /\ w = UsedView(w.map, w.macros)
<1>1. PICK b : Size(b)
  BY SizeIs
<1>2. PICK K \in SUBSET (1..b) : /\ MacrosOf(model, s) \in [K -> Macro]
                                 /\ IsPacked(model) => \E L \in 0..b : K = 1..L
  BY <1>1, MacrosAreTyped
<1>3. PICK m : m = MacrosOf(model, s)
  OBVIOUS
<1>4. w = UsedView(MapOf(model, s), EachEncoded(m))
  BY <1>3, ViewIs
<1>5. MapOf(model, s) \in [Buttons -> Outputs]
  <2>1. s.map \in [Buttons -> Outputs]
    BY DEF IsSlot
  <2> QED
    BY <2>1, BankConstants DEF MapOf
<1>6. EachEncoded(m) \in [K -> Macro] /\ \A n \in K : ~EachEncoded(m)[n].unknown
  <2>1. m \in [K -> Macro]
    BY <1>2, <1>3
  <2>2. \A x \in Macro : Encoded(x) \in Macro /\ ~Encoded(x).unknown
    BY DEF Encoded, Macro
  <2>3. EachEncoded(m) = [n \in K |-> Encoded(m[n])]
    BY <2>1 DEF EachEncoded
  <2> QED
    BY <2>1, <2>2, <2>3
<1>7. K \subseteq MacroSlots(model) /\ MacroSlots(model) = 1..b
  BY <1>1 DEF MacroSlots, Size
<1>8. IsFiniteSet(K)
  BY <1>7, SlotsAreFinite, FS_Subset
<1>9. w.used /\ w.map = MapOf(model, s) /\ w.macros = EachEncoded(m)
  BY <1>4 DEF UsedView
<1>10. ShownOK(w)
  <2>1. IsPacked(model) => \E L \in Nat : K = 1..L
    BY <1>1, <1>2 DEF Size
  <2>2. /\ w.macros \in [K -> Macro] /\ IsFiniteSet(K) /\ K \in SUBSET MacroSlots(model)
        /\ \A n \in K : ~w.macros[n].unknown
    BY <1>6, <1>7, <1>8, <1>9
  <2>3. w.map \in [Buttons -> Outputs]
    BY <1>5, <1>9
  <2> QED
    BY <2>1, <2>2, <2>3 DEF ShownOK
<1> QED
  BY <1>4, <1>9, <1>10

\* A file of an export,
FileOf(w) ==
  [torn |-> FALSE, blank |-> FALSE, sound |-> TRUE, refers |-> FALSE, map |-> w.map, macros |-> w.macros]

\* The file of what a slot shows is one the commands can read.
LEMMA FileOfShape ==
  ASSUME NEW w, ShownOK(w), model \in Models, NEW t \in BOOLEAN,
         NEW file, file = FileOf(w) \/ file = [FileOf(w) EXCEPT !.torn = t]
  PROVE  FileShape(file)
<1>1. PICK K \in SUBSET MacroSlots(model) :
        w.macros \in [K -> Macro] /\ IsFiniteSet(K) /\ \A n \in K : ~w.macros[n].unknown
  BY DEF ShownOK
<1>2. /\ DOMAIN file = {"torn", "blank", "sound", "map", "macros", "refers"}
      /\ file.torn \in BOOLEAN /\ file.blank \in BOOLEAN /\ file.sound \in BOOLEAN /\ file.refers \in BOOLEAN
      /\ file.map = w.map /\ file.macros = w.macros
  <2>1. PICK u \in BOOLEAN : file = [torn |-> u, blank |-> FALSE, sound |-> TRUE, refers |-> FALSE,
                                    map |-> w.map, macros |-> w.macros]
    <3>1. CASE file = FileOf(w)
      BY <3>1 DEF FileOf
    <3>2. CASE file = [FileOf(w) EXCEPT !.torn = t]
      BY <3>2 DEF FileOf
    <3> QED
      BY <3>1, <3>2
  <2> QED
    BY <2>1
<1>3. MacroSlots(model) \subseteq Nat
  BY SlotsAreFinite
<1> QED
  BY <1>1, <1>2, <1>3 DEF FileShape, ShownOK

\* ... so every exported file is,
LEMMA ExportedShape ==
  ASSUME Sound, NEW at \in HeldPlaces
  PROVE  /\ Exported(at) = FileOf(View(pad[at]))
         /\ FileShape(Exported(at)) /\ \A t \in BOOLEAN : FileShape([Exported(at) EXCEPT !.torn = t])
<1>1. model \in Models /\ IsSlot(model, pad[at]) /\ pad[at].used
  BY DEF HeldPlaces, Sound, TypeOK, IsPad
<1>2. PICK w : w = View(pad[at])
  OBVIOUS
<1>3. ShownOK(w)
  BY <1>1, <1>2, HeldShows
<1>4. Exported(at) = FileOf(w)
  BY <1>2 DEF Exported, FileOf
<1> QED
  BY <1>1, <1>2, <1>3, <1>4, FileOfShape

\* ... and folders of them.
LEMMA HoldingFiles ==
  ASSUME FilesOK, NEW f, AreFiles(f)
  PROVE  AreFiles(Holding(f))
<1>1. DOMAIN Holding(f) = DOMAIN f \cup DOMAIN folder
  BY DEF Holding
<1>2. \A x \in DOMAIN f \cup DOMAIN folder : Holding(f)[x] = IF x \in DOMAIN f THEN f[x] ELSE folder[x]
  BY DEF Holding
<1> QED
  BY <1>1, <1>2, FS_Union DEF AreFiles, FilesOK

\* ... whichever of them are,
LEMMA SomeFiles ==
  ASSUME Sound, NEW P \in SUBSET HeldPlaces, NEW f, DOMAIN f = P,
         \A at \in P : FileShape(f[at])
  PROVE  AreFiles(f)
<1>1. HeldPlaces \subseteq Places
  BY DEF HeldPlaces
<1>2. IsFiniteSet(P)
  BY <1>1, CliConstants, FS_Subset
<1> QED
  BY <1>2 DEF AreFiles

\* ... also by an export that stops halfway.
LEMMA ExportKeepsFiles ==
  ASSUME Sound, FilesOK, NEW overwrite, Export(overwrite)
  PROVE  FilesOK'
<1>1. CASE Refused
  BY <1>1 DEF Refused, FilesOK
<1>2. CASE Saves
  <2>1. PICK f : f = Files(HeldPlaces)
    OBVIOUS
  <2>2. DOMAIN f = HeldPlaces /\ \A at \in HeldPlaces : f[at] = Exported(at)
    BY <2>1 DEF Files
  <2>3. AreFiles(f)
    BY <2>2, ExportedShape, SomeFiles
  <2> QED
    BY <1>2, <2>1, <2>3, HoldingFiles DEF Saves, FilesOK
<1>3. CASE StopsHalfway
  <2>1. PICK torn \in HeldPlaces, written \in SUBSET HeldPlaces :
          folder' = Holding([at \in written \cup {torn} |-> [Exported(at) EXCEPT !.torn = (at = torn)]])
    BY <1>3 DEF StopsHalfway
  <2>2. PICK f : f = [at \in written \cup {torn} |-> [Exported(at) EXCEPT !.torn = (at = torn)]]
    OBVIOUS
  <2>3. DOMAIN f = written \cup {torn} /\ DOMAIN f \in SUBSET HeldPlaces
    BY <2>2
  <2>4. \A at \in DOMAIN f : FileShape(f[at])
    <3> SUFFICES ASSUME NEW at \in DOMAIN f PROVE FileShape(f[at])
      OBVIOUS
    <3>1. f[at] = [Exported(at) EXCEPT !.torn = (at = torn)] /\ at \in HeldPlaces
      BY <2>2, <2>3
    <3> QED
      BY <3>1, ExportedShape
  <2>5. AreFiles(f)
    BY <2>3, <2>4, SomeFiles
  <2> QED
    BY <2>1, <2>2, <2>5, HoldingFiles DEF FilesOK
<1> QED
  BY <1>1, <1>2, <1>3 DEF Export

-------------------------------------------------------------------------------
(***************************************************************************)
(* The commands' batches.                                                  *)
(***************************************************************************)
LEMMA SomeAreBatch ==
  ASSUME NEW S, IsFiniteSet(S), S # {}, \A job \in S : JobShape(job), NEW q, q = SetToSeq(S)
  PROVE  IsBatch(q)
<1>1. q \in Seq(S) /\ ToSet(q) = S /\ q # <<>>
  BY ListIs
<1>2. \A i \in DOMAIN q : q[i] \in S
  BY <1>1
<1> QED
  BY <1>1, <1>2 DEF IsBatch

\* The jobs of an upload-all.
JobsOfFolder(withMacros) == {FileJob(n, folder[n], withMacros) : n \in DOMAIN folder}
ClearsOf(missing) == {JobAt(at, "clear") : at \in missing}

\* The jobs of a folder's files, with a clear for each missing place, are a batch.
LEMMA FolderIsBatch ==
  ASSUME Sound, FilesOK, NEW withMacros \in BOOLEAN, NEW missing \in SUBSET Places,
         \A n \in DOMAIN folder : ~BadFile(n, withMacros), DOMAIN folder \cup missing # {},
         NEW S, S = JobsOfFolder(withMacros) \cup ClearsOf(missing)
  PROVE  IsFiniteSet(S) /\ IsBatch(SetToSeq(S))
<1>1. model \in Models
  BY DEF Sound, TypeOK
<1>2. \A n \in DOMAIN folder : JobShape(FileJob(n, folder[n], withMacros))
  <2> SUFFICES ASSUME NEW n \in DOMAIN folder PROVE JobShape(FileJob(n, folder[n], withMacros))
    OBVIOUS
  <2>1. PICK file : file = folder[n]
    OBVIOUS
  <2>2. FileShape(file)
    BY <2>1 DEF FilesOK, AreFiles
  <2>3. withMacros /\ ~IsEmptied(file) => TakesMacros(file)
    BY <2>1 DEF BadFile
  <2> QED
    BY <1>1, <2>1, <2>2, <2>3, FileJobShape
<1>3. \A at \in missing : JobShape(JobAt(at, "clear"))
  BY JobAtShape
<1>4. IsFiniteSet(JobsOfFolder(withMacros))
  <2>1. PICK f : f = [n \in DOMAIN folder |-> FileJob(n, folder[n], withMacros)]
    OBVIOUS
  <2>2. PICK T : T = JobsOfFolder(withMacros)
    OBVIOUS
  <2>3. f \in [DOMAIN folder -> T] /\ T = {f[n] : n \in DOMAIN folder}
    BY <2>1, <2>2 DEF JobsOfFolder
  <2> QED
    BY <2>2, <2>3, OneForEach DEF FilesOK, AreFiles
<1>5. IsFiniteSet(ClearsOf(missing))
  <2>1. PICK f : f = [at \in missing |-> JobAt(at, "clear")]
    OBVIOUS
  <2>2. PICK T : T = ClearsOf(missing)
    OBVIOUS
  <2>3. f \in [missing -> T] /\ T = {f[at] : at \in missing}
    BY <2>1, <2>2 DEF ClearsOf
  <2>4. IsFiniteSet(missing)
    BY CliConstants, FS_Subset
  <2> QED
    BY <2>2, <2>3, <2>4, OneForEach
<1>6. IsFiniteSet(S)
  BY <1>4, <1>5, FS_Union
<1>7. S # {} /\ \A job \in S : JobShape(job)
  BY <1>2, <1>3 DEF JobsOfFolder, ClearsOf
<1> QED
  BY <1>6, <1>7, SomeAreBatch

\* An upload's job.
LEMMA UploadShape ==
  ASSUME model \in Models, NEW file, FileShape(file), NEW at, NEW withMacros \in BOOLEAN,
         ~(withMacros /\ ~TakesMacros(file)), NEW sound \in BOOLEAN, sound => file.sound
  PROVE  JobShape([FileJob(at, [file EXCEPT !.blank = FALSE], withMacros) EXCEPT !.sound = sound])
<1>1. PICK f : f = [file EXCEPT !.blank = FALSE]
  OBVIOUS
<1>2. /\ DOMAIN file = {"torn", "blank", "sound", "map", "macros", "refers"}
      /\ file.map \in [Buttons -> Outputs]
  BY DEF FileShape
<1>3. f.blank = FALSE /\ f.map = file.map /\ f.sound = file.sound /\ f.macros = file.macros
  BY <1>1, <1>2
<1>4. ~IsEmptied(f)
  BY <1>3 DEF IsEmptied
<1>5. FileMacroEdits(f) = FileMacroEdits(file)
  BY <1>3 DEF FileMacroEdits
<1>6. PICK q : q = IF withMacros THEN FileMacroEdits(file) ELSE <<>>
  OBVIOUS
<1>7. PICK job : job = FileJob(at, f, withMacros)
  OBVIOUS
<1>8. job = Made(at, "upload", file.map, q, AnyButton, AnyOutput, file.sound)
  BY <1>3, <1>4, <1>5, <1>6, <1>7, FileJobIs
<1>9. [job EXCEPT !.sound = sound] = Made(at, "upload", file.map, q, AnyButton, AnyOutput, sound)
  BY <1>8 DEF Made
<1>10. q \in Seq(Edit) /\ SoundEdits(q)
  <2>1. CASE withMacros
    <3>1. q = FileMacroEdits(file) /\ TakesMacros(file)
      BY <1>6, <2>1
    <3> QED
      BY <3>1, FileEdits, FileEditsSound
  <2>2. CASE ~withMacros
    <3>1. q \in Seq(Edit) /\ Len(q) = 0
      BY <1>6, <2>2
    <3> QED
      BY <3>1, NothingEdited
  <2> QED
    BY <2>1, <2>2
<1>11. file.map \in [Buttons -> Outputs] \cup {Keep}
  BY <1>2
<1>12. JobShape([job EXCEPT !.sound = sound])
  BY <1>9, <1>10, <1>11, AnyOnes, MadeJob
<1> QED
  BY <1>1, <1>7, <1>12

\* One macro put or deleted.
LEMMA OneEditShape ==
  ASSUME NEW at, NEW n \in Nat, NEW macro \in Macro, NEW sound \in BOOLEAN,
         sound => macro = Zeroed \/ (macro.steps # NoSteps /\ ~macro.unknown)
  PROVE  JobShape([JobAt(at, "upload") EXCEPT !.edits = <<[at |-> n, macro |-> macro]>>, !.sound = sound])
<1>1. PICK e : e = [at |-> n, macro |-> macro]
  OBVIOUS
<1>2. PICK q : q = <<e>>
  OBVIOUS
<1>3. e \in Edit /\ e.macro = macro
  BY <1>1 DEF Edit
<1>4. q \in Seq(Edit) /\ \A i \in DOMAIN q : q[i] = e
  BY <1>2, <1>3
<1>5. sound => SoundEdits(q)
  BY <1>3, <1>4 DEF SoundEdits
<1>6. PICK job : job = JobAt(at, "upload")
  OBVIOUS
<1>7. [job EXCEPT !.edits = q, !.sound = sound] = Made(at, "upload", Keep, q, AnyButton, AnyOutput, sound)
  <2>1. PICK z : z = <<>>
    OBVIOUS
  <2>2. job = Made(at, "upload", Keep, z, AnyButton, AnyOutput, TRUE)
    BY <1>6, <2>1, JobAtIs
  <2>3. PICK h : h = [job EXCEPT !.edits = q]
    OBVIOUS
  <2>4. h = Made(at, "upload", Keep, q, AnyButton, AnyOutput, TRUE)
    BY <2>2, <2>3 DEF Made
  <2>5. [job EXCEPT !.edits = q, !.sound = sound] = [h EXCEPT !.sound = sound]
    BY <2>2, <2>3 DEF Made
  <2>6. [h EXCEPT !.sound = sound] = Made(at, "upload", Keep, q, AnyButton, AnyOutput, sound)
    BY <2>4 DEF Made
  <2> QED
    BY <2>5, <2>6
<1>8. Keep \in [Buttons -> Outputs] \cup {Keep}
  OBVIOUS
<1>9. JobShape([job EXCEPT !.edits = q, !.sound = sound])
  <2>1. PICK j : j = [job EXCEPT !.edits = q, !.sound = sound]
    OBVIOUS
  <2>2. j = Made(at, "upload", Keep, q, AnyButton, AnyOutput, sound)
    BY <1>7, <2>1
  <2>3. JobShape(j)
    BY <1>4, <1>5, <1>8, <2>2, AnyOnes, MadeJob
  <2> QED
    BY <2>1, <2>3
<1> QED
  BY <1>1, <1>2, <1>6, <1>9

-------------------------------------------------------------------------------
(***************************************************************************)
(* The steps of the command line are those of Plan, with other batches.    *)
(***************************************************************************)
StartsBatch ==
  \E jobs : IsBatch(jobs) /\ \E pol \in Policies : Starts(jobs, pol) /\ asked' \in 0..MaxBatches
PlanStep == StartsBatch \/ PlanJob \/ RefuseBatch \/ Write \/ UNCHANGED vars

\* A command starts a batch or does nothing, and leaves the folder.
LEMMA CommandIs ==
  ASSUME Sound, FilesOK, NEW after, NEW who, NEW refused \in BOOLEAN, NEW jobs, NEW pol \in Policies,
         Command(after, who, refused, jobs, pol), ~refused => IsBatch(jobs)
  PROVE  PlanStep /\ FilesOK'
<1>1. FilesOK'
  BY DEF Command, FilesOK
<1>2. CASE refused
  BY <1>1, <1>2 DEF Command, PlanStep
<1>3. CASE ~refused
  <2>1. Starts(jobs, pol) /\ UNCHANGED asked
    BY <1>3 DEF Command
  <2>2. asked' \in 0..MaxBatches
    BY <2>1 DEF Sound, TypeOK
  <2> QED
    BY <1>1, <1>3, <2>1, <2>2 DEF PlanStep, StartsBatch
<1> QED
  BY <1>2, <1>3

\* A command of one job starts a batch of it.
LEMMA OneJobIs ==
  ASSUME Sound, FilesOK, NEW after, NEW refused \in BOOLEAN, NEW job, NEW pol \in Policies,
         OneJob(after, refused, job, pol), ~refused => JobShape(job)
  PROVE  PlanStep /\ FilesOK'
<1>1. PICK jobs : jobs = <<job>>
  OBVIOUS
<1>2. Command(after, "other", refused, jobs, pol)
  BY <1>1 DEF OneJob
<1>3. ~refused => IsBatch(jobs)
  BY <1>1, OneIsBatch
<1> QED
  BY <1>2, <1>3, CommandIs

\* The app.
LEMMA AppIs ==
  ASSUME Sound, FilesOK, AppBegins
  PROVE  PlanStep /\ FilesOK'
<1>1. FilesOK'
  BY DEF AppBegins, FilesOK
<1>2. CASE Begin
  <2>1. PICK jobs \in Batches, pol \in Policies : Starts(jobs, pol)
    BY <1>2 DEF Begin
  <2>2. IsBatch(jobs)
    BY PlanConstants
  <2>3. asked' \in 0..MaxBatches
    BY <1>2, PlanConstants DEF Begin, Sound, TypeOK
  <2> QED
    BY <1>1, <2>1, <2>2, <2>3 DEF PlanStep, StartsBatch
<1>3. CASE (\E jobs \in Between : Starts(jobs, "force")) /\ UNCHANGED asked
  <2>1. PICK jobs \in Between : Starts(jobs, "force")
    BY <1>3
  <2>2. IsBatch(jobs)
    BY PlanConstants, CliConstants
  <2>3. asked' \in 0..MaxBatches
    BY <1>3 DEF Sound, TypeOK
  <2>4. "force" \in Policies
    BY DEF Policies
  <2> QED
    BY <1>1, <2>1, <2>2, <2>3, <2>4 DEF PlanStep, StartsBatch
<1> QED
  BY <1>2, <1>3 DEF AppBegins

\* upload-all.
LEMMA UploadAllIs ==
  ASSUME Sound, FilesOK, NEW withMacros \in BOOLEAN, NEW clearMissing \in BOOLEAN,
         NEW pol \in Policies, UploadAll(withMacros, clearMissing, pol)
  PROVE  PlanStep /\ FilesOK'
<1> DEFINE names   == DOMAIN folder
           missing == IF clearMissing THEN Places \ names ELSE {}
           refused == (\E n \in names : BadFile(n, withMacros)) \/ names \cup missing = {}
           who     == IF withMacros /\ clearMissing THEN "restore" ELSE "other"
           S       == JobsOfFolder(withMacros) \cup ClearsOf(missing)
<1>1. Command(Later, who, refused, SetToSeq(S), pol)
  BY DEF UploadAll, JobsOfFolder, ClearsOf
<1>2. missing \in SUBSET Places
  OBVIOUS
<1> HIDE DEF missing
<1>3. ~refused => IsBatch(SetToSeq(S))
  BY <1>2, FolderIsBatch
<1>4. PICK q : q = SetToSeq(S)
  OBVIOUS
<1>5. refused \in BOOLEAN
  OBVIOUS
<1>6. PICK r \in BOOLEAN : r <=> refused
  OBVIOUS
<1> HIDE DEF refused, S, who
<1>7. r = refused
  BY <1>5, <1>6
<1>8. Command(Later, who, r, q, pol)
  BY <1>1, <1>4, <1>7
<1>9. ~r => IsBatch(q)
  BY <1>3, <1>4, <1>7
<1> QED
  BY <1>8, <1>9, CommandIs

\* upload.
LEMMA UploadIs ==
  ASSUME Sound, FilesOK, NEW name \in DOMAIN folder, NEW at \in Places, NEW withMacros \in BOOLEAN,
         NEW pol \in Policies, Upload(name, at, withMacros, pol)
  PROVE  PlanStep /\ FilesOK'
<1>1. PICK file : file = folder[name]
  OBVIOUS
<1>2. FileShape(file) /\ model \in Models
  BY <1>1 DEF FilesOK, AreFiles, Sound, TypeOK
<1>3. PICK j : j = FileJob(at, [file EXCEPT !.blank = FALSE], withMacros)
  OBVIOUS
<1>4. PICK sound \in BOOLEAN :
        /\ sound <=> /\ j.sound /\ ~IsEmptied(file) /\ name[1] = at[1]
                     /\ \/ withMacros
                        \/ file.refers /\ OneEach(file.macros)
                        \/ ValidMacros(file.macros)
  OBVIOUS
<1>5. PICK refused \in BOOLEAN : refused <=> file.torn \/ (withMacros /\ ~TakesMacros(file))
  OBVIOUS
<1>6. OneJob(Fresh, refused, [j EXCEPT !.sound = sound], pol)
  BY <1>1, <1>3, <1>4, <1>5 DEF Upload
<1>7. sound => file.sound
  <2>1. PICK f : f = [file EXCEPT !.blank = FALSE]
    OBVIOUS
  <2>2. DOMAIN file = {"torn", "blank", "sound", "map", "macros", "refers"}
    BY <1>2 DEF FileShape
  <2>3. f.blank = FALSE /\ f.sound = file.sound
    BY <2>1, <2>2
  <2>4. ~IsEmptied(f)
    BY <2>3 DEF IsEmptied
  <2>5. j.sound = f.sound
    BY <1>3, <2>1, <2>4, FileJobIs DEF Made
  <2> QED
    BY <1>4, <2>3, <2>5
<1>8. ~refused => JobShape([j EXCEPT !.sound = sound])
  BY <1>2, <1>3, <1>5, <1>7, UploadShape
<1> QED
  BY <1>6, <1>8, OneJobIs

\* delete-macro, deactivate, remap.
LEMMA DeleteIs ==
  ASSUME Sound, FilesOK, NEW at \in Places, NEW n \in MacroSlots(model), NEW pol \in Policies,
         DeleteMacroAt(at, n, pol)
  PROVE  PlanStep /\ FilesOK'
<1>1. PICK job : job = [JobAt(at, "upload") EXCEPT !.edits = <<[at |-> n, macro |-> Zeroed]>>]
  OBVIOUS
<1>2. job = [JobAt(at, "upload") EXCEPT !.edits = <<[at |-> n, macro |-> Zeroed]>>, !.sound = TRUE]
  <2>1. PICK z : z = <<>>
    OBVIOUS
  <2>2. PICK q : q = <<[at |-> n, macro |-> Zeroed]>>
    OBVIOUS
  <2>3. PICK j : j = JobAt(at, "upload")
    OBVIOUS
  <2>4. j = Made(at, "upload", Keep, z, AnyButton, AnyOutput, TRUE)
    BY <2>1, <2>3, JobAtIs
  <2>5. [j EXCEPT !.edits = q] = [j EXCEPT !.edits = q, !.sound = TRUE]
    <3>1. PICK h : h = [j EXCEPT !.edits = q]
      OBVIOUS
    <3>2. h = Made(at, "upload", Keep, q, AnyButton, AnyOutput, TRUE)
      BY <2>4, <3>1 DEF Made
    <3>3. [j EXCEPT !.edits = q, !.sound = TRUE] = [h EXCEPT !.sound = TRUE]
      BY <2>4, <3>1 DEF Made
    <3>4. [h EXCEPT !.sound = TRUE] = h
      <4>1. PICK u : u = TRUE
        OBVIOUS
      <4>2. h = Made(at, "upload", Keep, q, AnyButton, AnyOutput, u)
        BY <3>2, <4>1
      <4>3. [h EXCEPT !.sound = u] = h
        BY <4>2 DEF Made
      <4> QED
        BY <4>1, <4>3
    <3> QED
      BY <3>1, <3>3, <3>4
  <2> QED
    BY <1>1, <2>2, <2>3, <2>5
<1>3. JobShape(job)
  BY <1>2, SlotsAreFinite, ZeroedIs, OneEditShape DEF Sound, TypeOK
<1>4. OneJob(Alone, FALSE, job, pol)
  BY <1>1 DEF DeleteMacroAt
<1> QED
  BY <1>3, <1>4, OneJobIs

\* deactivate: one clear.
LEMMA DeactivateIs ==
  ASSUME Sound, FilesOK, NEW at \in Places, NEW pol \in Policies, DeactivateSlot(at, pol)
  PROVE  PlanStep /\ FilesOK'
BY JobAtShape, OneJobIs DEF DeactivateSlot

\* remap: one button of one slot.
LEMMA RemapIs ==
  ASSUME Sound, FilesOK, NEW at \in Places, NEW b \in Buttons, NEW o \in Outputs, NEW pol \in Policies,
         RemapButton(at, b, o, pol)
  PROVE  PlanStep /\ FilesOK'
<1>1. PICK j : j = JobAt(at, "remap")
  OBVIOUS
<1>2. PICK q : q = <<>>
  OBVIOUS
<1>3. JobShape([j EXCEPT !.button = b, !.output = o])
  <2>1. j = Made(at, "remap", Keep, q, AnyButton, AnyOutput, TRUE)
    BY <1>1, <1>2, JobAtIs
  <2>2. PICK h : h = [j EXCEPT !.button = b, !.output = o]
    OBVIOUS
  <2>3. h = Made(at, "remap", Keep, q, b, o, TRUE)
    BY <2>1, <2>2 DEF Made
  <2>4. q \in Seq(Edit) /\ Len(q) = 0
    BY <1>2
  <2>5. SoundEdits(q)
    BY <2>4, NothingEdited
  <2>6. Keep \in [Buttons -> Outputs] \cup {Keep} /\ TRUE \in BOOLEAN
    OBVIOUS
  <2>7. JobShape(h)
    BY <2>3, <2>4, <2>5, <2>6, MadeJob
  <2> QED
    BY <2>2, <2>7
<1> QED
  BY <1>1, <1>3, OneJobIs DEF RemapButton

\* write-macro.
LEMMA ConvertedIs ==
  ASSUME NEW macro \in Macro, NEW others, NEW map
  PROVE  /\ Converted(macro, others, map) \in Macro
         /\ Converted(macro, others, map).steps = macro.steps
         /\ ~Converted(macro, others, map).unknown
<1>1. PICK t : t = {b \in macro.triggers : ~BankRefuses(b, others, map)}
  OBVIOUS
<1>2. Converted(macro, others, map) = [macro EXCEPT !.triggers = t, !.unknown = FALSE]
  BY <1>1 DEF Converted
<1>3. t \in SUBSET Buttons
  BY <1>1 DEF Macro
<1> QED
  BY <1>2, <1>3 DEF Macro

\* ... written to a slot, it is one job or refused.
LEMMA WriteMacroIs ==
  ASSUME Sound, FilesOK, NEW file \in MacroFiles, NEW at \in Places, NEW slot \in 0..MacroCount[model],
         NEW convert \in BOOLEAN, NEW pol \in Policies, WriteMacro(file, at, slot, convert, pol)
  PROVE  PlanStep /\ FilesOK'
<1> DEFINE holds  == at \in Places /\ pad[at].used
           held   == IF holds THEN MacrosOf(model, pad[at]) ELSE NoMacros
           map    == IF holds THEN MapOf(model, pad[at]) ELSE DefaultMap
           free   == MacroSlots(model) \ DOMAIN held
           n      == IF slot # 0 \/ free = {} THEN slot
                     ELSE CHOOSE m \in free : \A k \in free : m <= k
           others == [k \in DOMAIN held \ {n} |-> held[k]]
           moves  == file.mode # at[1]
           macro  == IF moves THEN Converted(file.macro, others, map) ELSE file.macro
           refuses == n = 0 \/ (moves /\ ~(convert /\ at[1] \in file.fits))
<1>1. MacroFileShape(file)
  BY CliConstants
<1>2. n \in Nat
  <2>1. MacroCount[model] \in Nat /\ free \subseteq Nat
    BY SlotsAreFinite, BankConstants DEF Sound, TypeOK
  <2>2. CASE slot # 0 \/ free = {}
    BY <2>1, <2>2
  <2>3. CASE ~(slot # 0 \/ free = {})
    <3>1. PICK T : T = free
      OBVIOUS
    <3>2. \E m \in T : \A k \in T : m <= k
      BY <2>1, <2>3, <3>1, LeastNumber
    <3>3. (CHOOSE m \in T : \A k \in T : m <= k) \in T
      BY <3>2
    <3> QED
      BY <2>1, <2>3, <3>1, <3>3
  <2> QED
    BY <2>2, <2>3
<1>3. PICK m : m = macro
  <2> HIDE DEF macro
  <2> QED
    OBVIOUS
<1>4. PICK o : o = others
  OBVIOUS
<1>5. PICK f : f = map
  OBVIOUS
<1>6. file.macro \in Macro /\ ~file.macro.unknown /\ file.sound \in BOOLEAN
      /\ (file.sound => file.macro.steps # NoSteps)
  BY <1>1 DEF MacroFileShape
<1>7. m = IF moves THEN Converted(file.macro, o, f) ELSE file.macro
  BY <1>3, <1>4, <1>5
<1>8. m \in Macro /\ ~m.unknown /\ m.steps = file.macro.steps
  BY <1>6, <1>7, ConvertedIs
<1>9. PICK k : k = n
  OBVIOUS
<1>10. PICK r \in BOOLEAN : r <=> refuses
  OBVIOUS
<1>11. PICK job : job = [JobAt(at, "upload") EXCEPT !.edits = <<[at |-> k, macro |-> m]>>, !.sound = file.sound]
  OBVIOUS
<1>12. r = refuses
  BY <1>10
<1>13. OneJob(Alone, r, job, pol)
  <2>1. OneJob(Alone, refuses,
               [JobAt(at, "upload") EXCEPT !.edits = <<[at |-> n, macro |-> macro]>>, !.sound = file.sound],
               pol)
    BY DEF WriteMacro
  <2> HIDE DEF refuses, n, macro
  <2> QED
    BY <1>3, <1>9, <1>11, <1>12, <2>1
<1> HIDE DEF n, macro
<1>14. JobShape(job)
  BY <1>2, <1>6, <1>8, <1>9, <1>11, OneEditShape
<1> QED
  BY <1>13, <1>14, OneJobIs

\* Every step.
LEMMA CliSteps ==
  ASSUME Sound, FilesOK, [CliNext]_<<vars, cvars>>
  PROVE  PlanStep /\ FilesOK'
<1>1. CASE AppBegins
  BY <1>1, AppIs
<1>2. CASE Plans \/ Ends
  BY <1>2 DEF Plans, Ends, cvars, PlanStep, FilesOK
<1>3. ASSUME NEW overwrite \in BOOLEAN, Export(overwrite) PROVE PlanStep /\ FilesOK'
  BY <1>3, ExportKeepsFiles DEF Export, PlanStep
<1>4. ASSUME NEW withMacros \in BOOLEAN, NEW clearMissing \in BOOLEAN, NEW pol \in Policies,
             UploadAll(withMacros, clearMissing, pol)
      PROVE  PlanStep /\ FilesOK'
  BY <1>4, UploadAllIs
<1>5. ASSUME NEW name \in DOMAIN folder, NEW at \in Places, NEW withMacros \in BOOLEAN,
             NEW pol \in Policies, Upload(name, at, withMacros, pol)
      PROVE  PlanStep /\ FilesOK'
  BY <1>5, UploadIs
<1>6. ASSUME NEW file \in MacroFiles, NEW at \in Places, NEW n \in 0..MacroCount[model],
             NEW convert \in BOOLEAN, NEW pol \in Policies, WriteMacro(file, at, n, convert, pol)
      PROVE  PlanStep /\ FilesOK'
  BY <1>6, WriteMacroIs
<1>7. ASSUME NEW at \in Places, NEW pol \in Policies,
             \/ \E n \in MacroSlots(model) : DeleteMacroAt(at, n, pol)
             \/ DeactivateSlot(at, pol)
             \/ \E b \in Buttons, o \in Outputs : RemapButton(at, b, o, pol)
      PROVE  PlanStep /\ FilesOK'
  BY <1>7, DeleteIs, DeactivateIs, RemapIs
<1>8. CASE UNCHANGED <<vars, cvars>>
  BY <1>8 DEF cvars, PlanStep, FilesOK
<1> QED
  BY <1>1, <1>2, <1>3, <1>4, <1>5, <1>6, <1>7, <1>8 DEF CliNext

-------------------------------------------------------------------------------
(***************************************************************************)
(* What Plan is proved to keep, the command line keeps.                    *)
(***************************************************************************)
LEMMA PlanStepKeeps ==
  ASSUME Sound, PlanStep
  PROVE  Sound' /\ (Faithful => Faithful')
<1>1. CASE StartsBatch
  <2>1. PICK jobs : IsBatch(jobs) /\ \E pol \in Policies : Starts(jobs, pol) /\ asked' \in 0..MaxBatches
    BY <1>1 DEF StartsBatch
  <2> QED
    BY <2>1, StartsSound
<1>2. CASE PlanJob \/ RefuseBatch \/ Write \/ UNCHANGED vars
  BY <1>2, NextSound DEF Next
<1> QED
  BY <1>1, <1>2 DEF PlanStep

\* ... and is a step of the promise.
LEMMA PlanStepPromises ==
  ASSUME Sound, Faithful, PlanStep
  PROVE  \/ Promise!PromiseNext
         \/ UNCHANGED <<model, [at \in Places |-> View(pad[at])], batch, policy>>
<1>1. CASE StartsBatch
  <2>1. PICK jobs : IsBatch(jobs) /\ \E pol \in Policies : Starts(jobs, pol) /\ asked' \in 0..MaxBatches
    BY <1>1 DEF StartsBatch
  <2> QED
    BY <2>1, AsksPromise DEF Promise!PromiseNext
<1>2. CASE PlanJob \/ UNCHANGED vars
  BY <1>2, PlanPromise DEF PlanJob, vars
<1>3. CASE RefuseBatch
  BY <1>3, RefusePromise DEF Promise!PromiseNext
<1>4. CASE Write
  BY <1>4, WritePromise DEF Promise!PromiseNext
<1> QED
  BY <1>1, <1>2, <1>3, <1>4 DEF PlanStep

\* The pads and the folder a command line starts with.
LEMMA CliInitSound ==
  ASSUME CliInit
  PROVE  Sound /\ FilesOK
<1>1. FilesOK
  BY CliConstants DEF CliInit, FilesOK, AreFiles
<1> QED
  BY <1>1, InitSound DEF CliInit

\* The inductive invariant: whatever files it finds, the command line only ever starts
\* well-formed batches, and its folder holds files its own commands can read.
THEOREM CliIsSound == CliSpec => [](Sound /\ FilesOK)
<1>1. CliInit => Sound /\ FilesOK
  BY CliInitSound
<1>2. (Sound /\ FilesOK) /\ [CliNext]_<<vars, cvars>> => (Sound /\ FilesOK)'
  BY CliSteps, PlanStepKeeps
<1> QED
  BY <1>1, <1>2, PTL DEF CliSpec

\* No command of the CLI leads a batch to a bank that its pad cannot hold.
THEOREM CliTypeCorrect == CliSpec => []TypeOK
<1>1. Sound => TypeOK
  BY DEF Sound
<1> QED
  BY <1>1, CliIsSound, PTL

\* ... nor plans a put macro that shares its trigger with another,
THEOREM CliPutsStartAlone == CliSpec => []PutsStartAlone
<1>1. Sound => PutsStartAlone
  BY SoundPutsStartAlone
<1> QED
  BY <1>1, CliIsSound, PTL

\* ... nor replaces steps in a page that it does not read first.
THEOREM CliPagesCoverReplaced == CliSpec => []PagesCoverReplaced
<1>1. Sound => PagesCoverReplaced
  BY SoundPages
<1> QED
  BY <1>1, CliIsSound, PTL

\* Every command of the CLI implements PadPromise: what it asks for is on the pad, all of
\* it, or nothing changed; and the app's batches in between do.
THEOREM CliKeepsPromise ==
  ASSUME SteppedPads
  PROVE  CliSpec => KeepsPromise
<1> DEFINE Inv == Sound /\ FilesOK /\ Faithful
<1>1. CliInit => Inv
  BY CliInitSound, InitFaithful DEF CliInit
<1>2. Inv /\ [CliNext]_<<vars, cvars>> => Inv'
  BY CliSteps, PlanStepKeeps
<1>3. CliInit => batch = <<>>
  BY DEF CliInit, Init
<1>4. Inv /\ [CliNext]_<<vars, cvars>> =>
        [Promise!PromiseNext]_<<model, [at \in Places |-> View(pad[at])], batch, policy>>
  BY CliSteps, PlanStepPromises
<1> QED
  BY <1>1, <1>2, <1>3, <1>4, PTL DEF CliSpec, KeepsPromise, Promise!PromiseSpec, Promise!pvars

-------------------------------------------------------------------------------
(***************************************************************************)
(* An export comes back.                                                   *)
(***************************************************************************)
\* What a slot in use showed at an export that ended well: every macro has steps and
\* triggers of its own, and a packed model counts them from the first.
ShownBy(m, w) ==
  /\ w = UsedView(w.map, w.macros) /\ w.map \in [Buttons -> Outputs]
  /\ \E K \in SUBSET MacroSlots(m) :
       /\ w.macros \in [K -> Macro]
       /\ IsPacked(m) => \E L \in Nat : K = 1..L
       /\ \A n \in K : w.macros[n].steps # NoSteps
  /\ OneEach(w.macros)

\* The macro an upload of these macros puts in a macro slot.
MacroFor(macros, n) == IF n \in DOMAIN macros THEN macros[n] ELSE Zeroed

\* The job brings back what a slot showed.
RestoresTo(m, w, job) ==
  /\ job.sound
  /\ ~w.used => job.op = "clear"
  /\ w.used =>
       /\ job.op = "upload" /\ job.map = w.map /\ job.drops = {}
       /\ job.edits \in Seq(Edit)
       /\ ToSet(job.edits) = {[at |-> n, macro |-> MacroFor(w.macros, n)] : n \in MacroSlots(m)}
       /\ \A i, j \in DOMAIN job.edits : job.edits[i].at = job.edits[j].at => i = j

\* The edits of such a job, by macro slot, are the macros that showed.
LEMMA RestoredEdits ==
  ASSUME NEW m \in Models, NEW w, ShownBy(m, w), NEW job, RestoresTo(m, w, job),
         NEW M, DOMAIN M \subseteq MacroSlots(m)
  PROVE  EditedFor(M, job.edits) = w.macros
<1>1. PICK K \in SUBSET MacroSlots(m) :
        w.macros \in [K -> Macro] /\ \A n \in K : w.macros[n].steps # NoSteps
  BY DEF ShownBy
<1>2. w.used
  BY DEF ShownBy, UsedView
<1>3. PICK q : q = job.edits
  OBVIOUS
<1>4. /\ q \in Seq(Edit)
      /\ ToSet(q) = {[at |-> n, macro |-> MacroFor(w.macros, n)] : n \in MacroSlots(m)}
      /\ \A i, j \in DOMAIN q : q[i].at = q[j].at => i = j
  BY <1>2, <1>3 DEF RestoresTo
<1>5. \A i \in DOMAIN q : q[i].at \in MacroSlots(m) /\ q[i].macro = MacroFor(w.macros, q[i].at)
  BY <1>4 DEF ToSet
<1>6. \A n \in MacroSlots(m) : \E i \in DOMAIN q : q[i].at = n
  <2> SUFFICES ASSUME NEW n \in MacroSlots(m) PROVE \E i \in DOMAIN q : q[i].at = n
    OBVIOUS
  <2>1. [at |-> n, macro |-> MacroFor(w.macros, n)] \in ToSet(q)
    BY <1>4
  <2>2. PICK i \in DOMAIN q : q[i] = [at |-> n, macro |-> MacroFor(w.macros, n)]
    BY <2>1 DEF ToSet
  <2> QED
    BY <2>2
<1>7. {q[i].at : i \in DOMAIN q} = MacroSlots(m)
  BY <1>5, <1>6
<1>8. \A n \in MacroSlots(m) : EditAt(q, n) = MacroFor(w.macros, n)
  <2> SUFFICES ASSUME NEW n \in MacroSlots(m) PROVE EditAt(q, n) = MacroFor(w.macros, n)
    OBVIOUS
  <2>1. PICK k : k = CHOOSE i \in DOMAIN q : q[i].at = n
    OBVIOUS
  <2>2. k \in DOMAIN q /\ q[k].at = n
    BY <1>6, <2>1
  <2> QED
    BY <1>5, <2>1, <2>2 DEF EditAt
<1>9. {n \in MacroSlots(m) : EditAt(q, n) # Zeroed} = K
  <2>1. \A n \in K : MacroFor(w.macros, n) # Zeroed
    BY <1>1 DEF MacroFor, Zeroed
  <2>2. \A n \in MacroSlots(m) \ K : MacroFor(w.macros, n) = Zeroed
    BY <1>1 DEF MacroFor
  <2> QED
    BY <1>8, <2>1, <2>2
<1>10. EditedFor(M, q) = [n \in K |-> EditAt(q, n)]
  <2>1. PICK T, P : T = {q[i].at : i \in DOMAIN q} /\ P = {n \in T : EditAt(q, n) # Zeroed}
    OBVIOUS
  <2>2. EditedFor(M, q) = [n \in (DOMAIN M \ T) \cup P |-> IF n \in P THEN EditAt(q, n) ELSE M[n]]
    BY <2>1 DEF EditedFor
  <2>3. T = MacroSlots(m) /\ P = K /\ (DOMAIN M \ T) \cup P = K
    BY <1>7, <1>9, <2>1
  <2> QED
    BY <2>2, <2>3
<1>11. w.macros = [n \in K |-> w.macros[n]]
  BY <1>1
<1>12. \A n \in K : EditAt(q, n) = w.macros[n]
  BY <1>1, <1>8 DEF MacroFor
<1> QED
  BY <1>3, <1>10, <1>11, <1>12

\* ... so the job asks for what showed.
LEMMA RestoreAsks ==
  ASSUME NEW m \in Models, NEW w, ShownBy(m, w) \/ w = EmptyView, NEW job, RestoresTo(m, w, job),
         NEW v, DOMAIN v.macros \subseteq MacroSlots(m)
  PROVE  AskedFor(m, v, job) = w
<1>1. CASE w = EmptyView
  <2>1. ~w.used
    BY <1>1 DEF EmptyView
  <2> QED
    BY <1>1, <2>1 DEF AskedFor, RestoresTo
<1>2. CASE ShownBy(m, w)
  <2>1. w.used /\ w = UsedView(w.map, w.macros)
    BY <1>2 DEF ShownBy, UsedView
  <2>2. job.op = "upload" /\ job.map = w.map /\ job.drops = {}
    BY <2>1 DEF RestoresTo
  <2>3. job.map # Keep
    BY <1>2, <2>2, PlanConstants DEF ShownBy
  <2>4. PICK M : M = Without(v.macros, {})
    OBVIOUS
  <2>5. DOMAIN M \subseteq MacroSlots(m)
    BY <2>4 DEF Without
  <2>6. EditedFor(M, job.edits) = w.macros
    BY <1>2, <2>5, RestoredEdits
  <2>7. Settled(m, w.macros) = w.macros
    <3>1. CASE ~IsPacked(m)
      BY <3>1 DEF Settled
    <3>2. CASE IsPacked(m)
      <4>1. PICK L \in Nat : 1..L \in SUBSET MacroSlots(m) /\ w.macros \in [1..L -> Macro]
        BY <1>2, <3>2 DEF ShownBy
      <4>2. PICK b \in Nat : MacroSlots(m) = 1..b
        BY BankConstants DEF MacroSlots
      <4>3. L \in 0..b
        BY <4>1, <4>2
      <4>4. Pack(w.macros) = w.macros
        BY <4>1, <4>2, <4>3, PackSequence
      <4> QED
        BY <3>2, <4>4 DEF Settled
    <3> QED
      BY <3>1, <3>2
  <2>8. AskedFor(m, v, job) = UsedView(job.map, Settled(m, EditedFor(M, job.edits)))
    BY <2>2, <2>3, <2>4 DEF AskedFor
  <2> QED
    BY <2>1, <2>2, <2>6, <2>7, <2>8
<1> QED
  BY <1>1, <1>2

\* What was saved is in the folder, or showed nothing.
KeepsExport ==
  \A at \in DOMAIN saved :
    /\ at \in Places
    /\ at \in DOMAIN folder => folder[at] = FileOf(saved[at]) /\ ShownBy(model, saved[at])
    /\ at \notin DOMAIN folder => saved[at] = EmptyView

\* One job for each slot, and each that was saved is brought back.
RestoresAll(m, of, jobs) ==
  /\ \A i \in DOMAIN jobs : /\ Place(jobs[i]) \in Places
                            /\ \A j \in DOMAIN jobs : Place(jobs[i]) = Place(jobs[j]) => i = j
  /\ \A at \in DOMAIN of : \E i \in DOMAIN jobs :
       Place(jobs[i]) = at /\ RestoresTo(m, of[at], jobs[i])

Restores == (command = "restore" /\ batch # <<>>) => RestoresAll(model, saved, batch)

\* The fields of a job.
LEMMA MadeIs ==
  ASSUME NEW at, NEW op, NEW map, NEW edits, NEW button, NEW output, NEW sound,
         NEW job, job = Made(at, op, map, edits, button, output, sound)
  PROVE  /\ job.op = op /\ job.map = map /\ job.drops = {} /\ job.edits = edits
         /\ job.sound = sound
BY DEF Made

\* The file of what showed is uploaded as it showed.
LEMMA FileRestores ==
  ASSUME model \in Models, NEW at \in Places, NEW w, ShownBy(model, w), FileShape(FileOf(w))
  PROVE  RestoresTo(model, w, FileJob(at, FileOf(w), TRUE))
<1>0. PICK job : job = FileJob(at, FileOf(w), TRUE)
  OBVIOUS
<1>1. PICK file : file = FileOf(w)
  OBVIOUS
<1>2. ~file.blank /\ file.sound /\ file.map = w.map /\ file.macros = w.macros
  BY <1>1 DEF FileOf
<1>3. ~IsEmptied(file)
  BY <1>2 DEF IsEmptied
<1>4. PICK q : q = FileMacroEdits(file)
  OBVIOUS
<1>5. job = Made(at, "upload", file.map, q, AnyButton, AnyOutput, file.sound)
  BY <1>1, <1>3, <1>4, <1>0, FileJobIs
<1>6. job.op = "upload" /\ job.map = w.map /\ job.drops = {} /\ job.edits = q /\ job.sound
  <2>1. /\ job.op = "upload" /\ job.map = file.map /\ job.drops = {} /\ job.edits = q
        /\ job.sound = file.sound
    BY <1>5, MadeIs
  <2>2. job.sound /\ job.map = w.map
    BY <1>2, <2>1
  <2> QED
    BY <2>1, <2>2
<1>7. /\ q \in Seq(Edit) /\ ToSet(q) = EditsOfFile(file)
      /\ \A i, j \in DOMAIN q : q[i] = q[j] => i = j
  BY <1>1, <1>4, FileEdits
<1>8. DOMAIN w.macros \subseteq MacroSlots(model)
  BY DEF ShownBy
<1>9. EditsOfFile(file) = {[at |-> n, macro |-> MacroFor(w.macros, n)] : n \in MacroSlots(model)}
  <2>1. DOMAIN file.macros \cup MacroSlots(model) = MacroSlots(model)
    BY <1>2, <1>8
  <2>2. \A n : EditOf(file, n) = [at |-> n, macro |-> MacroFor(w.macros, n)]
    BY <1>2 DEF EditOf, MacroFor
  <2> QED
    BY <2>1, <2>2 DEF EditsOfFile
<1>10. \A i, j \in DOMAIN q : q[i].at = q[j].at => i = j
  <2> SUFFICES ASSUME NEW i \in DOMAIN q, NEW j \in DOMAIN q, q[i].at = q[j].at PROVE i = j
    OBVIOUS
  <2>1. q[i] \in EditsOfFile(file) /\ q[j] \in EditsOfFile(file)
    BY <1>7 DEF ToSet
  <2>2. PICK n \in MacroSlots(model) : q[i] = [at |-> n, macro |-> MacroFor(w.macros, n)]
    BY <1>9, <2>1
  <2>3. PICK k \in MacroSlots(model) : q[j] = [at |-> k, macro |-> MacroFor(w.macros, k)]
    BY <1>9, <2>1
  <2>4. n = k
    BY <2>2, <2>3
  <2> QED
    BY <1>7, <2>2, <2>3, <2>4
<1>11. w.used
  <2>1. w = UsedView(w.map, w.macros)
    BY DEF ShownBy
  <2> QED
    BY <2>1 DEF UsedView
<1> QED
  <2>1. RestoresTo(model, w, job)
    BY <1>6, <1>7, <1>9, <1>10, <1>11 DEF RestoresTo
  <2> QED
    BY <1>0, <2>1

JobFor(at) == IF at \in DOMAIN folder THEN FileJob(at, folder[at], TRUE) ELSE JobAt(at, "clear")

\* A job is for the place its file is named for.
LEMMA JobForPlace ==
  ASSUME NEW at \in Places
  PROVE  Place(JobFor(at)) = at
<1>1. at = <<at[1], at[2]>>
  BY DEF Places
<1>2. \A op, map, edits, button, output, sound :
        Place(Made(at, op, map, edits, button, output, sound)) = at
  BY <1>1 DEF Made, Place
<1>3. \A op : Place(JobAt(at, op)) = at
  BY <1>2, JobAtIs
<1> QED
  BY <1>2, <1>3, FileJobIs DEF JobFor

\* The upload-all that restores has one job for each slot, and it brings back what showed.
LEMMA FolderRestores ==
  ASSUME Sound, FilesOK, KeepsExport, \A n \in DOMAIN folder : ~BadFile(n, TRUE),
         NEW missing, missing = Places \ DOMAIN folder, DOMAIN folder \cup missing # {},
         NEW S, S = JobsOfFolder(TRUE) \cup ClearsOf(missing), NEW q, q = SetToSeq(S)
  PROVE  RestoresAll(model, saved, q)
<1>1. model \in Models
  BY DEF Sound, TypeOK
<1>2. DOMAIN folder \subseteq Places
  BY DEF BadFile
<1>3. S = {JobFor(at) : at \in Places}
  <2>1. \A at \in DOMAIN folder : JobFor(at) = FileJob(at, folder[at], TRUE)
    BY DEF JobFor
  <2>2. \A at \in missing : JobFor(at) = JobAt(at, "clear")
    BY DEF JobFor
  <2>3. JobsOfFolder(TRUE) = {JobFor(at) : at \in DOMAIN folder}
    BY <2>1 DEF JobsOfFolder
  <2>4. ClearsOf(missing) = {JobFor(at) : at \in missing}
    BY <2>2 DEF ClearsOf
  <2> QED
    BY <1>2, <2>3, <2>4
<1>4. IsFiniteSet(S)
  BY FolderIsBatch
<1>5. ToSet(q) = S /\ \A i, j \in DOMAIN q : q[i] = q[j] => i = j
  BY <1>4, ListIs
<1>6. \A i \in DOMAIN q : \E at \in Places : q[i] = JobFor(at)
  <2> SUFFICES ASSUME NEW i \in DOMAIN q PROVE \E at \in Places : q[i] = JobFor(at)
    OBVIOUS
  <2>1. q[i] \in S
    BY <1>5 DEF ToSet
  <2> QED
    BY <1>3, <2>1
<1>7. ASSUME NEW i \in DOMAIN q
      PROVE  /\ Place(q[i]) \in Places
             /\ \A j \in DOMAIN q : Place(q[i]) = Place(q[j]) => i = j
  <2>1. PICK at \in Places : q[i] = JobFor(at)
    BY <1>6
  <2>2. ASSUME NEW j \in DOMAIN q, Place(q[i]) = Place(q[j]) PROVE i = j
    <3>1. PICK to \in Places : q[j] = JobFor(to)
      BY <1>6
    <3>2. at = to
      BY <2>1, <2>2, <3>1, JobForPlace
    <3> QED
      BY <1>5, <2>1, <3>1, <3>2
  <2> QED
    BY <2>1, <2>2, JobForPlace
<1>8. ASSUME NEW at \in DOMAIN saved
      PROVE  \E i \in DOMAIN q : Place(q[i]) = at /\ RestoresTo(model, saved[at], q[i])
  <2>1. at \in Places
    BY DEF KeepsExport
  <2>2. JobFor(at) \in ToSet(q)
    BY <1>3, <1>5, <2>1
  <2>3. PICK i \in DOMAIN q : q[i] = JobFor(at)
    BY <2>2 DEF ToSet
  <2>4. RestoresTo(model, saved[at], JobFor(at))
    <3>1. CASE at \in DOMAIN folder
      <4>1. PICK w : w = saved[at]
        OBVIOUS
      <4>2. folder[at] = FileOf(w) /\ ShownBy(model, w)
        BY <3>1, <4>1 DEF KeepsExport
      <4>3. FileShape(FileOf(w))
        BY <3>1, <4>2 DEF FilesOK, AreFiles
      <4>4. JobFor(at) = FileJob(at, FileOf(w), TRUE)
        BY <3>1, <4>2 DEF JobFor
      <4> QED
        BY <1>1, <2>1, <4>1, <4>2, <4>3, <4>4, FileRestores
    <3>2. CASE at \notin DOMAIN folder
      <4>1. saved[at] = EmptyView
        BY <3>2 DEF KeepsExport
      <4>2. PICK w : w = saved[at]
        OBVIOUS
      <4>3. ~w.used
        BY <4>1, <4>2 DEF EmptyView
      <4>4. PICK j : j = JobAt(at, "clear")
        OBVIOUS
      <4>5. j.sound /\ j.op = "clear"
        BY <4>4, JobAtIs DEF Made
      <4>6. JobFor(at) = j
        BY <3>2, <4>4 DEF JobFor
      <4> QED
        BY <4>2, <4>3, <4>5, <4>6 DEF RestoresTo
    <3> QED
      BY <3>1, <3>2
  <2> QED
    BY <2>1, <2>3, <2>4, JobForPlace
<1> QED
  BY <1>7, <1>8 DEF RestoresAll

\* An export keeps in the folder, or as empty, all it saves.
LEMMA ExportSaves ==
  ASSUME Sound, KeepsExport, NEW overwrite, Export(overwrite)
  PROVE  KeepsExport'
<1>1. UNCHANGED <<model, pad>>
  BY DEF Export, vars
<1>2. CASE Refused
  BY <1>1, <1>2 DEF Refused, KeepsExport
<1>3. DOMAIN NoFiles = {}
  BY DEF NoFiles
<1>4. CASE saved' = NoFiles
  BY <1>3, <1>4 DEF KeepsExport
<1>5. CASE Saves /\ saved' # NoFiles
  <2>1. PICK of : of = [at \in Places \ (DOMAIN folder \ HeldPlaces) |-> View(pad[at])]
    OBVIOUS
  <2>2. saved' = of /\ \A at \in HeldPlaces : ValidMacros(View(pad[at]).macros)
    BY <1>5, <2>1 DEF Saves
  <2>3. PICK files : files = Files(HeldPlaces)
    OBVIOUS
  <2>4. DOMAIN files = HeldPlaces /\ \A at \in HeldPlaces : files[at] = Exported(at)
    BY <2>3 DEF Files
  <2>5. folder' = [name \in DOMAIN files \cup DOMAIN folder |->
                     IF name \in DOMAIN files THEN files[name] ELSE folder[name]]
    BY <1>5, <2>3 DEF Saves, Holding
  <2>6. DOMAIN folder' = HeldPlaces \cup DOMAIN folder /\ \A at \in HeldPlaces : folder'[at] = Exported(at)
    BY <2>4, <2>5
  <2> SUFFICES ASSUME NEW at \in DOMAIN of
                PROVE  /\ at \in Places
                       /\ at \in DOMAIN folder' => folder'[at] = FileOf(of[at]) /\ ShownBy(model, of[at])
                       /\ at \notin DOMAIN folder' => of[at] = EmptyView
    BY <1>1, <2>2 DEF KeepsExport
  <2>7. at \in Places /\ (at \in DOMAIN folder => at \in HeldPlaces) /\ of[at] = View(pad[at])
    BY <2>1
  <2>8. CASE at \in HeldPlaces
    <3>1. PICK w, s : w = View(s) /\ s = pad[at]
      OBVIOUS
    <3>2. model \in Models /\ IsSlot(model, s) /\ s.used
      BY <2>8, <3>1 DEF HeldPlaces, Sound, TypeOK, IsPad
    <3>3. w.used /\ ShownOK(w) /\ w = UsedView(w.map, w.macros)
      BY <3>1, <3>2, HeldShows
    <3>4. ValidMacros(w.macros)
      BY <2>2, <2>8, <3>1
    <3>5. PICK K \in SUBSET MacroSlots(model) : w.macros \in [K -> Macro]
                                                /\ (IsPacked(model) => \E L \in Nat : K = 1..L)
      BY <3>3 DEF ShownOK
    <3>6. (\A n \in K : w.macros[n].steps # NoSteps) /\ OneEach(w.macros)
      BY <3>4, <3>5 DEF ValidMacros
    <3>7. ShownBy(model, w)
      BY <3>3, <3>5, <3>6 DEF ShownBy, ShownOK
    <3>8. Exported(at) = FileOf(w)
      BY <2>8, <3>1, ExportedShape
    <3> QED
      BY <2>6, <2>7, <2>8, <3>1, <3>7, <3>8
  <2>9. CASE at \notin HeldPlaces
    <3>1. at \notin DOMAIN folder'
      BY <2>6, <2>7, <2>9
    <3>2. PICK s : s = pad[at]
      OBVIOUS
    <3>3. ~s.used
      BY <2>7, <2>9, <3>2 DEF HeldPlaces
    <3>4. View(s) = EmptyView
      BY <3>3, ViewIs
    <3> QED
      BY <2>7, <3>1, <3>2, <3>4
  <2> QED
    BY <2>8, <2>9
<1> QED
  BY <1>2, <1>4, <1>5 DEF Export, StopsHalfway

\* A command that does not restore, or one that does.
LEMMA CommandRestores ==
  ASSUME KeepsExport, NEW after, NEW who, NEW refused \in BOOLEAN, NEW jobs, NEW pol,
         Command(after, who, refused, jobs, pol),
         ~refused /\ who = "restore" => RestoresAll(model, saved, jobs)
  PROVE  (KeepsExport /\ Restores)'
<1>1. UNCHANGED <<folder, saved>> /\ batch = <<>> /\ model' = model
  BY DEF Command, Runs, Starts, vars
<1>2. KeepsExport'
  BY <1>1 DEF KeepsExport
<1>3. CASE refused
  BY <1>1, <1>2, <1>3 DEF Command, vars, Restores
<1>4. CASE ~refused
  <2>1. batch' = jobs /\ command' = who
    BY <1>4 DEF Command, Starts
  <2> QED
    BY <1>1, <1>2, <1>4, <2>1 DEF Restores
<1> QED
  BY <1>3, <1>4

\* A command of one job keeps the folder and what was saved, and is no restore.
LEMMA OneJobRestores ==
  ASSUME KeepsExport, NEW after, NEW refused \in BOOLEAN, NEW job, NEW pol, OneJob(after, refused, job, pol)
  PROVE  (KeepsExport /\ Restores)'
<1>1. PICK jobs : jobs = <<job>>
  OBVIOUS
<1>2. PICK who : who = "other"
  OBVIOUS
<1>3. who # "restore" /\ Command(after, who, refused, jobs, pol)
  BY <1>1, <1>2 DEF OneJob
<1> QED
  BY <1>3, CommandRestores

\* An upload-all keeps what was saved, and with macros and clears its batch is a restore.
LEMMA UploadAllRestores ==
  ASSUME Sound, FilesOK, KeepsExport, NEW withMacros \in BOOLEAN, NEW clearMissing \in BOOLEAN,
         NEW pol \in Policies, UploadAll(withMacros, clearMissing, pol)
  PROVE  (KeepsExport /\ Restores)'
<1> DEFINE names   == DOMAIN folder
           missing == IF clearMissing THEN Places \ names ELSE {}
           refused == (\E n \in names : BadFile(n, withMacros)) \/ names \cup missing = {}
           who     == IF withMacros /\ clearMissing THEN "restore" ELSE "other"
           S       == JobsOfFolder(withMacros) \cup ClearsOf(missing)
<1>1. Command(Later, who, refused, SetToSeq(S), pol)
  BY DEF UploadAll, JobsOfFolder, ClearsOf
<1>2. PICK q : q = SetToSeq(S)
  OBVIOUS
<1>3. ASSUME ~refused, who = "restore" PROVE RestoresAll(model, saved, q)
  <2>1. withMacros = TRUE /\ clearMissing = TRUE
    BY <1>3
  <2>2. PICK none : none = Places \ names
    OBVIOUS
  <2>3. missing = none
    BY <2>1, <2>2
  <2>4. S = JobsOfFolder(TRUE) \cup ClearsOf(none)
    BY <2>1, <2>3
  <2>5. (\A n \in DOMAIN folder : ~BadFile(n, TRUE)) /\ DOMAIN folder \cup none # {}
    BY <1>3, <2>1, <2>3
  <2>6. PICK T : T = JobsOfFolder(TRUE) \cup ClearsOf(none)
    OBVIOUS
  <2>7. q = SetToSeq(T)
    BY <1>2, <2>4, <2>6
  <2> HIDE DEF names, missing, refused, who, S
  <2> QED
    BY <2>2, <2>5, <2>6, <2>7, FolderRestores DEF names
<1>4. refused \in BOOLEAN
  OBVIOUS
<1>5. PICK r \in BOOLEAN : r <=> refused
  OBVIOUS
<1>6. PICK u : u = who
  OBVIOUS
<1> HIDE DEF refused, S, who, missing
<1>7. r = refused
  BY <1>4, <1>5
<1>8. Command(Later, u, r, q, pol)
  BY <1>1, <1>2, <1>6, <1>7
<1>9. ~r /\ u = "restore" => RestoresAll(model, saved, q)
  BY <1>3, <1>6, <1>7
<1> QED
  BY <1>8, <1>9, CommandRestores

\* Every step keeps both.
LEMMA RestoringKept ==
  ASSUME Sound, FilesOK, KeepsExport, Restores, [CliNext]_<<vars, cvars>>
  PROVE  (KeepsExport /\ Restores)'
<1>1. CASE AppBegins
  <2>1. UNCHANGED <<folder, saved>> /\ command' = "app" /\ model' = model
    BY <1>1 DEF AppBegins, Begin, Starts
  <2> QED
    BY <2>1 DEF KeepsExport, Restores
<1>2. CASE Plans
  <2>1. UNCHANGED <<folder, saved, command, model, batch>>
    BY <1>2 DEF Plans, PlanJob, cvars
  <2> QED
    BY <2>1 DEF KeepsExport, Restores
<1>3. CASE Ends
  <2>1. UNCHANGED <<folder, saved, model>> /\ batch' = <<>>
    BY <1>3 DEF Ends, RefuseBatch, Write, Idle
  <2> QED
    BY <2>1 DEF KeepsExport, Restores
<1>4. ASSUME NEW overwrite \in BOOLEAN, Export(overwrite) PROVE (KeepsExport /\ Restores)'
  <2>1. batch' = <<>>
    BY <1>4 DEF Export, Runs, vars
  <2> QED
    BY <1>4, <2>1, ExportSaves DEF Restores
<1>5. ASSUME NEW withMacros \in BOOLEAN, NEW clearMissing \in BOOLEAN, NEW pol \in Policies,
             UploadAll(withMacros, clearMissing, pol)
      PROVE  (KeepsExport /\ Restores)'
  BY <1>5, UploadAllRestores
<1>6. ASSUME NEW after, NEW refuses, NEW job, NEW pol, OneJob(after, refuses, job, pol)
      PROVE  (KeepsExport /\ Restores)'
  <2>1. PICK refused \in BOOLEAN : refused <=> refuses
    OBVIOUS
  <2>2. OneJob(after, refused, job, pol)
    BY <1>6, <2>1 DEF OneJob, Command
  <2> QED
    BY <2>2, OneJobRestores
<1>7. ASSUME NEW name \in DOMAIN folder, NEW at \in Places, NEW withMacros \in BOOLEAN,
             NEW pol \in Policies, Upload(name, at, withMacros, pol)
      PROVE  (KeepsExport /\ Restores)'
  BY <1>6, <1>7 DEF Upload
<1>8. ASSUME NEW file \in MacroFiles, NEW at \in Places, NEW n \in 0..MacroCount[model],
             NEW convert \in BOOLEAN, NEW pol \in Policies, WriteMacro(file, at, n, convert, pol)
      PROVE  (KeepsExport /\ Restores)'
  BY <1>6, <1>8 DEF WriteMacro
<1>9. ASSUME NEW at \in Places, NEW pol \in Policies,
             \/ \E n \in MacroSlots(model) : DeleteMacroAt(at, n, pol)
             \/ DeactivateSlot(at, pol)
             \/ \E b \in Buttons, o \in Outputs : RemapButton(at, b, o, pol)
      PROVE  (KeepsExport /\ Restores)'
  BY <1>6, <1>9 DEF DeleteMacroAt, DeactivateSlot, RemapButton
<1>10. CASE UNCHANGED <<vars, cvars>>
  BY <1>10 DEF vars, cvars, KeepsExport, Restores
<1> QED
  BY <1>1, <1>2, <1>3, <1>4, <1>5, <1>7, <1>8, <1>9, <1>10 DEF CliNext

\* What shows is in macro slots.
LEMMA ShownSlots ==
  ASSUME model \in Models, NEW s, IsSlot(model, s), NEW v, v = ViewFor(model, s)
  PROVE  DOMAIN v.macros \subseteq MacroSlots(model)
<1>1. v = View(s)
  BY ViewForIs
<1>2. CASE s.used
  <2>1. ShownOK(v)
    BY <1>1, <1>2, HeldShows
  <2> QED
    BY <2>1 DEF ShownOK
<1>3. CASE ~s.used
  <2>1. v = EmptyView
    BY <1>1, <1>3, ViewIs
  <2> QED
    BY <2>1, NothingHeld DEF EmptyView
<1> QED
  BY <1>2, <1>3

\* What a restore writes shows as it was saved.
LEMMA WriteRestores ==
  ASSUME Sound, Faithful, KeepsExport, Restores, Restoring, Write, NEW at \in DOMAIN saved
  PROVE  View(pad'[at]) = saved[at]
<1>1. batch # <<>> /\ RestoresAll(model, saved, batch)
  BY DEF Write, Restoring, Restores
<1>2. PICK i \in DOMAIN batch : Place(batch[i]) = at /\ RestoresTo(model, saved[at], batch[i])
  BY <1>1 DEF RestoresAll
<1>3. i \in Doing
  BY <1>2 DEF Doing, Write, Sound, TypeOK, IsBatch
<1>4. at \in Places /\ (saved[at] = EmptyView \/ ShownBy(model, saved[at]))
  BY DEF KeepsExport
<1>5. PICK v : v = ViewFor(model, base[at])
  OBVIOUS
<1>6. ViewFor(model, banks[at]) = AskedFor(model, v, batch[i])
  BY <1>2, <1>3, <1>5 DEF Faithful, ShowsAsked
<1>7. model \in Models /\ DOMAIN v.macros \subseteq MacroSlots(model)
  <2>1. model \in Models /\ IsSlot(model, base[at])
    BY <1>4 DEF Sound, TypeOK, IsPad
  <2> QED
    BY <1>5, <2>1, ShownSlots
<1>8. AskedFor(model, v, batch[i]) = saved[at]
  BY <1>2, <1>4, <1>7, RestoreAsks
<1>9. pad'[at] = banks[at]
  BY <1>4, WriteIs
<1> QED
  BY <1>6, <1>8, <1>9, ViewForIs

\* ... and no job of it is refused, unless the policy is asked, a slot was not saved or a
\* saved macro starts with a button that presses another output.
LEMMA RestoreIsTaken ==
  ASSUME Sound, Faithful, KeepsExport, Restores, Restoring, RefuseBatch, policy = "force",
         DOMAIN saved = Places, \A at \in Places : PressesItsOwn(saved[at])
  PROVE  ~MustRefuse
<1>1. batch # <<>> /\ RestoresAll(model, saved, batch) /\ planned < Len(batch)
  BY DEF RefuseBatch, Restoring, Restores
<1>2. planned \in Nat /\ planned + 1 \in DOMAIN batch /\ Doing \subseteq DOMAIN batch /\ planned + 1 \notin Doing
  BY <1>1 DEF Sound, TypeOK, IsBatch, Doing
<1>3. PICK at : at = Place(Job)
  OBVIOUS
<1>4. at \in Places /\ \A i \in Doing : Place(batch[i]) # at
  BY <1>1, <1>2, <1>3 DEF RestoresAll, Job
<1>5. PICK i \in DOMAIN batch : Place(batch[i]) = at /\ RestoresTo(model, saved[at], batch[i])
  BY <1>1, <1>4 DEF RestoresAll
<1>6. batch[i] = Job
  BY <1>1, <1>2, <1>3, <1>5 DEF RestoresAll, Job
<1>7. PICK w : w = saved[at]
  OBVIOUS
<1>8. RestoresTo(model, w, Job)
  BY <1>5, <1>6, <1>7
<1>9. w = EmptyView \/ ShownBy(model, w)
  BY <1>4, <1>7 DEF KeepsExport
<1>10. /\ JobShape(Job) /\ Before = base[at] /\ banks[at] = Before /\ IsSlot(model, Before)
       /\ \E b : Size(b)
  BY <1>1, <1>3, <1>4, NextJob
<1>11. PICK b : Size(b)
  BY <1>10
<1>12. Job.sound /\ Job.op # "remap" /\ ~(\E k \in 1..planned : Place(batch[k]) = Place(Job))
  BY <1>3, <1>4, <1>8 DEF RestoresTo, Doing
<1>13. ASSUME Job.op = "upload" PROVE ~MacrosRefused
  <2>1. w.used /\ ShownBy(model, w)
    BY <1>8, <1>9, <1>13 DEF RestoresTo, EmptyView
  <2>2. /\ Job.map = w.map
        /\ ToSet(Job.edits) = {[at |-> n, macro |-> MacroFor(w.macros, n)] : n \in MacroSlots(model)}
        /\ \A k, l \in DOMAIN Job.edits : Job.edits[k].at = Job.edits[l].at => k = l
    BY <1>8, <2>1 DEF RestoresTo
  <2>3. Job.map # Keep
    BY <2>1, <2>2, PlanConstants DEF ShownBy
  <2>4. \A k \in DOMAIN Job.edits : Job.edits[k].at \in MacroSlots(model)
    <3> SUFFICES ASSUME NEW k \in DOMAIN Job.edits PROVE Job.edits[k].at \in MacroSlots(model)
      OBVIOUS
    <3>1. Job.edits[k] \in ToSet(Job.edits)
      BY DEF ToSet
    <3> QED
      BY <2>2, <3>1
  <2>5. ~EditsRefused
    BY <2>2, <2>3, <2>4 DEF EditsRefused
  <2>6. Uploads(b)
    BY <1>3, <1>10, <1>11, <1>12, <1>13, <2>5 DEF Uploads
  <2>7. PICK V : V = Built
    OBVIOUS
  <2>8. IsPacked(model) \/ SteppedSlot(Before)
    BY <1>4, <1>10 DEF Faithful, AreStepped, SteppedPad
  <2>9. View(V) = Promise!AsAsked(View(Before), Job)
    BY <2>6, <2>7, <2>8, JobShows
  <2>10. View(V) = w
    <3>1. PICK v : v = ViewFor(model, Before)
      OBVIOUS
    <3>2. model \in Models /\ DOMAIN v.macros \subseteq MacroSlots(model)
      BY <1>10, <1>11, <3>1, ShownSlots DEF Size
    <3>3. AskedFor(model, v, Job) = w
      BY <1>8, <1>9, <3>2, RestoreAsks
    <3> QED
      BY <2>9, <3>1, <3>3, ViewForIs, AskedForIs
  <2>11. IsSlot(model, V)
    BY <2>6, <2>7, PutsLand
  <2>12. PICK M : M = MacrosOf(model, V)
    OBVIOUS
  <2>13. w.map = MapOf(model, V) /\ w.macros = EachEncoded(M)
    <3>1. V.used
      BY <2>1, <2>10, ViewIs DEF EmptyView
    <3>2. w = UsedView(MapOf(model, V), EachEncoded(M))
      BY <2>10, <2>12, <3>1, ViewIs
    <3> QED
      BY <3>2 DEF UsedView
  <2>14. \A n \in DOMAIN M : n \in DOMAIN w.macros /\ w.macros[n].triggers = M[n].triggers
    <3>1. PICK K \in SUBSET (1..b) : M \in [K -> Macro]
      BY <1>11, <2>11, <2>12, MacrosAreTyped
    <3>2. \A m \in Macro : Encoded(m).triggers = m.triggers
      BY DEF Encoded, Macro
    <3> QED
      BY <2>13, <3>1, <3>2 DEF EachEncoded
  <2>15. DOMAIN M = DOMAIN w.macros
    BY <2>13 DEF EachEncoded
  <2>16. ASSUME NEW put \in Puts(Effective) PROVE ~PutRefused(put)
    <3>1. put \in ToSet(Job.edits) /\ put.macro # Zeroed
      BY DEF Puts, Effective
    <3>2. PICK n \in MacroSlots(model) : put = [at |-> n, macro |-> MacroFor(w.macros, n)]
      BY <2>2, <3>1
    <3>3. n \in DOMAIN w.macros /\ put.at = n /\ put.macro = w.macros[n]
      BY <3>1, <3>2 DEF MacroFor
    <3>4. \A k \in DOMAIN M \ {n} : M[k].triggers \cap put.macro.triggers = {}
      BY <2>1, <2>14, <3>3 DEF ShownBy, OneEach
    <3>5. PICK same : same = {k \in DOMAIN M : M[k].triggers = put.macro.triggers}
      OBVIOUS
    <3>6. put.at \in same
      BY <2>14, <2>15, <3>3, <3>5
    <3>7. ~StartsAnother(M, put)
      BY <3>3, <3>4, <3>5, <3>6 DEF StartsAnother
    <3>8. ~IsMapped(MapOf(model, V), put)
      BY <1>4, <1>7, <2>13, <3>3 DEF IsMapped, PressesItsOwn
    <3> QED
      BY <2>7, <2>12, <3>7, <3>8 DEF PutRefused
  <2> QED
    BY <2>2, <2>3, <2>4, <2>16 DEF MacrosRefused
<1> QED
  BY <1>3, <1>4, <1>12, <1>13 DEF MustRefuse, Asks

\* An export that ended well, of pads without macros that have a trigger and no steps, is a
\* backup: whatever ran since, restoring it brings back what each slot showed, and forced it
\* is not refused (export.rs, upload_all.rs).
THEOREM CliExportComesBack ==
  ASSUME SteppedPads
  PROVE  CliSpec => ExportComesBack
<1> DEFINE Inv == Sound /\ FilesOK /\ Faithful /\ KeepsExport /\ Restores
           Step == /\ (Restoring /\ Write) => \A at \in DOMAIN saved : View(pad'[at]) = saved[at]
                   /\ (Restoring /\ RefuseBatch /\ MustRefuse) =>
                        \/ policy # "force" \/ DOMAIN saved # Places
                        \/ \E at \in Places : ~PressesItsOwn(saved[at])
<1>1. CliInit => Inv
  <2>1. CliInit => KeepsExport /\ Restores
    BY DEF CliInit, KeepsExport, Restores, NoFiles
  <2> QED
    BY <2>1, CliInitSound, InitFaithful DEF CliInit
<1>2. Inv /\ [CliNext]_<<vars, cvars>> => Inv'
  BY CliSteps, PlanStepKeeps, RestoringKept
<1>3. Inv => Step
  BY WriteRestores, RestoreIsTaken
<1> QED
  BY <1>1, <1>2, <1>3, PTL DEF CliSpec, ExportComesBack

===============================================================================
