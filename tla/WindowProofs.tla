---------------------------- MODULE WindowProofs ----------------------------
(***************************************************************************)
(* What Window.tla is proved to keep, for every set of ports and values,   *)
(* every number of slots and every length of the queues.                   *)
(*                                                                         *)
(* The argument: WindowInv is the types, part by part, with what the       *)
(* handlers rely on (GoodWrite: the batch, its review and its errors fit   *)
(* each other; EditsKnown; PendingListed); WaitsInv, on top of it, ties    *)
(* the write stage to the queues.  StepKeeps carries both through every    *)
(* action.  AloneInv, for one port whose steps read, adds that one stage   *)
(* stands and one write is on its way; Matches, that the jobs of a write   *)
(* are the edits as they stand; Compared and Fresh, that a review and the  *)
(* reads on their way tell what the pad holds.  The list of slots a write  *)
(* takes is a CHOOSE over the enumerations of a set, so the first section  *)
(* proves that a finite set of numbers has one in order.                   *)
(***************************************************************************)
EXTENDS Window, FiniteSetTheorems, SequenceTheorems, WellFoundedInduction, TLAPS

-------------------------------------------------------------------------------
(***************************************************************************)
(* Every non-empty set of numbers has a least one, which is what stands    *)
(* here for an induction.                                                  *)
(***************************************************************************)
LEMMA LeastNumber ==
  ASSUME NEW T \in SUBSET Nat, T # {}
  PROVE  \E n \in T : \A m \in T : n <= m
<1>1. IsWellFoundedOn(OpToRel(<, Nat), Nat)
  BY NatLessThanWellFounded
<1>2. PICK n \in T : \A m \in T : ~(<<m, n>> \in OpToRel(<, Nat))
  BY <1>1, WFMin
<1>3. \A m \in T : ~(m < n)
  BY <1>2 DEF OpToRel
<1> QED
  BY <1>3

LEMMA GreatestNumber ==
  ASSUME NEW b \in Nat, NEW T \in SUBSET (0..b), T # {}
  PROVE  \E n \in T : \A m \in T : m <= n
<1> DEFINE D == {k \in Nat : \E m \in T : k = b - m}
<1>1. \A m \in T : b - m \in D
  OBVIOUS
<1>2. PICK d \in D : \A k \in D : d <= k
  BY <1>1, LeastNumber
<1>3. PICK n \in T : d = b - n
  BY <1>2
<1>4. \A m \in T : d <= b - m
  BY <1>1, <1>2
<1> QED
  BY <1>3, <1>4

\* An increasing sequence of the members of S.
Sorted(S, q) == /\ q \in [1..Cardinality(S) -> S]
                /\ \A i, j \in DOMAIN q : i < j => q[i] < q[j]

\* The slots of a set have an order: the greatest one goes last.
LEMMA SortedExists ==
  ASSUME NEW b \in Nat, NEW S \in SUBSET (0..b)
  PROVE  \E q : Sorted(S, q)
<1> DEFINE Bad == {k \in Nat : \E T \in SUBSET (0..b) : Cardinality(T) = k /\ ~\E q : Sorted(T, q)}
<1>0. \A T \in SUBSET (0..b) : IsFiniteSet(T) /\ Cardinality(T) \in Nat
  <2> SUFFICES ASSUME NEW T \in SUBSET (0..b)
                PROVE  IsFiniteSet(T) /\ Cardinality(T) \in Nat
    OBVIOUS
  <2>0. 0 \in Int /\ b \in Int
    OBVIOUS
  <2>1. IsFiniteSet(0..b)
    BY <2>0, FS_Interval
  <2>2. IsFiniteSet(T)
    BY <2>1, FS_Subset
  <2> QED
    BY <2>2, FS_CardinalityType
<1> SUFFICES ASSUME Bad # {} PROVE FALSE
  BY <1>0
<1>1. PICK k \in Bad : \A l \in Bad : k <= l
  BY LeastNumber
<1>2. PICK T \in SUBSET (0..b) : Cardinality(T) = k /\ ~\E q : Sorted(T, q)
  BY <1>1
<1>3. T # {}
  <2> SUFFICES ASSUME T = {} PROVE FALSE
    OBVIOUS
  <2>1. Cardinality(T) = 0
    BY FS_EmptySet
  <2>2. <<>> \in [1..0 -> T]
    OBVIOUS
  <2>3. Sorted(T, <<>>)
    BY <2>1, <2>2 DEF Sorted
  <2> QED
    BY <1>2, <2>3
<1>4. PICK g \in T : \A m \in T : m <= g
  BY <1>3, GreatestNumber
<1> DEFINE U == T \ {g}
<1>5. IsFiniteSet(T) /\ Cardinality(T) \in Nat /\ Cardinality(U) = Cardinality(T) - 1
      /\ Cardinality(U) \in Nat
  <2>1. IsFiniteSet(T)
    BY <1>0
  <2>2. Cardinality(U) = Cardinality(T) - 1
    BY <2>1, FS_RemoveElement
  <2> QED
    BY <1>0, <2>1, <2>2
<1>6. Cardinality(U) \notin Bad
  <2>1. ~(k <= Cardinality(U))
    BY <1>2, <1>5
  <2> QED
    BY <1>1, <2>1
<1>7. PICK r : Sorted(U, r)
  BY <1>5, <1>6
<1> DEFINE n == Cardinality(U)
           q == [i \in 1..n + 1 |-> IF i = n + 1 THEN g ELSE r[i]]
<1>8. n \in Nat /\ Cardinality(T) = n + 1 /\ r \in [1..n -> U]
      /\ \A i, j \in 1..n : i < j => r[i] < r[j]
  <2>1. n \in Nat /\ n = Cardinality(T) - 1 /\ Cardinality(T) \in Nat
    BY <1>5
  <2>2. r \in [1..n -> U] /\ \A i, j \in DOMAIN r : i < j => r[i] < r[j]
    BY <1>7 DEF Sorted
  <2>3. DOMAIN r = 1..n
    BY <2>2
  <2>4. Cardinality(T) = n + 1
    <3> HIDE DEF n
    <3> QED
      BY <2>1
  <2> HIDE DEF n, U
  <2>5. \A i, j \in 1..n : i < j => r[i] < r[j]
    BY <2>2, <2>3
  <2> QED
    BY <2>1, <2>2, <2>4, <2>5
<1> HIDE DEF n, U
<1>9. \A i \in 1..n : r[i] \in T /\ r[i] # g
  BY <1>8 DEF U
<1>10. q \in [1..n + 1 -> T]
  BY <1>8, <1>9
<1>11. \A i, j \in 1..n + 1 : i < j => q[i] < q[j]
  <2> SUFFICES ASSUME NEW i \in 1..n + 1, NEW j \in 1..n + 1, i < j PROVE q[i] < q[j]
    OBVIOUS
  <2>1. i \in 1..n /\ q[i] = r[i]
    BY <1>8
  <2>2. CASE j = n + 1
    <3>1. r[i] <= g /\ r[i] \in 0..b /\ g \in 0..b
      BY <1>4, <1>9, <2>1
    <3> QED
      BY <1>9, <2>1, <2>2, <3>1
  <2>3. CASE j # n + 1
    <3>1. j \in 1..n
      BY <1>8, <2>3
    <3> QED
      BY <1>8, <2>1, <2>3, <3>1
  <2> QED
    BY <2>2, <2>3
<1>12. Sorted(T, q)
  BY <1>8, <1>10, <1>11 DEF Sorted
<1> QED
  BY <1>2, <1>12

LEMMA InOrderSorts ==
  ASSUME NEW S \in SUBSET Slot
  PROVE  Sorted(S, InOrder(S)) /\ Cardinality(S) \in Nat /\ (S # {} => Cardinality(S) >= 1)
<1>0. Slots \in Nat /\ 1 \in Int /\ Slots \in Int
  BY WindowAssumption
<1>1. S \in SUBSET (0..Slots)
  BY <1>0 DEF Slot
<1>2. IsFiniteSet(S)
  <2>1. IsFiniteSet(1..Slots)
    BY <1>0, FS_Interval
  <2> QED
    BY <2>1, FS_Subset DEF Slot
<1>3. \E q : Sorted(S, q)
  BY <1>0, <1>1, SortedExists
<1>4. \E q \in [1..Cardinality(S) -> S] : \A i, j \in DOMAIN q : i < j => q[i] < q[j]
  BY <1>3 DEF Sorted
<1>5. Sorted(S, InOrder(S))
  BY <1>4, Zenon DEF Sorted, InOrder
<1>6. Cardinality(S) \in Nat
  BY <1>2, FS_CardinalityType
<1>7. S # {} => Cardinality(S) # 0
  BY <1>2, FS_EmptySet
<1> QED
  BY <1>5, <1>6, <1>7

-------------------------------------------------------------------------------
\* What a view shows is one of its controllers.
ViewTyped(v) == v.ctl \in [Port -> Controller \cup {Nothing}]

LEMMA ActiveOf ==
  ASSUME NEW v
  PROVE  active(v) \in listed(v) \/ (active(v) = Nothing /\ listed(v) = {})
BY DEF active

LEMMA ActiveIsAPort ==
  ASSUME NEW v
  PROVE  active(v) # Nothing <=> active(v) \in Port
<1>1. Nothing \notin Port
  BY WindowAssumption
<1>2. listed(v) \subseteq Port
  BY DEF listed
<1> QED
  BY <1>1, <1>2, ActiveOf

LEMMA ActiveTyped ==
  ASSUME NEW v, ViewTyped(v), active(v) # Nothing
  PROVE  active(v) \in Port /\ Of(v) \in Controller /\ Of(v) # Nothing /\ Of(v).known
<1>1. active(v) \in listed(v)
  BY ActiveOf
<1>2. active(v) \in Port /\ v.ctl[active(v)] # Nothing /\ v.ctl[active(v)].known
  BY <1>1 DEF listed
<1> QED
  BY <1>2 DEF Of, ViewTyped

LEMMA SlotsOfView ==
  ASSUME NEW v, ViewTyped(v)
  PROVE  edited_slots(v) \subseteq Slot /\ changed_slots(v) \subseteq Slot
<1>1. edited_slots(v) \subseteq Slot
  BY DEF edited_slots
<1>2. changed_slots(v) \subseteq Slot
  <2>1. CASE active(v) = Nothing
    BY <2>1 DEF changed_slots
  <2>2. CASE active(v) # Nothing
    <3>1. Of(v) \in Controller
      BY <2>2, ActiveTyped
    <3> QED
      BY <2>2, <3>1 DEF changed_slots, Controller
  <2> QED
    BY <2>1, <2>2
<1> QED
  BY <1>1, <1>2

LEMMA UploadTyped ==
  ASSUME NEW v, ViewTyped(v), active(v) # Nothing, NEW s \in Slot
  PROVE  upload_job(v, s) \in WriteJob
<1>1. Of(v) \in Controller
  BY ActiveTyped
<1>2. Of(v).edited[s] \in Held
  BY <1>1 DEF Controller, Contents
<1> QED
  BY <1>2 DEF upload_job, WriteJob

-------------------------------------------------------------------------------
\* What AppState::write is after each of its methods.
Shape(w) ==
  w.batch # Nothing =>
    IF AtStage(w, {"running", "failed"}) THEN w.batch.at \in 1..Len(w.batch.jobs)
    ELSE w.batch.jobs = <<>> /\ w.batch.at = 0

GoodWrite(w) ==
  /\ w \in WriteState /\ Shape(w)
  /\ AtStage(w, {"running"}) => w.running # Nothing

\* A batch is still the one it was, or gone.
SameBatch(w, x) == x.batch # Nothing => w.batch # Nothing /\ x.batch.port = w.batch.port

\* The parts of a state whose batch is b.
LEMMA NewBatch ==
  ASSUME NEW w \in WriteState, NEW b \in Batch \cup {Nothing}
  PROVE  LET x == [w EXCEPT !.batch = b] IN
         /\ x \in WriteState /\ x.batch = b /\ x.running = w.running
         /\ x.review = w.review /\ x.reading_for = w.reading_for
         /\ x.clearing = w.clearing /\ x.failed = w.failed
BY DEF WriteState

LEMMA NoBatch ==
  ASSUME NEW w, w \in WriteState
  PROVE  GoodWrite([w EXCEPT !.batch = Nothing]) /\ SameBatch(w, [w EXCEPT !.batch = Nothing])
<1> DEFINE x == [w EXCEPT !.batch = Nothing]
<1>1. x \in WriteState /\ x.batch = Nothing
  BY NewBatch
<1> HIDE DEF x
<1> QED
  BY <1>1 DEF GoodWrite, Shape, SameBatch, AtStage, x

LEMMA NewReview ==
  ASSUME NEW w, GoodWrite(w), NEW t \in Target \cup {Nothing}
  PROVE  LET x == [w EXCEPT !.review = t]
             y == [w EXCEPT !.clearing = t]
             z == [w EXCEPT !.reading_for = t] IN
         /\ GoodWrite(x) /\ x.batch = w.batch /\ x.running = w.running
         /\ GoodWrite(y) /\ y.batch = w.batch /\ y.running = w.running
         /\ GoodWrite(z) /\ z.batch = w.batch /\ z.running = w.running
<1> DEFINE x == [w EXCEPT !.review = t]
           y == [w EXCEPT !.clearing = t]
           z == [w EXCEPT !.reading_for = t]
<1>0. w \in WriteState
  BY DEF GoodWrite
<1>1. x \in WriteState /\ x.batch = w.batch /\ x.running = w.running
  BY <1>0 DEF WriteState
<1>2. y \in WriteState /\ y.batch = w.batch /\ y.running = w.running
  BY <1>0 DEF WriteState
<1>3. z \in WriteState /\ z.batch = w.batch /\ z.running = w.running
  BY <1>0 DEF WriteState
<1> HIDE DEF x, y, z
<1>4. GoodWrite(x) /\ GoodWrite(y) /\ GoodWrite(z)
  BY <1>1, <1>2, <1>3 DEF GoodWrite, Shape, AtStage
<1> QED
  BY <1>1, <1>2, <1>3, <1>4 DEF x, y, z

LEMMA Starts ==
  ASSUME NEW w, w \in WriteState, Shape(w), NEW p \in Port, NEW jobs \in Seq(WriteJob)
  PROVE  /\ GoodWrite(start(w, p, jobs))
         /\ start(w, p, jobs).running # Nothing
         /\ start(w, p, jobs).batch = w.batch
         /\ WriteOf(start(w, p, jobs)) \in Command
         /\ WriteOf(start(w, p, jobs)).op = "write"
<1> DEFINE r == [port |-> p, jobs |-> jobs]
           x == start(w, p, jobs)
<1>1. r \in [port: Port, jobs: Seq(WriteJob)] /\ r.port = p /\ r.jobs = jobs
  OBVIOUS
<1>2. r # Nothing
  BY <1>1, NothingIsNoRecord
<1>3. x = [w EXCEPT !.running = r]
  BY DEF start
<1> HIDE DEF r, x
<1>4. x \in WriteState /\ x.running = r /\ x.batch = w.batch
  BY <1>1, <1>3 DEF WriteState
<1>5. GoodWrite(x)
  BY <1>2, <1>4 DEF GoodWrite, Shape, AtStage
<1>6. WriteOf(x) = [op |-> "write", port |-> p, jobs |-> jobs]
  BY <1>1, <1>4 DEF WriteOf
<1>7. WriteOf(x) \in Command /\ WriteOf(x).op = "write"
  BY <1>6 DEF Command
<1> QED
  BY <1>2, <1>4, <1>5, <1>7 DEF x

LEMMA SettlesReview ==
  ASSUME NEW v, NEW w, GoodWrite(w)
  PROVE  LET x == settle_review(v, w) IN
         GoodWrite(x) /\ x.batch = w.batch /\ x.running = w.running
BY NewReview DEF settle_review

LEMMA SettlesBatch ==
  ASSUME NEW v, NEW w, GoodWrite(w)
  PROVE  LET x == settle_batch(v, w) IN
         GoodWrite(x) /\ SameBatch(w, x) /\ x.running = w.running
<1>0. w \in WriteState
  BY DEF GoodWrite
<1>1. [w EXCEPT !.batch = Nothing].running = w.running
  BY <1>0, NewBatch
<1>2. SameBatch(w, w)
  BY DEF SameBatch
<1> QED
  BY <1>0, <1>1, <1>2, NoBatch DEF settle_batch

LEMMA ReadsBatch ==
  ASSUME NEW v, NEW w, GoodWrite(w), NEW p, NEW ok \in BOOLEAN
  PROVE  LET x == batch_read(v, w, p, ok) IN
         GoodWrite(x) /\ SameBatch(w, x) /\ x.running = w.running
<1>0. w \in WriteState /\ SameBatch(w, w)
  BY DEF GoodWrite, SameBatch
<1>1. CASE ~(AtStage(w, {"reading"}) /\ w.batch.port = p)
  BY <1>0, <1>1 DEF batch_read
<1>2. CASE AtStage(w, {"reading"}) /\ w.batch.port = p /\ ~ok
  <2>1. [w EXCEPT !.batch = Nothing].running = w.running
    BY <1>0, NewBatch
  <2> QED
    BY <1>0, <1>2, <2>1, NoBatch DEF batch_read
<1>3. CASE AtStage(w, {"reading"}) /\ w.batch.port = p /\ ok
  <2> DEFINE b == [w.batch EXCEPT !.stage = "review"]
             x == [w EXCEPT !.batch.stage = "review"]
  <2>1. w.batch \in Batch /\ w.batch.stage = "reading"
    BY <1>0, <1>3 DEF AtStage, WriteState
  <2>2. b \in Batch /\ b.stage = "review" /\ b.port = w.batch.port
        /\ b.jobs = w.batch.jobs /\ b.at = w.batch.at
    BY <2>1 DEF Batch, Stage
  <2>3. x = [w EXCEPT !.batch = b]
    BY <1>0 DEF WriteState
  <2>4. b # Nothing
    BY <2>2, NothingIsNoRecord
  <2>5. w.batch.jobs = <<>> /\ w.batch.at = 0
    BY <1>3, <2>1 DEF GoodWrite, Shape, AtStage
  <2> HIDE DEF b, x
  <2>6. x \in WriteState /\ x.batch = b /\ x.running = w.running
    BY <1>0, <2>2, <2>3, NewBatch
  <2>7. GoodWrite(x) /\ SameBatch(w, x)
    BY <1>3, <2>1, <2>2, <2>4, <2>5, <2>6 DEF GoodWrite, Shape, AtStage, SameBatch
  <2>8. batch_read(v, w, p, ok) = settle_batch(v, x)
    BY <1>3 DEF batch_read, x
  <2> QED
    BY <2>6, <2>7, <2>8, SettlesBatch DEF SameBatch
<1> QED
  BY <1>1, <1>2, <1>3

LEMMA ReadsReview ==
  ASSUME NEW v, NEW w, GoodWrite(w), NEW p, NEW ok \in BOOLEAN
  PROVE  LET x == review_read(v, w, p, ok) IN
         GoodWrite(x) /\ SameBatch(w, x) /\ x.running = w.running
<1> DEFINE b == batch_read(v, w, p, ok)
           x == review_read(v, w, p, ok)
<1>1. GoodWrite(b) /\ SameBatch(w, b) /\ b.running = w.running
  BY ReadsBatch
<1>2. x = IF ~WaitsFor(b, p) THEN b
          ELSE [b EXCEPT !.reading_for = Nothing,
                         !.review = IF ok THEN b.reading_for ELSE b.review]
  BY DEF review_read
<1> HIDE DEF b, x
<1>3. b \in WriteState
  BY <1>1 DEF GoodWrite
<1>4. (IF ok THEN b.reading_for ELSE b.review) \in Target \cup {Nothing}
  BY <1>3 DEF WriteState
<1>5. x \in WriteState /\ x.batch = b.batch /\ x.running = b.running
  BY <1>2, <1>3, <1>4 DEF WriteState
<1>6. GoodWrite(x) /\ SameBatch(w, x)
  BY <1>1, <1>5 DEF GoodWrite, Shape, AtStage, SameBatch
<1> QED
  BY <1>1, <1>5, <1>6 DEF x

LEMMA ConfirmsReview ==
  ASSUME NEW v, NEW w, ViewTyped(v), GoodWrite(w), review_open(v, w)
  PROVE  LET x == confirm_review(v, w) IN
         /\ GoodWrite(x) /\ SameBatch(w, x) /\ SameBatch(x, w) /\ x.running # Nothing
         /\ WriteOf(x) \in Command /\ WriteOf(x).op = "write"
<1> DEFINE y == [w EXCEPT !.review = Nothing]
           p == w.review.port
           jobs == <<upload_job(v, w.review.slot)>>
           x == start(y, p, jobs)
<1>1. GoodWrite(y) /\ y.batch = w.batch
  BY NewReview
<1>2. p = active(v) /\ w.review \in Target /\ w.review.slot \in Slot /\ p \in Port
  BY DEF review_open, GoodWrite, WriteState, Target
<1>3. jobs \in Seq(WriteJob)
  <2>1. active(v) # Nothing
    BY <1>2, ActiveIsAPort
  <2>2. upload_job(v, w.review.slot) \in WriteJob
    BY <1>2, <2>1, UploadTyped
  <2> QED
    BY <2>2
<1>4. confirm_review(v, w) = x
  BY DEF confirm_review
<1> HIDE DEF y, p, jobs
<1>5. /\ GoodWrite(x) /\ x.running # Nothing /\ x.batch = y.batch
      /\ WriteOf(x) \in Command /\ WriteOf(x).op = "write"
  <2>1. y \in WriteState /\ Shape(y)
    BY <1>1 DEF GoodWrite
  <2> QED
    BY <1>2, <1>3, <2>1, Starts
<1> HIDE DEF x
<1> QED
  BY <1>1, <1>4, <1>5 DEF SameBatch

LEMMA UploadsTyped ==
  ASSUME NEW v, ViewTyped(v), active(v) # Nothing, edited_slots(v) # {}
  PROVE  LET slots == InOrder(edited_slots(v))
             jobs == [i \in DOMAIN slots |-> upload_job(v, slots[i])] IN
         jobs \in Seq(WriteJob) /\ Len(jobs) >= 1
<1> DEFINE S == edited_slots(v)
           slots == InOrder(S)
           n == Cardinality(S)
           jobs == [i \in DOMAIN slots |-> upload_job(v, slots[i])]
<1>1. S \in SUBSET Slot
  BY SlotsOfView
<1>2. Sorted(S, slots) /\ n \in Nat /\ n >= 1
  BY <1>1, InOrderSorts
<1>3. slots \in [1..n -> S]
  BY <1>2 DEF Sorted
<1> HIDE DEF S, n, slots
<1>4. \A i \in 1..n : upload_job(v, slots[i]) \in WriteJob
  BY <1>1, <1>3, UploadTyped
<1>5. jobs = [i \in 1..n |-> upload_job(v, slots[i])]
  BY <1>3
<1>6. jobs \in Seq(WriteJob) /\ Len(jobs) = n
  BY <1>2, <1>4, <1>5
<1> QED
  BY <1>2, <1>6 DEF S, slots

LEMMA ConfirmsBatch ==
  ASSUME NEW v, NEW w, ViewTyped(v), GoodWrite(w), batch_review_open(v, w)
  PROVE  LET x == confirm_batch(v, w) IN
         /\ GoodWrite(x) /\ SameBatch(w, x) /\ SameBatch(x, w) /\ x.running # Nothing
         /\ WriteOf(x) \in Command /\ WriteOf(x).op = "write"
<1> DEFINE slots == InOrder(edited_slots(v))
           jobs == [i \in DOMAIN slots |-> upload_job(v, slots[i])]
           b == [w.batch EXCEPT !.stage = "running", !.jobs = jobs, !.at = 1]
           y == [w EXCEPT !.batch.stage = "running", !.batch.jobs = jobs, !.batch.at = 1]
           p == w.batch.port
<1>0. w \in WriteState
  BY DEF GoodWrite
<1>1. w.batch \in Batch /\ p = active(v) /\ p \in Port /\ w.batch # Nothing
      /\ edited_slots(v) # {}
  BY <1>0 DEF batch_review_open, AtStage, WriteState, Batch
<1>2. active(v) # Nothing
  BY <1>1, ActiveIsAPort
<1>3. jobs \in Seq(WriteJob) /\ Len(jobs) >= 1
  BY <1>1, <1>2, UploadsTyped
<1>4. confirm_batch(v, w) = start(y, p, jobs)
  BY DEF confirm_batch
<1> HIDE DEF jobs
<1>5. b \in Batch /\ b.port = p /\ b.jobs = jobs /\ b.at = 1
  BY <1>1, <1>3 DEF Batch, Stage
<1>6. y = [w EXCEPT !.batch = b]
  BY <1>0, <1>1 DEF WriteState, Batch
<1>7. b # Nothing
  BY <1>5, NothingIsNoRecord
<1> HIDE DEF b, y, p
<1>8. y \in WriteState /\ y.batch = b
  BY <1>0, <1>5, <1>6, NewBatch
<1>9. Shape(y)
  <2>1. b.at \in 1..Len(b.jobs)
    BY <1>3, <1>5
  <2>2. b.stage = "running"
    BY <1>1 DEF b, Batch
  <2>3. AtStage(y, {"running", "failed"})
    BY <1>7, <1>8, <2>2 DEF AtStage
  <2> QED
    BY <1>8, <2>1, <2>3 DEF Shape
<1>10. /\ GoodWrite(start(y, p, jobs)) /\ start(y, p, jobs).running # Nothing
       /\ start(y, p, jobs).batch = b
       /\ WriteOf(start(y, p, jobs)) \in Command
       /\ WriteOf(start(y, p, jobs)).op = "write"
  BY <1>1, <1>3, <1>8, <1>9, Starts
<1> QED
  BY <1>1, <1>4, <1>5, <1>7, <1>10 DEF SameBatch, p

\* A review that is skipped sends its write, and nothing else starts one.
LEMMA Skips ==
  ASSUME NEW v, NEW w, ViewTyped(v), GoodWrite(w)
  PROVE  LET x == skip_empty_review(v, w) IN
         /\ GoodWrite(x) /\ SameBatch(w, x)
         /\ \/ x = w /\ SkippedWrite(v, w) = <<>>
            \/ /\ x.running # Nothing
               /\ \E c \in Command : c.op = "write" /\ SkippedWrite(v, w) = <<c>>
<1>1. CASE SkipsReview(v, w)
  <2>1. review_open(v, w)
    BY <1>1 DEF SkipsReview
  <2>2. skip_empty_review(v, w) = confirm_review(v, w)
    BY <1>1 DEF skip_empty_review
  <2>3. SkippedWrite(v, w) = <<WriteOf(confirm_review(v, w))>>
    BY <1>1, <2>2 DEF SkippedWrite
  <2> QED
    BY <2>1, <2>2, <2>3, ConfirmsReview
<1>2. CASE ~SkipsReview(v, w) /\ SkipsBatch(v, w)
  <2>1. batch_review_open(v, w)
    BY <1>2 DEF SkipsBatch
  <2>2. skip_empty_review(v, w) = confirm_batch(v, w)
    BY <1>2 DEF skip_empty_review
  <2>3. SkippedWrite(v, w) = <<WriteOf(confirm_batch(v, w))>>
    BY <1>2, <2>2 DEF SkippedWrite
  <2> QED
    BY <2>1, <2>2, <2>3, ConfirmsBatch
<1>3. CASE ~SkipsReview(v, w) /\ ~SkipsBatch(v, w)
  BY <1>3 DEF skip_empty_review, SkippedWrite, SameBatch
<1> QED
  BY <1>1, <1>2, <1>3

LEMMA FirstFailureIs ==
  ASSUME NEW jobs \in Seq(WriteJob), NEW results \in Seq([slot: Slot, success: BOOLEAN])
  PROVE  LET i == FirstFailure(jobs, results) IN
         /\ i \in 1..Len(jobs) + 1
         /\ i <= Len(jobs) /\ i <= Len(results) => ~results[i].success
         /\ \A j \in 1..i - 1 : j <= Len(results) /\ results[j].success
<1> DEFINE n == Len(jobs)
           m == Len(results)
           D == {k \in Nat : k \in 1..n + 1 /\ (k = n + 1 \/ k > m \/ ~results[k].success)}
<1>1. n \in Nat /\ m \in Nat
  OBVIOUS
<1> HIDE DEF n, m
<1>2. n + 1 \in D
  BY <1>1
<1>3. PICK i \in D : \A k \in D : i <= k
  BY <1>2, LeastNumber
<1>4. i \in 1..n + 1 /\ (i <= n /\ i <= m => ~results[i].success)
  BY <1>1, <1>3
<1>5. \A j \in 1..i - 1 : j <= m /\ results[j].success
  <2> SUFFICES ASSUME NEW j \in 1..i - 1 PROVE j <= m /\ results[j].success
    OBVIOUS
  <2>1. j \in Nat /\ j \in 1..n + 1 /\ j < i
    BY <1>1, <1>4
  <2>2. j \notin D
    BY <1>3, <2>1
  <2> QED
    BY <1>1, <2>1, <2>2
<1>6. \E k \in 1..Len(jobs) + 1 :
        /\ k <= Len(jobs) /\ k <= Len(results) => ~results[k].success
        /\ \A j \in 1..k - 1 : j <= Len(results) /\ results[j].success
  BY <1>4, <1>5 DEF n, m
<1> HIDE DEF D
<1> QED
  BY <1>6, Zenon DEF FirstFailure

\* A write that came back runs no more, nor does its batch.
LEMMA Finishes ==
  ASSUME NEW w, GoodWrite(w), NEW p \in Port,
         NEW results \in Seq([slot: Slot, success: BOOLEAN])
  PROVE  LET x == batch_after_write(write_finished(w, p, results)) IN
         GoodWrite(x) /\ SameBatch(w, x) /\ x.running = Nothing
<1> DEFINE y == write_finished(w, p, results)
           x == batch_after_write(y)
<1>0. w \in WriteState
  BY DEF GoodWrite
<1>1. y \in WriteState /\ y.batch = w.batch /\ y.running = Nothing
  <2>1. CASE w.running = Nothing
    BY <1>0, <2>1 DEF write_finished
  <2>2. CASE w.running # Nothing
    <3> DEFINE jobs == w.running.jobs
               i == FirstFailure(jobs, results)
               f == IF i <= Len(jobs) /\ i <= Len(results)
                    THEN [port |-> p, job |-> jobs[i]] ELSE w.failed
    <3>1. jobs \in Seq(WriteJob)
      BY <1>0, <2>2 DEF WriteState
    <3>2. i \in 1..Len(jobs) + 1
      BY <3>1, FirstFailureIs
    <3>3. y = [w EXCEPT !.running = Nothing, !.failed = f]
      BY <1>0, <2>2 DEF write_finished, WriteState
    <3>4. f \in [port: Port, job: WriteJob] \cup {Nothing}
      <4> HIDE DEF i, jobs
      <4>1. CASE i <= Len(jobs) /\ i <= Len(results)
        <5>1. jobs[i] \in WriteJob
          BY <3>1, <3>2, <4>1
        <5> QED
          BY <4>1, <5>1
      <4>2. CASE ~(i <= Len(jobs) /\ i <= Len(results))
        BY <1>0, <4>2 DEF WriteState
      <4> QED
        BY <4>1, <4>2
    <3> HIDE DEF f, jobs, i, y
    <3> QED
      BY <1>0, <3>3, <3>4 DEF WriteState
  <2> QED
    BY <2>1, <2>2
<1>2. Shape(y) /\ SameBatch(w, y)
  BY <1>1 DEF GoodWrite, Shape, AtStage, SameBatch
<1> HIDE DEF y, x
<1> SUFFICES GoodWrite(x) /\ SameBatch(w, x) /\ x.running = Nothing
  BY DEF x, y
<1>3. CASE ~AtStage(y, {"running"})
  <2>1. x = y
    BY <1>3 DEF batch_after_write, x
  <2> QED
    BY <1>1, <1>2, <1>3, <2>1 DEF GoodWrite
<1>4. CASE AtStage(y, {"running"}) /\ y.failed = Nothing
  <2>1. x = [y EXCEPT !.batch = Nothing]
    BY <1>4 DEF batch_after_write, x
  <2>2. GoodWrite(x) /\ SameBatch(y, x)
    BY <1>1, <2>1, NoBatch
  <2>3. x.batch = Nothing /\ x.running = y.running
    BY <1>1, <2>1, NewBatch
  <2> QED
    BY <1>1, <2>2, <2>3 DEF SameBatch
<1>5. CASE AtStage(y, {"running"}) /\ y.failed # Nothing
  <2> DEFINE rest == {i \in y.batch.at..Len(y.batch.jobs) :
                        y.batch.jobs[i].slot = y.failed.job.slot}
             at == IF rest = {} THEN y.batch.at ELSE CHOOSE i \in rest : \A j \in rest : i <= j
             b == [y.batch EXCEPT !.stage = "failed", !.at = at]
             z == [y EXCEPT !.failed = Nothing]
  <2>1. y.batch # Nothing /\ y.batch \in Batch /\ y.batch.at \in 1..Len(y.batch.jobs)
    BY <1>1, <1>2, <1>5 DEF AtStage, Shape, WriteState
  <2>2. at \in 1..Len(y.batch.jobs)
    <3> DEFINE n == Len(y.batch.jobs)
    <3>1. n \in Nat
      BY <2>1 DEF Batch
    <3>2. rest \subseteq 1..n
      BY <2>1, <3>1
    <3> HIDE DEF rest, n
    <3>3. rest # {} => \E i \in rest : \A j \in rest : i <= j
      <4>1. rest \in SUBSET Nat
        BY <3>1, <3>2
      <4> QED
        BY <4>1, LeastNumber
    <3>4. rest # {} => at \in rest
      BY <3>3
    <3> QED
      BY <2>1, <3>2, <3>4 DEF n
  <2>3. x = [y EXCEPT !.failed = Nothing, !.batch.stage = "failed", !.batch.at = at]
    BY <1>5, Zenon DEF batch_after_write, x
  <2> HIDE DEF at, rest
  <2>10. at \in Nat
    <3>1. Len(y.batch.jobs) \in Nat
      BY <2>1 DEF Batch
    <3> QED
      BY <2>2, <3>1
  <2>4. b \in Batch /\ b.stage = "failed" /\ b.at = at /\ b.jobs = y.batch.jobs
        /\ b.port = y.batch.port
    BY <2>1, <2>10 DEF Batch, Stage
  <2>5. x = [z EXCEPT !.batch = b]
    BY <1>1, <2>1, <2>3 DEF WriteState, Batch
  <2>6. z \in WriteState /\ z.running = y.running
    BY <1>1 DEF WriteState
  <2>7. b # Nothing
    BY <2>4, NothingIsNoRecord
  <2> HIDE DEF b, z
  <2>8. x \in WriteState /\ x.batch = b /\ x.running = z.running
    BY <2>4, <2>5, <2>6, NewBatch
  <2>9. GoodWrite(x)
    BY <2>2, <2>4, <2>7, <2>8 DEF GoodWrite, Shape, AtStage
  <2> QED
    BY <1>1, <2>1, <2>4, <2>6, <2>8, <2>9 DEF SameBatch
<1> QED
  BY <1>3, <1>4, <1>5

LEMMA Retries ==
  ASSUME NEW w, GoodWrite(w), AtStage(w, {"failed"})
  PROVE  LET x == retry_batch(w) IN
         /\ GoodWrite(x) /\ SameBatch(w, x) /\ SameBatch(x, w) /\ x.running # Nothing
         /\ WriteOf(x) \in Command /\ WriteOf(x).op = "write"
<1> DEFINE b == [w.batch EXCEPT !.stage = "running"]
           y == [w EXCEPT !.batch.stage = "running"]
           p == w.batch.port
           jobs == SubSeq(w.batch.jobs, w.batch.at, Len(w.batch.jobs))
<1>0. w \in WriteState
  BY DEF GoodWrite
<1>1. w.batch \in Batch /\ p \in Port /\ w.batch # Nothing
      /\ w.batch.at \in 1..Len(w.batch.jobs)
  BY <1>0 DEF AtStage, WriteState, Batch, GoodWrite, Shape
<1>2. jobs \in Seq(WriteJob)
  <2>1. w.batch.jobs \in Seq(WriteJob)
    BY <1>1 DEF Batch
  <2> QED
    BY <1>1, <2>1, SubSeqProperties
<1>3. retry_batch(w) = start(y, p, jobs)
  BY DEF retry_batch
<1> HIDE DEF jobs
<1>5. b \in Batch /\ b.port = p /\ b.jobs = w.batch.jobs /\ b.at = w.batch.at
      /\ b.stage = "running"
  BY <1>1 DEF Batch, Stage
<1>6. y = [w EXCEPT !.batch = b]
  BY <1>0, <1>1 DEF WriteState, Batch
<1>7. b # Nothing
  BY <1>5, NothingIsNoRecord
<1> HIDE DEF b, y, p
<1>8. y \in WriteState /\ y.batch = b
  BY <1>0, <1>5, <1>6, NewBatch
<1>9. Shape(y)
  BY <1>1, <1>5, <1>7, <1>8 DEF Shape, AtStage
<1>10. /\ GoodWrite(start(y, p, jobs)) /\ start(y, p, jobs).running # Nothing
       /\ start(y, p, jobs).batch = b
       /\ WriteOf(start(y, p, jobs)) \in Command
       /\ WriteOf(start(y, p, jobs)).op = "write"
  BY <1>1, <1>2, <1>8, <1>9, Starts
<1> QED
  BY <1>1, <1>3, <1>5, <1>7, <1>10 DEF SameBatch, p

LEMMA DropsWaiting ==
  ASSUME NEW w, GoodWrite(w)
  PROVE  LET x == drop_waiting_batch(w) IN
         GoodWrite(x) /\ SameBatch(w, x) /\ x.running = w.running
<1>0. w \in WriteState /\ SameBatch(w, w)
  BY DEF GoodWrite, SameBatch
<1>1. [w EXCEPT !.batch = Nothing].running = w.running
  BY <1>0, NewBatch
<1> QED
  BY <1>0, <1>1, NoBatch DEF drop_waiting_batch

\* A batch begins where none stands.
LEMMA BeginsBatch ==
  ASSUME NEW w, GoodWrite(w), NEW p \in Port
  PROVE  LET x == [w EXCEPT !.batch =
                     [port |-> p, stage |-> "reading", jobs |-> <<>>, at |-> 0]] IN
         /\ GoodWrite(x) /\ x.running = w.running
         /\ x.batch # Nothing /\ x.batch.port = p
<1> DEFINE b == [port |-> p, stage |-> "reading", jobs |-> <<>>, at |-> 0]
           x == [w EXCEPT !.batch = b]
<1>0. w \in WriteState
  BY DEF GoodWrite
<1>1. b \in Batch /\ b.port = p /\ b.stage = "reading" /\ b.jobs = <<>> /\ b.at = 0
  BY DEF Batch, Stage
<1>2. b # Nothing
  BY <1>1, NothingIsNoRecord
<1> HIDE DEF b
<1>3. x \in WriteState /\ x.batch = b /\ x.running = w.running
  BY <1>0, <1>1, NewBatch
<1> HIDE DEF x
<1>4. GoodWrite(x)
  BY <1>1, <1>2, <1>3 DEF GoodWrite, Shape, AtStage
<1> QED
  BY <1>1, <1>2, <1>3, <1>4 DEF x, b

-------------------------------------------------------------------------------
CtlTyped == ctl \in [Port -> Controller \cup {Nothing}]
ShownTyped == /\ active_port \in Port \cup {Nothing} /\ selected \in Slot
              /\ pending_move \in Port \cup {Nothing}
ViewInv == CtlTyped /\ ShownTyped /\ EditsKnown /\ PendingListed

LEMMA SlotsAre == 1 \in Slot
BY WindowAssumption DEF Slot

LEMMA NowTyped ==
  CtlTyped => ViewTyped(Now)
BY DEF CtlTyped, ViewTyped, Now

LEMMA ThenTyped ==
  CtlTyped' => ViewTyped(Then)
BY DEF CtlTyped, ViewTyped, Then

LEMMA ActivePart ==
  ASSUME ViewInv, active(Now) # Nothing
  PROVE  /\ active(Now) \in Port /\ ctl[active(Now)] \in Controller
         /\ ctl[active(Now)] # Nothing /\ ctl[active(Now)].known
         /\ Of(Now) = ctl[active(Now)]
<1>1. active(Now) \in listed(Now)
  BY ActiveOf
<1>2. active(Now) \in Port /\ ctl[active(Now)] # Nothing /\ ctl[active(Now)].known
  BY <1>1 DEF listed, Now
<1>3. Of(Now) = ctl[active(Now)]
  BY DEF Of, Now
<1> QED
  BY <1>2, <1>3 DEF ViewInv, CtlTyped

LEMMA ListedIs ==
  /\ listed(Now) = {p \in Port : ctl[p] # Nothing /\ ctl[p].known}
  /\ listed(Then) = {p \in Port : ctl'[p] # Nothing /\ ctl'[p].known}
BY DEF listed, Now, Then

LEMMA ThenIsNow ==
  listed(Then) = listed(Now)' /\ edited_slots(Then) = edited_slots(Now)'
BY DEF Then, Now

\* A controller that changes but stays as known as it was.
LEMMA OneEdits ==
  ASSUME ViewInv, NEW p \in Port, ctl[p] # Nothing, NEW c \in Controller,
         c.known = ctl[p].known, ~c.known => \A s \in Slot : c.edited[s] = Nothing,
         ctl' = [ctl EXCEPT ![p] = c], UNCHANGED <<active_port, pending_move>>,
         selected' \in Slot
  PROVE  ViewInv' /\ listed(Then) = listed(Now)
<1>1. c # Nothing
  BY NothingIsNoRecord
<1>2. ctl'[p] = c /\ \A q \in Port : q # p => ctl'[q] = ctl[q]
  BY DEF ViewInv, CtlTyped
<1>3. listed(Then) = listed(Now)
  BY <1>1, <1>2, ListedIs
<1>4. CtlTyped'
  BY DEF ViewInv, CtlTyped
<1>5. active_port' = active_port /\ pending_move' = pending_move
  OBVIOUS
<1>6. ShownTyped' /\ PendingListed'
  BY <1>3, <1>5, ThenIsNow DEF ViewInv, ShownTyped, PendingListed
<1>7. EditsKnown'
  BY <1>2 DEF ViewInv, EditsKnown
<1> QED
  BY <1>3, <1>4, <1>6, <1>7 DEF ViewInv

LEMMA OneChanges ==
  ASSUME ViewInv, NEW p \in Port, ctl[p] # Nothing, NEW c \in Controller,
         c.known = ctl[p].known, ~c.known => \A s \in Slot : c.edited[s] = Nothing,
         ctl' = [ctl EXCEPT ![p] = c], UNCHANGED shown
  PROVE  ViewInv' /\ listed(Then) = listed(Now)
<1>1. UNCHANGED <<active_port, pending_move>> /\ selected' \in Slot
  BY DEF shown, ViewInv, ShownTyped
<1> QED
  BY <1>1, OneEdits

LEMMA ViewStays ==
  ASSUME ViewInv, UNCHANGED <<ctl, active_port, pending_move>>, selected' \in Slot
  PROVE  ViewInv' /\ listed(Then) = listed(Now)
BY DEF ViewInv, CtlTyped, ShownTyped, EditsKnown, PendingListed, listed, Now, Then

LEMMA Removes ==
  ASSUME ViewInv, NEW p \in Port, remove(p)
  PROVE  ViewInv'
<1>1. ctl'[p] = Nothing /\ \A q \in Port : q # p => ctl'[q] = ctl[q]
  BY DEF ViewInv, CtlTyped, remove
<1>2. listed(Then) = listed(Now) \ {p}
  BY <1>1, ListedIs
<1>3. CtlTyped'
  BY DEF ViewInv, CtlTyped, remove
<1>4. listed(Now) \subseteq Port
  BY ListedIs
<1>5. ShownTyped'
  BY <1>4 DEF ViewInv, ShownTyped, remove
<1>7. PendingListed'
  BY <1>2, ThenIsNow DEF ViewInv, PendingListed, remove
<1>8. EditsKnown'
  BY <1>1 DEF ViewInv, EditsKnown
<1> QED
  BY <1>3, <1>5, <1>7, <1>8 DEF ViewInv

\* What the events do to a controller.
LEMMA GoneTyped ==
  ASSUME ViewInv, NEW p \in Port, ctl[p] # Nothing,
         NEW c \in Controller, c.known = ctl[p].known, c.edited = ctl[p].edited, Gone(p, c)
  PROVE  ViewInv'
<1>1. CASE has_edits(c)
  BY <1>1, OneChanges DEF Gone, ViewInv, EditsKnown
<1>2. CASE ~has_edits(c)
  BY <1>2, Removes DEF Gone
<1> QED
  BY <1>1, <1>2

LEMMA PresentKeepsView ==
  ASSUME ViewInv, NEW p \in Port, UNCHANGED shown,
         ctl' = [ctl EXCEPT ![p] =
           IF @ = Nothing THEN [NoController EXCEPT !.reading = TRUE]
           ELSE [@ EXCEPT !.there = TRUE, !.reading = TRUE, !.read_error = FALSE]]
  PROVE  ViewInv'
<1>1. CASE ctl[p] # Nothing
  <2> DEFINE c == [ctl[p] EXCEPT !.there = TRUE, !.reading = TRUE, !.read_error = FALSE]
  <2>1. ctl[p] \in Controller
    BY <1>1 DEF ViewInv, CtlTyped
  <2>2. c \in Controller /\ c.known = ctl[p].known /\ c.edited = ctl[p].edited
    BY <2>1 DEF Controller
  <2>3. ctl' = [ctl EXCEPT ![p] = c]
    BY <1>1 DEF ViewInv, CtlTyped
  <2>4. ~c.known => \A s \in Slot : c.edited[s] = Nothing
    BY <1>1, <2>2 DEF ViewInv, EditsKnown
  <2> HIDE DEF c
  <2> QED
    BY <1>1, <2>2, <2>3, <2>4, OneChanges
<1>2. CASE ctl[p] = Nothing
  <2> DEFINE c == [NoController EXCEPT !.reading = TRUE]
  <2>1. NoController \in Controller
    BY DEF NoController, Controller, Contents, Held
  <2>2. c \in Controller /\ ~c.known /\ \A s \in Slot : c.edited[s] = Nothing
    BY DEF NoController, Controller, Contents, Held
  <2>3. ctl' = [ctl EXCEPT ![p] = c]
    BY <1>2 DEF ViewInv, CtlTyped
  <2> HIDE DEF c
  <2>4. ctl'[p] = c /\ \A q \in Port : q # p => ctl'[q] = ctl[q]
    BY <2>3 DEF ViewInv, CtlTyped
  <2>5. listed(Then) = listed(Now)
    BY <1>2, <2>2, <2>4, ListedIs
  <2>6. CtlTyped'
    BY <2>2, <2>3 DEF ViewInv, CtlTyped
  <2>7. active_port' = active_port /\ selected' = selected /\ pending_move' = pending_move
    BY DEF shown
  <2>8. ShownTyped' /\ PendingListed'
    BY <2>5, <2>7, ThenIsNow DEF ViewInv, ShownTyped, PendingListed
  <2>9. EditsKnown'
    BY <2>2, <2>4 DEF ViewInv, EditsKnown
  <2> QED
    BY <2>6, <2>8, <2>9 DEF ViewInv
<1> QED
  BY <1>1, <1>2

LEMMA TakesRead ==
  ASSUME NEW c \in Controller, NEW new \in Contents
  PROVE  /\ take_read(c, new) \in Controller
         /\ take_read(c, new).pad = new
         /\ \A s \in Slot : unsaved(c, s) => take_read(c, new).edited[s] = c.edited[s]
<1> DEFINE e == [s \in Slot |-> IF new[s] # c.pad[s] /\ ~unsaved(c, s) THEN Nothing
                                ELSE c.edited[s]]
           h == c.changed \cup {s \in Slot :
                  new[s] # c.pad[s] /\ unsaved(c, s) /\ c.edited[s] # new[s]}
<1>1. take_read(c, new) = [c EXCEPT !.pad = new, !.edited = e, !.changed = h]
  BY DEF take_read, Controller
<1>2. e \in Contents /\ \A s \in Slot : unsaved(c, s) => e[s] = c.edited[s]
  BY DEF Controller, Contents, Held
<1>3. h \in SUBSET Slot
  BY DEF Controller
<1> HIDE DEF e, h
<1> QED
  BY <1>1, <1>2, <1>3 DEF Controller

LEMMA ReadKeepsView ==
  ASSUME ViewInv, NEW p \in Port, ctl[p] # Nothing, NEW new \in Contents, read_finished(p, new)
  PROVE  ViewInv'
<1> DEFINE t == take_read(ctl[p], new)
           c == [t EXCEPT !.reading = FALSE, !.read_error = FALSE, !.known = TRUE]
<1>1. ctl[p] \in Controller
  BY DEF ViewInv, CtlTyped
<1>2. t \in Controller
  BY <1>1, TakesRead
<1> HIDE DEF t
<1>3. c \in Controller /\ c.known
  BY <1>2 DEF Controller
<1>4. ctl' = [ctl EXCEPT ![p] = c]
  BY DEF read_finished, t
<1> HIDE DEF c
<1>5. c # Nothing
  BY <1>3, NothingIsNoRecord
<1>6. ctl'[p] = c /\ \A q \in Port : q # p => ctl'[q] = ctl[q]
  BY <1>4 DEF ViewInv, CtlTyped
<1>7. listed(Then) = listed(Now) \cup {p}
  BY <1>3, <1>5, <1>6, ListedIs
<1>8. CtlTyped'
  BY <1>3, <1>4 DEF ViewInv, CtlTyped
<1>9. ShownTyped'
  BY SlotsAre DEF ViewInv, ShownTyped, read_finished
<1>11. PendingListed'
  BY <1>7, ThenIsNow DEF ViewInv, PendingListed, read_finished
<1>12. EditsKnown'
  BY <1>3, <1>6 DEF ViewInv, EditsKnown
<1> QED
  BY <1>8, <1>9, <1>11, <1>12 DEF ViewInv

\* A read that failed leaves the edits.
LEMMA UnreadKeepsView ==
  ASSUME ViewInv, NEW p \in Port, ctl[p] # Nothing, NEW error \in BOOLEAN, UNCHANGED shown,
         ctl' = [ctl EXCEPT ![p].reading = FALSE, ![p].read_error = error]
  PROVE  ViewInv' /\ ctl'[p].edited = ctl[p].edited /\ ctl'[p] # Nothing
<1> DEFINE c == [ctl[p] EXCEPT !.reading = FALSE, !.read_error = error]
<1>1. ctl[p] \in Controller
  BY DEF ViewInv, CtlTyped
<1>2. c \in Controller /\ c.known = ctl[p].known /\ c.edited = ctl[p].edited
  BY <1>1 DEF Controller
<1>3. ctl' = [ctl EXCEPT ![p] = c]
  BY <1>1 DEF ViewInv, CtlTyped, Controller
<1>4. ~c.known => \A s \in Slot : c.edited[s] = Nothing
  BY <1>2 DEF ViewInv, EditsKnown
<1> HIDE DEF c
<1>5. ctl'[p] = c
  BY <1>3 DEF ViewInv, CtlTyped
<1>6. c # Nothing
  BY <1>2, NothingIsNoRecord
<1> QED
  BY <1>2, <1>3, <1>4, <1>5, <1>6, OneChanges

LEMMA WrittenTyped ==
  ASSUME NEW c \in Controller, NEW results
  PROVE  Written(c, results) \in Controller /\ Written(c, results).known = c.known
         /\ \A s \in Slot : c.edited[s] = Nothing => Written(c, results).edited[s] = Nothing
<1> DEFINE jobs == write.running.jobs
           done == 1..FirstFailure(jobs, results) - 1
           cleared == {results[i].slot : i \in {j \in done : jobs[j].value = Nothing}}
           uploaded == {results[i].slot : i \in done} \ cleared
           a == [s \in Slot |->
                   IF s \in cleared THEN Nothing
                   ELSE IF s \in uploaded /\ c.edited[s] # Nothing THEN c.edited[s] ELSE c.pad[s]]
           e == [s \in Slot |-> IF s \in cleared \cup uploaded THEN Nothing ELSE c.edited[s]]
<1>1. Written(c, results) = [c EXCEPT !.pad = a, !.edited = e]
  BY DEF Written, Controller
<1> HIDE DEF cleared, uploaded
<1>2. a \in Contents /\ e \in Contents
  BY DEF Controller, Contents, Held
<1>3. \A s \in Slot : c.edited[s] = Nothing => e[s] = Nothing
  OBVIOUS
<1> HIDE DEF a, e
<1> QED
  BY <1>1, <1>2, <1>3 DEF Controller

-------------------------------------------------------------------------------
QueuesTyped == cmds \in Seq(Command) /\ evts \in Seq(Event)
PadsTyped == /\ pad \in [Port -> Contents \cup {Nothing, Foreign}]
             /\ reported \in [Port -> {"nothing", "this", "other"}]
AsksTyped == asks \in [close: BOOLEAN, relock: BOOLEAN,
                       import: [slot: Slot, value: Value] \cup {Nothing}]
RelockTyped == relock \in [after_write: Port \cup {Nothing}, sent: Port \cup {Nothing}]
CountsTyped == /\ picking \in Slot \cup {Nothing} /\ closed \in BOOLEAN
               /\ clicks \in 0..MaxClicks /\ moves \in 0..MaxMoves

WindowInv == /\ PadsTyped /\ QueuesTyped /\ ViewInv /\ GoodWrite(write)
             /\ AsksTyped /\ RelockTyped /\ CountsTyped

HasWrite(q) == \E i \in DOMAIN q : q[i].op = "write"
HasWritten(q) == \E i \in DOMAIN q : q[i].type = "written"

WaitsInv == /\ ChainHasItsBatch
            /\ write.running # Nothing => HasWrite(cmds) \/ HasWritten(evts)

-------------------------------------------------------------------------------
\* The channels.
LEMMA SendsKeep ==
  ASSUME cmds \in Seq(Command), NEW s \in Seq(Command), Sends(s)
  PROVE  /\ cmds' \in Seq(Command)
         /\ HasWrite(cmds) \/ HasWrite(s) => HasWrite(cmds')
<1>1. cmds' \in Seq(Command)
  BY DEF Sends
<1>2. \A i \in DOMAIN cmds : i \in DOMAIN cmds' /\ cmds'[i] = cmds[i]
  BY DEF Sends
<1>3. \A i \in DOMAIN s : Len(cmds) + i \in DOMAIN cmds' /\ cmds'[Len(cmds) + i] = s[i]
  BY DEF Sends
<1>4. HasWrite(cmds) => HasWrite(cmds')
  <2> SUFFICES ASSUME NEW i \in DOMAIN cmds, cmds[i].op = "write" PROVE HasWrite(cmds')
    BY DEF HasWrite
  <2> QED
    BY <1>2, Zenon DEF HasWrite
<1>5. HasWrite(s) => HasWrite(cmds')
  <2> SUFFICES ASSUME NEW i \in DOMAIN s, s[i].op = "write" PROVE HasWrite(cmds')
    BY DEF HasWrite
  <2>1. Len(cmds) + i \in DOMAIN cmds' /\ cmds'[Len(cmds) + i].op = "write"
    BY <1>3
  <2> QED
    BY <2>1, Zenon DEF HasWrite
<1> QED
  BY <1>1, <1>4, <1>5

LEMMA TakesKeep ==
  ASSUME evts \in Seq(Event), evts # <<>>, evts' = Tail(evts)
  PROVE  /\ E \in Event /\ evts' \in Seq(Event) /\ E.port \in Port
         /\ HasWritten(evts) /\ E.type # "written" => HasWritten(evts')
         /\ Len(evts') < Len(evts)
<1>1. E \in Event /\ evts' \in Seq(Event) /\ Len(evts') < Len(evts)
  BY DEF E
<1>2. E.port \in Port
  BY <1>1 DEF Event
<1>3. ASSUME HasWritten(evts), E.type # "written" PROVE HasWritten(evts')
  <2>1. PICK i \in DOMAIN evts : evts[i].type = "written"
    BY <1>3 DEF HasWritten
  <2>2. i # 1
    BY <1>3, <2>1 DEF E
  <2>3. i - 1 \in DOMAIN evts' /\ evts'[i - 1] = evts[i]
    BY <2>1, <2>2
  <2> QED
    BY <2>1, <2>3, Zenon DEF HasWritten
<1> QED
  BY <1>1, <1>2, <1>3

LEMMA ServesKeep ==
  ASSUME cmds \in Seq(Command), cmds # <<>>, cmds' = Tail(cmds)
  PROVE  /\ C \in Command /\ cmds' \in Seq(Command) /\ C.port \in Port
         /\ HasWrite(cmds) /\ C.op # "write" => HasWrite(cmds')
<1>1. C \in Command /\ cmds' \in Seq(Command)
  BY DEF C
<1>2. C.port \in Port
  BY <1>1 DEF Command
<1>3. ASSUME HasWrite(cmds), C.op # "write" PROVE HasWrite(cmds')
  <2>1. PICK i \in DOMAIN cmds : cmds[i].op = "write"
    BY <1>3 DEF HasWrite
  <2>2. i # 1
    BY <1>3, <2>1 DEF C
  <2>3. i - 1 \in DOMAIN cmds' /\ cmds'[i - 1] = cmds[i]
    BY <2>1, <2>2
  <2> QED
    BY <2>1, <2>3, Zenon DEF HasWrite
<1> QED
  BY <1>1, <1>2, <1>3

LEMMA EmitsKeep ==
  ASSUME evts \in Seq(Event), NEW e \in Event, Emit(e)
  PROVE  /\ evts' \in Seq(Event)
         /\ HasWritten(evts) \/ e.type = "written" => HasWritten(evts')
         /\ ~(Len(evts') < Len(evts))
<1>1. evts' \in Seq(Event) /\ Len(evts') = Len(evts) + 1 /\ Len(evts) \in Nat
  BY DEF Emit
<1>2. \A i \in DOMAIN evts : i \in DOMAIN evts' /\ evts'[i] = evts[i]
  BY DEF Emit
<1>3. Len(evts') \in DOMAIN evts' /\ evts'[Len(evts')] = e
  BY DEF Emit
<1>4. HasWritten(evts) => HasWritten(evts')
  <2> SUFFICES ASSUME NEW i \in DOMAIN evts, evts[i].type = "written" PROVE HasWritten(evts')
    BY DEF HasWritten
  <2> QED
    BY <1>2, Zenon DEF HasWritten
<1>5. e.type = "written" => HasWritten(evts')
  BY <1>3 DEF HasWritten
<1> QED
  BY <1>1, <1>4, <1>5

LEMMA ReadTyped ==
  ASSUME NEW p \in Port
  PROVE  /\ <<ReadOf(p)>> \in Seq(Command)
         /\ [op |-> "relock", port |-> p] \in Command
         /\ <<[op |-> "relock", port |-> p]>> \in Seq(Command)
         /\ [op |-> "steps", port |-> p] \in Command
<1>1. ReadOf(p) \in Command
  BY DEF ReadOf, Command
<1>2. [op |-> "relock", port |-> p] \in Command /\ [op |-> "steps", port |-> p] \in Command
  BY DEF Command
<1> QED
  BY <1>1, <1>2

\* The relock that waits.
LEMMA ChainKept ==
  ASSUME ChainHasItsBatch, RelockTyped, KeepChain, SameBatch(write, write')
  PROVE  ChainHasItsBatch' /\ RelockTyped'
<1>1. relock' \in [after_write: Port \cup {Nothing}, sent: Port \cup {Nothing}]
      /\ relock'.after_write = IF write.batch # Nothing /\ write'.batch = Nothing
                               THEN Nothing ELSE relock.after_write
  BY DEF RelockTyped, KeepChain
<1> QED
  BY <1>1 DEF ChainHasItsBatch, SameBatch, RelockTyped

LEMMA ChainUnmoved ==
  ASSUME ChainHasItsBatch, RelockTyped, UNCHANGED relock,
         SameBatch(write, write'), SameBatch(write', write)
  PROVE  ChainHasItsBatch' /\ RelockTyped'
BY DEF ChainHasItsBatch, SameBatch, RelockTyped

LEMMA Settled ==
  ASSUME AsksTyped, Settle
  PROVE  AsksTyped'
BY DEF AsksTyped, Settle

\* The steps of AppState::write on an event that says a read ended.
LEMMA ReadEnds ==
  ASSUME GoodWrite(write), NEW p, NEW ok \in BOOLEAN, write' = review_read(Then, write, p, ok)
  PROVE  GoodWrite(write') /\ SameBatch(write, write') /\ write'.running = write.running
BY ReadsReview

-------------------------------------------------------------------------------
\* One lemma for each event.
LEMMA PresentKeeps ==
  ASSUME WindowInv, WaitsInv, HandlePresent, UNCHANGED <<bus, picking, closed, clicks>>
  PROVE  WindowInv' /\ WaitsInv'
<1>1. evts # <<>> /\ evts' = Tail(evts) /\ E.type = "presence"
  BY DEF HandlePresent, Takes
<1>2. /\ E.port \in Port /\ evts' \in Seq(Event) /\ (HasWritten(evts) => HasWritten(evts'))
  BY <1>1, TakesKeep DEF WindowInv, QueuesTyped
<1>3. cmds' \in Seq(Command) /\ (HasWrite(cmds) => HasWrite(cmds'))
  BY <1>2, ReadTyped, SendsKeep DEF HandlePresent, WindowInv, QueuesTyped
<1>4. ViewInv'
  BY <1>2, PresentKeepsView DEF WindowInv, HandlePresent
<1>5. AsksTyped'
  BY Settled DEF WindowInv, HandlePresent
<1>6. GoodWrite(write') /\ ChainHasItsBatch' /\ RelockTyped' /\ write' = write
  BY DEF WindowInv, WaitsInv, HandlePresent, ChainHasItsBatch, RelockTyped
<1>7. PadsTyped' /\ CountsTyped'
  BY DEF WindowInv, PadsTyped, CountsTyped, bus
<1> QED
  BY <1>2, <1>3, <1>4, <1>5, <1>6, <1>7 DEF WindowInv, WaitsInv, QueuesTyped

LEMMA GoneKeeps ==
  ASSUME WindowInv, WaitsInv, HandleGone, UNCHANGED <<bus, picking, closed, clicks>>
  PROVE  WindowInv' /\ WaitsInv'
<1>1. evts # <<>> /\ evts' = Tail(evts) /\ E.type = "presence"
  BY DEF HandleGone, Takes
<1>2. /\ E.port \in Port /\ evts' \in Seq(Event) /\ (HasWritten(evts) => HasWritten(evts'))
  BY <1>1, TakesKeep DEF WindowInv, QueuesTyped
<1>3. cmds' = cmds
  BY DEF HandleGone
<1>4. ViewInv'
  <2>1. CASE ctl[E.port] = Nothing
    <3>1. ctl' = ctl /\ active_port' = active_port /\ selected' = selected
          /\ pending_move' = pending_move
      BY <2>1 DEF HandleGone, shown
    <3> QED
      BY <3>1 DEF WindowInv, ViewInv, CtlTyped, ShownTyped, EditsKnown,
                  PendingListed, listed, Now
  <2>2. CASE ctl[E.port] # Nothing
    <3> DEFINE c == [ctl[E.port] EXCEPT !.there = FALSE, !.reading = FALSE,
                                        !.read_error = FALSE]
    <3>1. ctl[E.port] \in Controller
      BY <1>2, <2>2 DEF WindowInv, ViewInv, CtlTyped
    <3>2. c \in Controller /\ c.known = ctl[E.port].known /\ c.edited = ctl[E.port].edited
      BY <3>1 DEF Controller
    <3>3. Gone(E.port, c)
      BY <2>2 DEF HandleGone
    <3> HIDE DEF c
    <3> QED
      BY <1>2, <2>2, <3>2, <3>3, GoneTyped DEF WindowInv
  <2> QED
    BY <2>1, <2>2
<1>5. AsksTyped'
  BY Settled DEF WindowInv, HandleGone
<1>6. GoodWrite(write') /\ ChainHasItsBatch' /\ RelockTyped' /\ write' = write
  BY DEF WindowInv, WaitsInv, HandleGone, ChainHasItsBatch, RelockTyped
<1>7. PadsTyped' /\ CountsTyped'
  BY DEF WindowInv, PadsTyped, CountsTyped, bus
<1> QED
  BY <1>2, <1>3, <1>4, <1>5, <1>6, <1>7 DEF WindowInv, WaitsInv, QueuesTyped

LEMMA ReadKeeps ==
  ASSUME WindowInv, WaitsInv, HandleRead, UNCHANGED <<bus, picking, closed, clicks>>
  PROVE  WindowInv' /\ WaitsInv'
<1> DEFINE w == review_read(Then, write, E.port, TRUE)
           s == SkippedWrite(Then, w)
<1>1. evts # <<>> /\ evts' = Tail(evts) /\ E.type = "read"
  BY DEF HandleRead, Takes
<1>2. /\ E.port \in Port /\ evts' \in Seq(Event) /\ (HasWritten(evts) => HasWritten(evts'))
      /\ E \in Event
  BY <1>1, TakesKeep DEF WindowInv, QueuesTyped
<1>3. E.pad \in Contents
  BY <1>1, <1>2 DEF Event
<1>4. ViewInv'
  <2>1. CASE ctl[E.port] = Nothing
    <3>1. ctl' = ctl /\ active_port' = active_port /\ selected' = selected
          /\ pending_move' = pending_move
      BY <2>1 DEF HandleRead, shown
    <3> QED
      BY <3>1 DEF WindowInv, ViewInv, CtlTyped, ShownTyped, EditsKnown,
                  PendingListed, listed, Now
  <2>2. CASE ctl[E.port] # Nothing
    <3>1. read_finished(E.port, E.pad)
      BY <2>2 DEF HandleRead
    <3> QED
      BY <1>2, <1>3, <2>2, <3>1, ReadKeepsView DEF WindowInv
  <2> QED
    BY <2>1, <2>2
<1>5. GoodWrite(w) /\ SameBatch(write, w) /\ w.running = write.running
  BY ReadsReview DEF WindowInv
<1>6. ViewTyped(Then)
  BY <1>4, ThenTyped DEF ViewInv
<1>7. write' = skip_empty_review(Then, w)
      /\ (Sends(s) \/ Sends(<<[op |-> "steps", port |-> E.port]>> \o s))
      /\ KeepChain /\ Settle
  BY DEF HandleRead
<1> HIDE DEF w
<1>8. /\ GoodWrite(write') /\ SameBatch(w, write')
      /\ \/ write' = w /\ s = <<>>
         \/ write'.running # Nothing /\ \E c \in Command : c.op = "write" /\ s = <<c>>
  BY <1>5, <1>6, <1>7, Skips
<1> HIDE DEF s
<1>9. s \in Seq(Command) /\ (s = <<>> \/ HasWrite(s))
  <2>1. ASSUME NEW c \in Command, c.op = "write", s = <<c>>
        PROVE  s \in Seq(Command) /\ HasWrite(s)
    <3>1. s \in Seq(Command) /\ 1 \in DOMAIN s /\ s[1].op = "write"
      BY <2>1
    <3> QED
      BY <3>1, Zenon DEF HasWrite
  <2>2. CASE s = <<>>
    BY <2>2
  <2>3. CASE s # <<>>
    <3>1. \E c \in Command : c.op = "write" /\ s = <<c>>
      BY <1>8, <2>3
    <3> QED
      BY <2>1, <3>1, Zenon
  <2> QED
    BY <2>2, <2>3
<1>10. cmds' \in Seq(Command) /\ (HasWrite(cmds) \/ HasWrite(s) => HasWrite(cmds'))
  <2>1. CASE Sends(s)
    BY <1>9, <2>1, SendsKeep DEF WindowInv, QueuesTyped
  <2>2. CASE Sends(<<[op |-> "steps", port |-> E.port]>> \o s)
    <3> DEFINE c == [op |-> "steps", port |-> E.port]
               t == <<c>> \o s
    <3>1. c \in Command
      BY <1>2, ReadTyped
    <3> HIDE DEF c
    <3>2. t \in Seq(Command)
      BY <1>9, <3>1
    <3>3. HasWrite(s) => HasWrite(t)
      <4> SUFFICES ASSUME NEW i \in DOMAIN s, s[i].op = "write" PROVE HasWrite(t)
        BY DEF HasWrite
      <4>1. i + 1 \in DOMAIN t /\ t[i + 1] = s[i]
        BY <1>9
      <4> HIDE DEF t
      <4> QED
        BY <4>1, Zenon DEF HasWrite
    <3>4. Sends(t)
      BY <2>2 DEF c
    <3> HIDE DEF t
    <3> QED
      BY <3>2, <3>3, <3>4, SendsKeep DEF WindowInv, QueuesTyped
  <2> QED
    BY <1>7, <2>1, <2>2
<1>16. HasWrite(s) \/ write' = w
  <2>1. \A c : HasWrite(<<c>>) <=> c.op = "write"
    <3> TAKE c
    <3>1. DOMAIN <<c>> = {1} /\ <<c>>[1] = c
      OBVIOUS
    <3> QED
      BY <3>1, Zenon DEF HasWrite
  <2> QED
    BY <1>8, <2>1
<1>11. write'.running # Nothing => HasWrite(cmds') \/ HasWritten(evts')
  BY <1>2, <1>5, <1>10, <1>16 DEF WaitsInv
<1>12. SameBatch(write, write')
  BY <1>5, <1>8 DEF SameBatch
<1>13. ChainHasItsBatch' /\ RelockTyped'
  BY <1>7, <1>12, ChainKept DEF WindowInv, WaitsInv
<1>14. AsksTyped'
  BY <1>7, Settled DEF WindowInv
<1>15. PadsTyped' /\ CountsTyped'
  BY DEF WindowInv, PadsTyped, CountsTyped, bus
<1> QED
  BY <1>2, <1>4, <1>8, <1>10, <1>11, <1>13, <1>14, <1>15 DEF WindowInv, WaitsInv, QueuesTyped

LEMMA UnreadKeeps ==
  ASSUME WindowInv, WaitsInv, HandleUnread, UNCHANGED <<bus, picking, closed, clicks>>
  PROVE  WindowInv' /\ WaitsInv'
<1>1. evts # <<>> /\ evts' = Tail(evts) /\ E.type = "unread"
  BY DEF HandleUnread, Takes
<1>2. /\ E.port \in Port /\ evts' \in Seq(Event) /\ (HasWritten(evts) => HasWritten(evts'))
  BY <1>1, TakesKeep DEF WindowInv, QueuesTyped
<1>3. cmds' = cmds /\ UNCHANGED shown
  BY DEF HandleUnread
<1>4. ViewInv'
  <2>1. CASE ctl[E.port] = Nothing
    <3>1. ctl' = ctl /\ active_port' = active_port /\ selected' = selected
          /\ pending_move' = pending_move
      BY <2>1 DEF HandleUnread, shown
    <3> QED
      BY <3>1 DEF WindowInv, ViewInv, CtlTyped, ShownTyped, EditsKnown,
                  PendingListed, listed, Now
  <2>2. CASE ctl[E.port] # Nothing
    <3>1. ctl[E.port] \in Controller
      BY <1>2, <2>2 DEF WindowInv, ViewInv, CtlTyped
    <3>2. PICK error \in BOOLEAN :
            ctl' = [ctl EXCEPT ![E.port].reading = FALSE,
                               ![E.port].read_error = @ \/ error]
      BY <2>2 DEF HandleUnread
    <3> DEFINE e == ctl[E.port].read_error \/ error
    <3>3. e \in BOOLEAN
      OBVIOUS
    <3>4. ctl' = [ctl EXCEPT ![E.port].reading = FALSE, ![E.port].read_error = e]
      BY <1>2, <3>1, <3>2 DEF WindowInv, ViewInv, CtlTyped, Controller
    <3> HIDE DEF e
    <3> QED
      BY <1>2, <1>3, <2>2, <3>3, <3>4, UnreadKeepsView DEF WindowInv
  <2> QED
    BY <2>1, <2>2
<1>5. AsksTyped'
  BY Settled DEF WindowInv, HandleUnread
<1>6. GoodWrite(write') /\ SameBatch(write, write') /\ write'.running = write.running
  BY ReadEnds DEF WindowInv, HandleUnread
<1>7. ChainHasItsBatch' /\ RelockTyped'
  BY <1>6, ChainKept DEF WindowInv, WaitsInv, HandleUnread
<1>8. PadsTyped' /\ CountsTyped'
  BY DEF WindowInv, PadsTyped, CountsTyped, bus
<1> QED
  BY <1>2, <1>3, <1>4, <1>5, <1>6, <1>7, <1>8 DEF WindowInv, WaitsInv, QueuesTyped

LEMMA ForeignKeeps ==
  ASSUME WindowInv, WaitsInv, HandleForeign, UNCHANGED <<bus, picking, closed, clicks>>
  PROVE  WindowInv' /\ WaitsInv'
<1>1. evts # <<>> /\ evts' = Tail(evts) /\ E.type = "foreign"
  BY DEF HandleForeign, Takes
<1>2. /\ E.port \in Port /\ evts' \in Seq(Event) /\ (HasWritten(evts) => HasWritten(evts'))
  BY <1>1, TakesKeep DEF WindowInv, QueuesTyped
<1>3. cmds' = cmds
  BY DEF HandleForeign
<1>4. ViewInv'
  <2>1. CASE ctl[E.port] = Nothing
    <3>1. ctl' = ctl /\ active_port' = active_port /\ selected' = selected
          /\ pending_move' = pending_move
      BY <2>1 DEF HandleForeign, shown
    <3> QED
      BY <3>1 DEF WindowInv, ViewInv, CtlTyped, ShownTyped, EditsKnown,
                  PendingListed, listed, Now
  <2>2. CASE ctl[E.port] # Nothing
    <3> DEFINE c == [ctl[E.port] EXCEPT !.there = FALSE, !.reading = FALSE]
    <3>1. ctl[E.port] \in Controller
      BY <1>2, <2>2 DEF WindowInv, ViewInv, CtlTyped
    <3>2. c \in Controller /\ c.known = ctl[E.port].known /\ c.edited = ctl[E.port].edited
      BY <3>1 DEF Controller
    <3>3. Gone(E.port, c)
      BY <2>2 DEF HandleForeign
    <3> HIDE DEF c
    <3> QED
      BY <1>2, <2>2, <3>2, <3>3, GoneTyped DEF WindowInv
  <2> QED
    BY <2>1, <2>2
<1>5. AsksTyped'
  BY Settled DEF WindowInv, HandleForeign
<1>6. GoodWrite(write') /\ SameBatch(write, write') /\ write'.running = write.running
  BY ReadEnds DEF WindowInv, HandleForeign
<1>7. ChainHasItsBatch' /\ RelockTyped'
  BY <1>6, ChainKept DEF WindowInv, WaitsInv, HandleForeign
<1>8. PadsTyped' /\ CountsTyped'
  BY DEF WindowInv, PadsTyped, CountsTyped, bus
<1> QED
  BY <1>2, <1>3, <1>4, <1>5, <1>6, <1>7, <1>8 DEF WindowInv, WaitsInv, QueuesTyped

LEMMA SteplessKeeps ==
  ASSUME WindowInv, WaitsInv, HandleStepless, UNCHANGED <<bus, picking, closed, clicks>>
  PROVE  WindowInv' /\ WaitsInv'
<1>1. evts # <<>> /\ evts' = Tail(evts) /\ E.type = "stepless"
  BY DEF HandleStepless, Takes
<1>2. /\ E.port \in Port /\ evts' \in Seq(Event) /\ (HasWritten(evts) => HasWritten(evts'))
  BY <1>1, TakesKeep DEF WindowInv, QueuesTyped
<1>3. cmds' = cmds /\ UNCHANGED shown
  BY DEF HandleStepless
<1>4. ViewInv'
  <2>1. CASE ctl[E.port] = Nothing
    <3>1. ctl' = ctl /\ active_port' = active_port /\ selected' = selected
          /\ pending_move' = pending_move
      BY <2>1 DEF HandleStepless, shown
    <3> QED
      BY <3>1 DEF WindowInv, ViewInv, CtlTyped, ShownTyped, EditsKnown,
                  PendingListed, listed, Now
  <2>2. CASE ctl[E.port] # Nothing
    <3>1. ctl' = [ctl EXCEPT ![E.port].reading = FALSE, ![E.port].read_error = TRUE]
      BY <2>2 DEF HandleStepless
    <3> QED
      BY <1>2, <1>3, <2>2, <3>1, UnreadKeepsView DEF WindowInv
  <2> QED
    BY <2>1, <2>2
<1>5. AsksTyped'
  BY Settled DEF WindowInv, HandleStepless
<1>6. GoodWrite(write') /\ ChainHasItsBatch' /\ RelockTyped' /\ write' = write
  BY DEF WindowInv, WaitsInv, HandleStepless, ChainHasItsBatch, RelockTyped
<1>7. PadsTyped' /\ CountsTyped'
  BY DEF WindowInv, PadsTyped, CountsTyped, bus
<1> QED
  BY <1>2, <1>3, <1>4, <1>5, <1>6, <1>7 DEF WindowInv, WaitsInv, QueuesTyped

LEMMA WrittenKeeps ==
  ASSUME WindowInv, WaitsInv, HandleWritten, UNCHANGED <<bus, picking, closed, clicks>>
  PROVE  WindowInv' /\ WaitsInv'
<1> DEFINE p == E.port
           q == relock.after_write
           c == IF write.running = Nothing \/ ctl[p] = Nothing THEN ctl[p]
                ELSE Written(ctl[p], E.results)
           chained == write'.batch = Nothing /\ q # Nothing
           goes == chained /\ relock.sent = Nothing /\ q \in listed(Then) /\ ctl'[q].there
<1>1. evts # <<>> /\ evts' = Tail(evts) /\ E.type = "written"
  BY DEF HandleWritten, Takes
<1>2. p \in Port /\ evts' \in Seq(Event) /\ E \in Event
  BY <1>1, TakesKeep DEF WindowInv, QueuesTyped
<1>3. E.results \in Seq([slot: Slot, success: BOOLEAN])
  BY <1>1, <1>2 DEF Event
<1>4. /\ UNCHANGED shown /\ Settle
      /\ write' = batch_after_write(write_finished(write, p, E.results))
      /\ ctl' = [ctl EXCEPT ![p] = IF c = Nothing THEN c ELSE [c EXCEPT !.reading = TRUE]]
      /\ Sends(<<ReadOf(p)>> \o IF goes THEN <<[op |-> "relock", port |-> q]>> ELSE <<>>)
      /\ relock' = [after_write |-> IF chained THEN Nothing ELSE q,
                    sent |-> IF goes THEN q ELSE relock.sent]
  BY DEF HandleWritten
<1>5. GoodWrite(write') /\ SameBatch(write, write') /\ write'.running = Nothing
  BY <1>2, <1>3, <1>4, Finishes DEF WindowInv
<1>6. ViewInv'
  <2>1. CASE ctl[p] = Nothing
    <3>1. ctl' = ctl
      BY <1>4, <2>1 DEF WindowInv, ViewInv, CtlTyped
    <3>2. active_port' = active_port /\ selected' = selected /\ pending_move' = pending_move
      BY <1>4 DEF shown
    <3> QED
      BY <3>1, <3>2 DEF WindowInv, ViewInv, CtlTyped, ShownTyped, EditsKnown,
                  PendingListed, listed, Now
  <2>2. CASE ctl[p] # Nothing
    <3>1. ctl[p] \in Controller
      BY <1>2, <2>2 DEF WindowInv, ViewInv, CtlTyped
    <3>2. c \in Controller /\ c.known = ctl[p].known
          /\ \A s \in Slot : ctl[p].edited[s] = Nothing => c.edited[s] = Nothing
      BY <3>1, WrittenTyped
    <3>3. c # Nothing
      BY <3>2, NothingIsNoRecord
    <3> DEFINE d == [c EXCEPT !.reading = TRUE]
    <3> HIDE DEF c
    <3>4. d \in Controller /\ d.known = c.known /\ d.edited = c.edited
      BY <3>2 DEF Controller
    <3>5. ctl' = [ctl EXCEPT ![p] = d]
      BY <1>4, <3>3
    <3>6. ~d.known => \A s \in Slot : d.edited[s] = Nothing
      BY <1>2, <2>2, <3>2, <3>4 DEF WindowInv, ViewInv, EditsKnown
    <3> HIDE DEF d
    <3>7. d.known = ctl[p].known
      BY <3>2, <3>4
    <3>8. ViewInv /\ UNCHANGED shown
      BY <1>4 DEF WindowInv
    <3> HIDE DEF p
    <3> QED
      BY <1>2, <2>2, <3>4, <3>5, <3>6, <3>7, <3>8, OneChanges
  <2> QED
    BY <2>1, <2>2
<1>7. q \in Port \cup {Nothing} /\ relock.sent \in Port \cup {Nothing}
  BY DEF WindowInv, RelockTyped
<1> HIDE DEF c
<1>8. cmds' \in Seq(Command)
  <2>1. <<ReadOf(p)>> \in Seq(Command)
    BY <1>2, ReadTyped
  <2>2. goes => <<[op |-> "relock", port |-> q]>> \in Seq(Command)
    BY <1>7, ReadTyped
  <2> DEFINE t == IF goes THEN <<[op |-> "relock", port |-> q]>> ELSE <<>>
  <2>3. t \in Seq(Command)
    BY <2>2
  <2>4. Sends(<<ReadOf(p)>> \o t)
    BY <1>4
  <2> HIDE DEF t
  <2>5. <<ReadOf(p)>> \o t \in Seq(Command)
    BY <2>1, <2>3
  <2> QED
    BY <2>4, <2>5, SendsKeep DEF WindowInv, QueuesTyped
<1>9. RelockTyped'
  BY <1>4, <1>7 DEF RelockTyped
<1>10. ChainHasItsBatch'
  <2>1. relock'.after_write = IF chained THEN Nothing ELSE q
    BY <1>4
  <2> QED
    BY <1>5, <2>1 DEF WaitsInv, ChainHasItsBatch, SameBatch
<1>11. AsksTyped'
  BY <1>4, Settled DEF WindowInv
<1>12. PadsTyped' /\ CountsTyped'
  BY DEF WindowInv, PadsTyped, CountsTyped, bus
<1> QED
  BY <1>2, <1>5, <1>6, <1>8, <1>9, <1>10, <1>11, <1>12 DEF WindowInv, WaitsInv, QueuesTyped

LEMMA RelockedKeeps ==
  ASSUME WindowInv, WaitsInv, HandleRelocked \/ HandleNotRelocked,
         UNCHANGED <<bus, picking, closed, clicks>>
  PROVE  WindowInv' /\ WaitsInv'
<1>1. evts # <<>> /\ evts' = Tail(evts) /\ E.type = "relock"
  BY DEF HandleRelocked, HandleNotRelocked, Takes
<1>2. /\ E.port \in Port /\ evts' \in Seq(Event) /\ (HasWritten(evts) => HasWritten(evts'))
  BY <1>1, TakesKeep DEF WindowInv, QueuesTyped
<1>3. cmds' = cmds /\ write' = write
  BY DEF HandleRelocked, HandleNotRelocked
<1>4. ViewInv'
  <2>1. CASE (ctl' = ctl /\ UNCHANGED shown)
    <3>1. ctl' = ctl /\ active_port' = active_port /\ selected' = selected
          /\ pending_move' = pending_move
      BY <2>1 DEF shown
    <3> QED
      BY <3>1 DEF WindowInv, ViewInv, CtlTyped, ShownTyped, EditsKnown,
                  PendingListed, listed, Now
  <2>2. CASE remove(E.port)
    BY <1>2, <2>2, Removes DEF WindowInv
  <2> QED
    BY <2>1, <2>2 DEF HandleRelocked, HandleNotRelocked
<1>5. AsksTyped'
  BY DEF WindowInv, AsksTyped, HandleRelocked, HandleNotRelocked
<1>6. RelockTyped' /\ ChainHasItsBatch'
  BY <1>3 DEF WindowInv, WaitsInv, RelockTyped, ChainHasItsBatch, HandleRelocked,
              HandleNotRelocked
<1>7. PadsTyped' /\ CountsTyped'
  BY DEF WindowInv, PadsTyped, CountsTyped, bus
<1> QED
  BY <1>2, <1>3, <1>4, <1>5, <1>6, <1>7 DEF WindowInv, WaitsInv, QueuesTyped

LEMMA HandleKeeps ==
  ASSUME WindowInv, WaitsInv, Handle
  PROVE  WindowInv' /\ WaitsInv'
BY PresentKeeps, GoneKeeps, ReadKeeps, UnreadKeeps, ForeignKeeps, SteplessKeeps, WrittenKeeps,
   RelockedKeeps DEF Handle

-------------------------------------------------------------------------------
\* The worker and the pads.
LEMMA WorkerRest ==
  ASSUME WindowInv, WaitsInv,
         UNCHANGED <<ctl, shown, write, asks, relock, picking, closed, clicks>>,
         PadsTyped', QueuesTyped', moves' \in 0..MaxMoves,
         HasWrite(cmds) \/ HasWritten(evts) => HasWrite(cmds') \/ HasWritten(evts')
  PROVE  WindowInv' /\ WaitsInv'
<1>1. active_port' = active_port /\ selected' = selected /\ pending_move' = pending_move
  BY DEF shown
<1>2. ViewInv'
  BY <1>1, ViewStays DEF WindowInv, ViewInv, ShownTyped
<1>3. GoodWrite(write') /\ AsksTyped' /\ RelockTyped' /\ CountsTyped'
  BY DEF WindowInv, AsksTyped, RelockTyped, CountsTyped
<1>4. ChainHasItsBatch'
  BY DEF WaitsInv, ChainHasItsBatch
<1>5. write'.running # Nothing => HasWrite(cmds') \/ HasWritten(evts')
  BY DEF WaitsInv
<1> QED
  BY <1>2, <1>3, <1>4, <1>5 DEF WindowInv, WaitsInv

LEMMA EventTyped ==
  ASSUME NEW p \in Port
  PROVE  /\ \A b \in BOOLEAN : [type |-> "presence", port |-> p, there |-> b] \in Event
         /\ \A c \in Contents : [type |-> "read", port |-> p, pad |-> c] \in Event
         /\ \A t \in {"unread", "foreign", "stepless"} : [type |-> t, port |-> p] \in Event
         /\ \A b \in BOOLEAN : [type |-> "relock", port |-> p, ok |-> b] \in Event
         /\ \A r \in Seq([slot: Slot, success: BOOLEAN]) :
              [type |-> "written", port |-> p, results |-> r] \in Event
BY DEF Event

LEMMA SeesTyped ==
  ASSUME PadsTyped, NEW p \in Port
  PROVE  Sees(p) \in [Port -> {"nothing", "this", "other"}]
BY DEF Sees, PadsTyped

\* A command that is no write is answered.
LEMMA Served ==
  ASSUME WindowInv, cmds # <<>>, cmds' = Tail(cmds), C.op # "write",
         evts' = evts \/ \E e \in Event : Emit(e)
  PROVE  QueuesTyped' /\ (HasWrite(cmds) \/ HasWritten(evts) => HasWrite(cmds') \/ HasWritten(evts'))
<1>1. cmds' \in Seq(Command) /\ (HasWrite(cmds) => HasWrite(cmds'))
  BY ServesKeep DEF WindowInv, QueuesTyped
<1>2. evts' \in Seq(Event) /\ (HasWritten(evts) => HasWritten(evts'))
  BY EmitsKeep DEF WindowInv, QueuesTyped
<1> QED
  BY <1>1, <1>2 DEF QueuesTyped

LEMMA Disconnects ==
  ASSUME WindowInv, NEW p \in Port, Disconnected(p)
  PROVE  /\ \E e \in Event : Emit(e)
         /\ reported' \in [Port -> {"nothing", "this", "other"}]
<1>1. [type |-> "presence", port |-> p, there |-> FALSE] \in Event
  BY EventTyped
<1>2. reported' \in [Port -> {"nothing", "this", "other"}]
  BY DEF WindowInv, PadsTyped, Disconnected
<1> QED
  BY <1>1, <1>2 DEF Disconnected

LEMMA WorkerKeeps ==
  ASSUME WindowInv, WaitsInv, Worker
  PROVE  WindowInv' /\ WaitsInv'
<1>0. UNCHANGED <<ctl, shown, write, asks, relock, picking, closed, clicks>>
      /\ moves \in 0..MaxMoves /\ PadsTyped /\ cmds \in Seq(Command) /\ evts \in Seq(Event)
  BY DEF Worker, WindowInv, CountsTyped, QueuesTyped
<1>1. CASE WorkRead
  <2>1. cmds # <<>> /\ cmds' = Tail(cmds) /\ C.op = "read" /\ pad' = pad /\ moves' = moves
    BY <1>1 DEF WorkRead, Serves
  <2>2. C.port \in Port
    BY <1>0, <2>1, ServesKeep
  <2>3. (\E e \in Event : Emit(e)) /\ reported' \in [Port -> {"nothing", "this", "other"}]
    <3>1. CASE Disconnected(C.port)
      BY <2>2, <3>1, Disconnects
    <3>2. CASE ~Disconnected(C.port)
      <4>1. reported' = reported
        BY <1>1, <3>2 DEF WorkRead
      <4>2. \E e \in Event : Emit(e)
        BY <1>1, <2>2, <3>2, EventTyped DEF WorkRead
      <4> QED
        BY <1>0, <4>1, <4>2 DEF PadsTyped
    <3> QED
      BY <3>1, <3>2
  <2>4. PadsTyped'
    BY <1>0, <2>1, <2>3 DEF PadsTyped
  <2> QED
    BY <1>0, <2>1, <2>3, <2>4, Served, WorkerRest
<1>2. CASE WorkSteps
  <2>1. cmds # <<>> /\ cmds' = Tail(cmds) /\ C.op = "steps" /\ pad' = pad /\ moves' = moves
    BY <1>2 DEF WorkSteps, Serves
  <2>2. C.port \in Port
    BY <1>0, <2>1, ServesKeep
  <2>3. (evts' = evts \/ \E e \in Event : Emit(e))
        /\ reported' \in [Port -> {"nothing", "this", "other"}]
    <3>1. CASE Disconnected(C.port)
      BY <2>2, <3>1, Disconnects
    <3>2. CASE ~Disconnected(C.port)
      <4>1. reported' = reported
        BY <1>2, <3>2 DEF WorkSteps
      <4>2. evts' = evts \/ \E e \in Event : Emit(e)
        BY <1>2, <2>2, <3>2, EventTyped DEF WorkSteps
      <4> QED
        BY <1>0, <4>1, <4>2 DEF PadsTyped
    <3> QED
      BY <3>1, <3>2
  <2>4. PadsTyped'
    BY <1>0, <2>1, <2>3 DEF PadsTyped
  <2> QED
    BY <1>0, <2>1, <2>3, <2>4, Served, WorkerRest
<1>3. CASE WorkRelock
  <2>1. cmds # <<>> /\ cmds' = Tail(cmds) /\ C.op = "relock" /\ moves' = moves
    BY <1>3 DEF WorkRelock, Serves
  <2>2. C.port \in Port
    BY <1>0, <2>1, ServesKeep
  <2>3. PICK ok \in BOOLEAN :
          /\ Emit([type |-> "relock", port |-> C.port, ok |-> ok])
          /\ pad' = IF ok THEN [pad EXCEPT ![C.port] = Nothing] ELSE pad
          /\ reported' = IF ok THEN Sees(C.port) ELSE reported
    BY <1>3 DEF WorkRelock
  <2>4. PadsTyped'
    BY <1>0, <2>2, <2>3, SeesTyped DEF PadsTyped
  <2>5. \E e \in Event : Emit(e)
    BY <2>2, <2>3, EventTyped
  <2> QED
    BY <1>0, <2>1, <2>4, <2>5, Served, WorkerRest
<1>4. CASE WorkWrite
  <2>1. cmds # <<>> /\ cmds' = Tail(cmds) /\ C.op = "write" /\ moves' = moves
    BY <1>4 DEF WorkWrite, Serves
  <2>2. C \in Command /\ C.port \in Port /\ cmds' \in Seq(Command)
    BY <1>0, <2>1, ServesKeep
  <2>3. C.jobs \in Seq(WriteJob)
    BY <2>1, <2>2 DEF Command
  <2>4. PICK n \in 0..Len(C.jobs) :
          /\ Emit([type |-> "written", port |-> C.port,
                   results |-> [i \in 1..Len(C.jobs) |->
                                  [slot |-> C.jobs[i].slot, success |-> i <= n]]])
          /\ \/ pad[C.port] \notin Contents /\ UNCHANGED pad
             \/ /\ pad[C.port] \in Contents
                /\ \E m \in {n, n + 1} \cap 0..Len(C.jobs) :
                     pad' = [pad EXCEPT ![C.port] = [s \in Slot |->
                       IF \E i \in 1..m : C.jobs[i].slot = s
                       THEN C.jobs[CHOOSE i \in 1..m : C.jobs[i].slot = s].value ELSE @[s]]]
    BY <1>4 DEF WorkWrite
  <2>5. \A i \in 1..Len(C.jobs) : C.jobs[i].slot \in Slot /\ C.jobs[i].value \in Held
    <3>1. \A i \in 1..Len(C.jobs) : C.jobs[i] \in WriteJob
      BY <2>3
    <3> QED
      BY <3>1 DEF WriteJob
  <2> DEFINE r == [i \in 1..Len(C.jobs) |-> [slot |-> C.jobs[i].slot, success |-> i <= n]]
             e == [type |-> "written", port |-> C.port, results |-> r]
  <2>6. r \in Seq([slot: Slot, success: BOOLEAN])
    <3>1. Len(C.jobs) \in Nat
      BY <2>3
    <3>2. \A i \in 1..Len(C.jobs) :
            [slot |-> C.jobs[i].slot, success |-> i <= n] \in [slot: Slot, success: BOOLEAN]
      BY <2>5, <3>1
    <3> QED
      BY <3>1, <3>2
  <2> HIDE DEF r
  <2>7. e \in Event /\ e.type = "written"
    BY <2>2, <2>6, EventTyped
  <2>8. Emit(e)
    BY <2>4 DEF r
  <2> HIDE DEF e
  <2>9. evts' \in Seq(Event) /\ HasWritten(evts')
    BY <1>0, <2>7, <2>8, EmitsKeep
  <2>10. pad' \in [Port -> Contents \cup {Nothing, Foreign}]
    <3>1. CASE pad[C.port] \notin Contents /\ UNCHANGED pad
      BY <1>0, <3>1 DEF PadsTyped
    <3>2. CASE /\ pad[C.port] \in Contents
               /\ \E m \in {n, n + 1} \cap 0..Len(C.jobs) :
                    pad' = [pad EXCEPT ![C.port] = [s \in Slot |->
                      IF \E i \in 1..m : C.jobs[i].slot = s
                      THEN C.jobs[CHOOSE i \in 1..m : C.jobs[i].slot = s].value ELSE @[s]]]
      <4>1. PICK m \in {n, n + 1} \cap 0..Len(C.jobs) :
                    pad' = [pad EXCEPT ![C.port] = [s \in Slot |->
                      IF \E i \in 1..m : C.jobs[i].slot = s
                      THEN C.jobs[CHOOSE i \in 1..m : C.jobs[i].slot = s].value ELSE @[s]]]
        BY <3>2
      <4>2. 1..m \subseteq 1..Len(C.jobs)
        BY <2>3
      <4> DEFINE held == [s \in Slot |->
                      IF \E i \in 1..m : C.jobs[i].slot = s
                      THEN C.jobs[CHOOSE i \in 1..m : C.jobs[i].slot = s].value
                      ELSE pad[C.port][s]]
      <4>3. held \in Contents
        <5> SUFFICES ASSUME NEW s \in Slot PROVE held[s] \in Held
          BY DEF Contents
        <5>1. CASE \E i \in 1..m : C.jobs[i].slot = s
          <6> DEFINE j == CHOOSE i \in 1..m : C.jobs[i].slot = s
          <6>1. j \in 1..m
            BY <5>1
          <6>2. held[s] = C.jobs[j].value
            BY <5>1
          <6> HIDE DEF j, held
          <6> QED
            BY <2>5, <4>2, <6>1, <6>2
        <5>2. CASE ~\E i \in 1..m : C.jobs[i].slot = s
          BY <3>2, <5>2 DEF Contents
        <5> QED
          BY <5>1, <5>2
      <4>4. pad' = [pad EXCEPT ![C.port] = held]
        BY <1>0, <2>2, <4>1 DEF PadsTyped
      <4> HIDE DEF held
      <4> QED
        BY <1>0, <4>3, <4>4 DEF PadsTyped
    <3> QED
      BY <2>4, <3>1, <3>2
  <2>11. reported' \in [Port -> {"nothing", "this", "other"}]
    BY <1>0, <1>4, <2>2, SeesTyped DEF WorkWrite
  <2>12. PadsTyped' /\ QueuesTyped'
    BY <2>2, <2>9, <2>10, <2>11 DEF PadsTyped, QueuesTyped
  <2> QED
    BY <1>0, <2>1, <2>9, <2>12, WorkerRest
<1>5. CASE \E p \in Port : Poll(p)
  <2>1. PICK p \in Port : Poll(p)
    BY <1>5
  <2>2. cmds' = cmds /\ pad' = pad /\ moves' = moves
    BY <2>1 DEF Poll
  <2>3. [type |-> "presence", port |-> p, there |-> pad[p] # Nothing] \in Event
    BY EventTyped
  <2>4. evts' \in Seq(Event) /\ (HasWritten(evts) => HasWritten(evts'))
    BY <1>0, <2>1, <2>3, EmitsKeep DEF Poll
  <2>5. PadsTyped'
    BY <1>0, <2>1, <2>2, SeesTyped DEF Poll, PadsTyped
  <2>6. QueuesTyped'
    BY <1>0, <2>2, <2>4 DEF QueuesTyped
  <2> QED
    BY <1>0, <2>2, <2>4, <2>5, <2>6, WorkerRest
<1> QED
  BY <1>1, <1>2, <1>3, <1>4, <1>5 DEF Worker

LEMMA MoveKeeps ==
  ASSUME WindowInv, WaitsInv, NEW p \in Port, Move(p)
  PROVE  WindowInv' /\ WaitsInv'
<1>1. UNCHANGED <<cmds, evts, ctl, shown, write, asks, relock, picking, closed, clicks>>
  BY DEF Move
<1>2. moves' \in 0..MaxMoves
  BY WindowAssumption DEF Move, WindowInv, CountsTyped
<1>3. pad' \in [Port -> Contents \cup {Nothing, Foreign}]
  <2>1. CASE pad' \in {[pad EXCEPT ![p] = c] : c \in Contents \cup {Nothing, Foreign}}
    BY <2>1 DEF WindowInv, PadsTyped
  <2>2. CASE /\ pad[p] \in Contents
             /\ \E s \in Slot, v \in Held : v # pad[p][s] /\ pad' = [pad EXCEPT ![p][s] = v]
    <3>1. PICK s \in Slot, v \in Held : pad' = [pad EXCEPT ![p][s] = v]
      BY <2>2
    <3> DEFINE held == [pad[p] EXCEPT ![s] = v]
    <3>2. held \in Contents
      BY <2>2 DEF Contents
    <3>3. pad' = [pad EXCEPT ![p] = held]
      BY <3>1 DEF WindowInv, PadsTyped
    <3> HIDE DEF held
    <3> QED
      BY <3>2, <3>3 DEF WindowInv, PadsTyped
  <2> QED
    BY <2>1, <2>2 DEF Move
<1>4. reported' \in [Port -> {"nothing", "this", "other"}]
  BY DEF Move, WindowInv, PadsTyped
<1>5. PadsTyped' /\ QueuesTyped'
  BY <1>1, <1>3, <1>4 DEF PadsTyped, QueuesTyped, WindowInv
<1> QED
  BY <1>1, <1>2, <1>5, WorkerRest

-------------------------------------------------------------------------------
\* What the user's clicks touch.
Part == /\ cmds \in Seq(Command) /\ ViewInv /\ GoodWrite(write) /\ AsksTyped /\ RelockTyped
        /\ picking \in Slot \cup {Nothing} /\ closed \in BOOLEAN
        /\ WaitsInv

\* A click that sends no write and leaves the batch.
LEMMA Quiet ==
  ASSUME Part, UNCHANGED <<evts, relock>>, write'.running = write.running,
         write'.batch = write.batch, HasWrite(cmds) => HasWrite(cmds')
  PROVE  WaitsInv' /\ RelockTyped'
BY DEF Part, WaitsInv, ChainHasItsBatch, RelockTyped

LEMMA WindowStays ==
  ASSUME Part, UNCHANGED <<cmds, evts, write, relock>>
  PROVE  cmds' \in Seq(Command) /\ GoodWrite(write') /\ WaitsInv' /\ RelockTyped'
<1>1. cmds' \in Seq(Command) /\ GoodWrite(write')
  BY DEF Part
<1>2. WaitsInv' /\ RelockTyped'
  BY DEF Part, WaitsInv, ChainHasItsBatch, RelockTyped
<1> QED
  BY <1>1, <1>2

LEMMA ShownStays ==
  ASSUME ViewInv, UNCHANGED <<ctl, shown>>
  PROVE  ViewInv'
<1>1. UNCHANGED <<ctl, active_port, pending_move>> /\ selected' \in Slot
  BY DEF shown, ViewInv, ShownTyped
<1> QED
  BY <1>1, ViewStays

LEMMA EditsActive ==
  ASSUME ViewInv, active(Now) # Nothing, NEW s \in Slot, NEW v \in Held,
         ctl' = [ctl EXCEPT ![active(Now)].edited[s] = v],
         UNCHANGED <<active_port, pending_move>>, selected' \in Slot
  PROVE  ViewInv'
<1> DEFINE p == active(Now)
           c == [ctl[p] EXCEPT !.edited[s] = v]
<1>1. p \in Port /\ ctl[p] \in Controller /\ ctl[p] # Nothing /\ ctl[p].known
  BY ActivePart
<1>2. ctl' = [ctl EXCEPT ![p] = c]
  BY <1>1 DEF ViewInv, CtlTyped, Controller
<1>3. c \in Controller /\ c.known
  BY <1>1 DEF Controller, Contents
<1> HIDE DEF p, c
<1> QED
  BY <1>1, <1>2, <1>3, OneEdits

LEMMA Reading ==
  ASSUME Part, NEW p \in Port, ctl[p] # Nothing, Reads(p), UNCHANGED shown
  PROVE  ViewInv' /\ cmds' \in Seq(Command) /\ (HasWrite(cmds) => HasWrite(cmds'))
<1> DEFINE c == [ctl[p] EXCEPT !.reading = TRUE]
<1>1. ctl[p] \in Controller
  BY DEF Part, ViewInv, CtlTyped
<1>2. c \in Controller /\ c.known = ctl[p].known /\ c.edited = ctl[p].edited
  BY <1>1 DEF Controller
<1>3. ctl' = [ctl EXCEPT ![p] = c]
  BY <1>1 DEF Reads, Part, ViewInv, CtlTyped, Controller
<1>4. ~c.known => \A s \in Slot : c.edited[s] = Nothing
  BY <1>2 DEF Part, ViewInv, EditsKnown
<1> HIDE DEF c
<1>5. ViewInv'
  BY <1>2, <1>3, <1>4, OneChanges DEF Part
<1>6. <<ReadOf(p)>> \in Seq(Command)
  BY ReadTyped
<1> QED
  BY <1>5, <1>6, SendsKeep DEF Part, Reads

-------------------------------------------------------------------------------
LEMMA EditKeeps ==
  ASSUME Part, UNCHANGED evts, (\E v \in Value : Edit(v)) \/ discard
  PROVE  Part'
<1>1. PICK s \in Slot, v \in Held :
        active(Now) # Nothing /\ ctl' = [ctl EXCEPT ![active(Now)].edited[s] = v]
  <2>1. selected \in Slot
    BY DEF Part, ViewInv, ShownTyped
  <2>2. discard => active(Now) # Nothing
    BY DEF discard, edited_slots
  <2> QED
    BY <2>1, <2>2, Zenon DEF Edit, discard, Held
<1>2. UNCHANGED <<cmds, shown, write, asks, relock, picking, closed>>
  BY DEF Edit, discard
<1>3. UNCHANGED <<active_port, pending_move>> /\ selected' \in Slot
  BY <1>2 DEF shown, Part, ViewInv, ShownTyped
<1>4. ViewInv'
  BY <1>1, <1>3, EditsActive DEF Part
<1>5. cmds' \in Seq(Command) /\ GoodWrite(write') /\ WaitsInv' /\ RelockTyped'
  BY <1>2, WindowStays
<1> QED
  BY <1>2, <1>4, <1>5 DEF Part, AsksTyped

LEMMA SelectingKeeps ==
  ASSUME GoodWrite(write), NEW s, write' = Selecting(s)
  PROVE  GoodWrite(write') /\ write'.running = write.running /\ write'.batch = write.batch
<1> DEFINE t == IF s = selected THEN write.reading_for ELSE Nothing
<1>1. t \in Target \cup {Nothing}
  BY DEF GoodWrite, WriteState
<1>2. write' = [write EXCEPT !.reading_for = t]
  BY DEF Selecting, GoodWrite, WriteState
<1> HIDE DEF t
<1> DEFINE z == [write EXCEPT !.reading_for = t]
<1>3. GoodWrite(z) /\ z.batch = write.batch /\ z.running = write.running
  BY <1>1, NewReview
<1> HIDE DEF z
<1>4. write' = z
  BY <1>2 DEF z
<1> QED
  BY <1>3, <1>4

LEMMA SelectKeeps ==
  ASSUME Part, UNCHANGED evts, NEW s \in Slot, select(s)
  PROVE  Part'
<1>1. UNCHANGED <<cmds, ctl, active_port, pending_move, asks, relock, picking, closed>>
      /\ selected' = s /\ write' = Selecting(s)
  BY DEF select
<1>2. ViewInv'
  BY <1>1, ViewStays DEF Part
<1>3. GoodWrite(write') /\ write'.running = write.running /\ write'.batch = write.batch
  BY <1>1, SelectingKeeps DEF Part
<1>4. WaitsInv' /\ RelockTyped'
  BY <1>1, <1>3, Quiet
<1> QED
  BY <1>1, <1>2, <1>3, <1>4 DEF Part, AsksTyped

LEMMA PickKeeps ==
  ASSUME Part, UNCHANGED evts, NEW p \in Port, pick_controller(p)
  PROVE  Part'
<1> DEFINE w == [write EXCEPT !.reading_for = Nothing]
<1>1. /\ UNCHANGED <<cmds, ctl, selected, pending_move, picking, closed>>
      /\ p \in listed(Now) /\ active_port' = p /\ KeepChain
      /\ asks' = [asks EXCEPT !.import = Nothing]
      /\ write' = drop_waiting_batch(w)
  BY DEF pick_controller
<1>2. ViewInv'
  <2>1. listed(Then) = listed(Now)
    BY <1>1, ListedIs
  <2> QED
    BY <1>1, <2>1, ThenIsNow DEF Part, ViewInv, CtlTyped, ShownTyped, EditsKnown,
                                 PendingListed
<1>3. GoodWrite(w) /\ w.batch = write.batch /\ w.running = write.running
  BY NewReview DEF Part
<1> HIDE DEF w
<1>4. GoodWrite(write') /\ SameBatch(write, write') /\ write'.running = write.running
  BY <1>1, <1>3, DropsWaiting DEF SameBatch
<1>5. ChainHasItsBatch' /\ RelockTyped'
  BY <1>1, <1>4, ChainKept DEF Part, WaitsInv
<1>6. AsksTyped'
  BY <1>1 DEF Part, AsksTyped
<1> QED
  BY <1>1, <1>2, <1>4, <1>5, <1>6 DEF Part, WaitsInv

LEMMA ReviewKeeps ==
  ASSUME Part, UNCHANGED evts, begin_review
  PROVE  Part'
<1> DEFINE t == [port |-> active(Now), slot |-> selected]
<1>1. active(Now) # Nothing
  BY DEF begin_review, idle
<1>2. active(Now) \in Port /\ ctl[active(Now)] # Nothing
  BY <1>1, ActivePart DEF Part
<1>3. t \in Target
  BY <1>2 DEF Target, Part, ViewInv, ShownTyped
<1>4. /\ Reads(active(Now)) /\ UNCHANGED <<shown, asks, relock, picking, closed>>
      /\ write' = [write EXCEPT !.reading_for = t]
  BY DEF begin_review
<1> HIDE DEF t
<1>5. ViewInv' /\ cmds' \in Seq(Command) /\ (HasWrite(cmds) => HasWrite(cmds'))
  BY <1>2, <1>4, Reading
<1>6. GoodWrite(write') /\ write'.batch = write.batch /\ write'.running = write.running
  BY <1>3, <1>4, NewReview DEF Part
<1>7. WaitsInv' /\ RelockTyped'
  BY <1>4, <1>5, <1>6, Quiet
<1> QED
  BY <1>4, <1>5, <1>6, <1>7 DEF Part, AsksTyped

\* A batch begins while no other stands, and no relock waits.
LEMMA BatchBegins ==
  ASSUME Part, UNCHANGED <<evts, shown>>, can_write_all, begin_batch
  PROVE  /\ ViewInv' /\ cmds' \in Seq(Command) /\ GoodWrite(write')
         /\ write'.running = write.running /\ relock.after_write = Nothing
         /\ write'.batch # Nothing /\ write'.batch.port = active(Now)
         /\ (HasWrite(cmds) => HasWrite(cmds')) /\ active(Now) \in Port
         /\ (UNCHANGED relock => WaitsInv' /\ RelockTyped')
<1>1. active(Now) # Nothing /\ write.batch = Nothing
  BY DEF can_write_all, idle
<1>2. active(Now) \in Port /\ ctl[active(Now)] # Nothing
  BY <1>1, ActivePart DEF Part
<1>3. relock.after_write = Nothing
  BY <1>1 DEF Part, WaitsInv, ChainHasItsBatch
<1>4. ViewInv' /\ cmds' \in Seq(Command) /\ (HasWrite(cmds) => HasWrite(cmds'))
  BY <1>2, Reading DEF begin_batch
<1>5. /\ GoodWrite(write') /\ write'.running = write.running
      /\ write'.batch # Nothing /\ write'.batch.port = active(Now)
  BY <1>2, BeginsBatch DEF Part, begin_batch
<1>6. UNCHANGED relock => WaitsInv' /\ RelockTyped'
  BY <1>3, <1>4, <1>5 DEF Part, WaitsInv, ChainHasItsBatch, RelockTyped
<1> QED
  BY <1>2, <1>3, <1>4, <1>5, <1>6

LEMMA WriteAllKeeps ==
  ASSUME Part, UNCHANGED evts, WriteAll
  PROVE  Part'
<1>1. can_write_all /\ begin_batch /\ UNCHANGED <<shown, asks, relock, picking, closed>>
  BY DEF WriteAll
<1> QED
  BY <1>1, BatchBegins DEF Part, AsksTyped

LEMMA ClearKeeps ==
  ASSUME Part, UNCHANGED evts, begin_clear
  PROVE  Part'
<1> DEFINE t == [port |-> active(Now), slot |-> selected]
<1>1. active(Now) # Nothing
  BY DEF begin_clear, idle
<1>2. active(Now) \in Port
  BY <1>1, ActivePart DEF Part
<1>3. t \in Target
  BY <1>2 DEF Target, Part, ViewInv, ShownTyped
<1>4. /\ UNCHANGED <<cmds, ctl, shown, asks, relock, picking, closed>>
      /\ write' = [write EXCEPT !.clearing = t]
  BY DEF begin_clear
<1> HIDE DEF t
<1>5. GoodWrite(write') /\ write'.batch = write.batch /\ write'.running = write.running
  BY <1>3, <1>4, NewReview DEF Part
<1>6. WaitsInv' /\ RelockTyped'
  BY <1>4, <1>5, Quiet
<1>7. ViewInv'
  BY <1>4, ShownStays DEF Part
<1> QED
  BY <1>4, <1>5, <1>6, <1>7 DEF Part, AsksTyped

LEMMA TryAgainKeeps ==
  ASSUME Part, UNCHANGED evts, TryAgain
  PROVE  Part'
<1>1. PICK p \in Failing : Reads(p)
  BY DEF TryAgain
<1>2. p \in Port /\ ctl[p] # Nothing
  <2>1. CASE active(Now) # Nothing /\ Of(Now).read_error
    BY <1>1, <2>1, ActivePart DEF Failing, Part
  <2>2. CASE ~(active(Now) # Nothing /\ Of(Now).read_error)
    BY <1>1, <2>2 DEF Failing
  <2> QED
    BY <2>1, <2>2
<1>3. UNCHANGED <<shown, write, asks, relock, picking, closed>>
  BY DEF TryAgain
<1>4. ViewInv' /\ cmds' \in Seq(Command) /\ (HasWrite(cmds) => HasWrite(cmds'))
  BY <1>1, <1>2, <1>3, Reading
<1>5. WaitsInv' /\ RelockTyped'
  BY <1>3, <1>4, Quiet
<1> QED
  BY <1>3, <1>4, <1>5 DEF Part, AsksTyped

LEMMA RelockKeeps ==
  ASSUME Part, UNCHANGED evts, relock_clicked
  PROVE  Part'
<1>1. active(Now) \in Port
  BY ActivePart DEF relock_clicked, relock_available, Part
<1>2. UNCHANGED <<ctl, shown, write, picking, closed>>
  BY DEF relock_clicked
<1>3. ViewInv'
  BY <1>2, ShownStays DEF Part
<1>4. cmds' \in Seq(Command) /\ (HasWrite(cmds) => HasWrite(cmds'))
      /\ relock' \in [after_write: Port \cup {Nothing}, sent: Port \cup {Nothing}]
      /\ relock'.after_write = relock.after_write
  <2>1. CASE UNCHANGED <<cmds, relock>>
    BY <2>1 DEF Part, RelockTyped
  <2>2. CASE /\ Sends(<<[op |-> "relock", port |-> active(Now)]>>)
             /\ relock' = [relock EXCEPT !.sent = active(Now)]
    <3>1. <<[op |-> "relock", port |-> active(Now)]>> \in Seq(Command)
      BY <1>1, ReadTyped
    <3>2. cmds' \in Seq(Command) /\ (HasWrite(cmds) => HasWrite(cmds'))
      BY <2>2, <3>1, SendsKeep DEF Part
    <3> QED
      BY <1>1, <2>2, <3>2 DEF Part, RelockTyped
  <2> QED
    BY <2>1, <2>2 DEF relock_clicked
<1>5. AsksTyped'
  BY DEF relock_clicked, Part, AsksTyped
<1>6. GoodWrite(write') /\ WaitsInv' /\ RelockTyped'
  BY <1>2, <1>4 DEF Part, WaitsInv, ChainHasItsBatch, RelockTyped
<1> QED
  BY <1>2, <1>3, <1>4, <1>5, <1>6 DEF Part

LEMMA ImportKeeps ==
  ASSUME Part, UNCHANGED evts, import_file \/ close_requested
  PROVE  Part'
<1>1. UNCHANGED <<cmds, ctl, shown, write, relock>>
  BY DEF import_file, close_requested
<1>2. ViewInv'
  BY <1>1, ShownStays DEF Part
<1>3. picking' \in Slot \cup {Nothing} /\ closed' \in BOOLEAN
  BY DEF import_file, close_requested, Part, ViewInv, ShownTyped
<1>4. AsksTyped'
  BY DEF import_file, close_requested, Part, AsksTyped
<1>5. cmds' \in Seq(Command) /\ GoodWrite(write') /\ WaitsInv' /\ RelockTyped'
  BY <1>1, WindowStays
<1> QED
  BY <1>2, <1>3, <1>4, <1>5 DEF Part

\* A file's profile in its slot, or none.
LEMMA ImportApplied ==
  ASSUME Part, NEW s \in Slot, NEW v \in Value, apply_import(s, v), UNCHANGED <<cmds, evts, relock>>
  PROVE  ViewInv' /\ GoodWrite(write') /\ WaitsInv' /\ RelockTyped'
<1>1. CASE active(Now) = Nothing
  <2>1. UNCHANGED <<ctl, shown, write>>
    BY <1>1 DEF apply_import
  <2> QED
    BY <2>1, ShownStays, WindowStays DEF Part
<1>2. CASE active(Now) # Nothing
  <2>1. /\ ctl' = [ctl EXCEPT ![active(Now)].edited[s] = v]
        /\ selected' = s /\ write' = Selecting(s)
        /\ UNCHANGED <<active_port, pending_move>>
    BY <1>2 DEF apply_import
  <2>2. ViewInv'
    BY <1>2, <2>1, EditsActive DEF Part, Held
  <2>3. GoodWrite(write') /\ write'.running = write.running /\ write'.batch = write.batch
    BY <2>1, SelectingKeeps DEF Part
  <2>4. WaitsInv' /\ RelockTyped'
    BY <2>3, Quiet
  <2> QED
    BY <2>2, <2>3, <2>4
<1> QED
  BY <1>1, <1>2

LEMMA FileKeeps ==
  ASSUME Part, UNCHANGED evts, FileLands
  PROVE  Part'
<1>1. UNCHANGED <<cmds, relock, closed>> /\ picking \in Slot /\ picking' = Nothing
  BY DEF FileLands, Part
<1>2. ViewInv' /\ GoodWrite(write') /\ WaitsInv' /\ RelockTyped'
  <2>1. CASE UNCHANGED <<ctl, shown, write>>
    BY <1>1, <2>1, ShownStays, WindowStays DEF Part
  <2>2. CASE \E v \in Value : apply_import(picking, v)
    BY <1>1, <2>2, ImportApplied
  <2> QED
    BY <2>1, <2>2 DEF FileLands
<1>3. AsksTyped'
  BY <1>1 DEF FileLands, Part, AsksTyped
<1> QED
  BY <1>1, <1>2, <1>3 DEF Part

LEMMA AnswerImportKeeps ==
  ASSUME Part, UNCHANGED evts, AnswerImport
  PROVE  Part'
<1>1. UNCHANGED <<cmds, relock, picking, closed>> /\ asks.import # Nothing
  BY DEF AnswerImport, Answers, Shows
<1>2. asks.import.slot \in Slot /\ asks.import.value \in Value
  BY <1>1 DEF Part, AsksTyped
<1>3. ViewInv' /\ GoodWrite(write') /\ WaitsInv' /\ RelockTyped'
  <2>1. CASE UNCHANGED <<ctl, shown, write>>
    BY <1>1, <2>1, ShownStays, WindowStays DEF Part
  <2>2. CASE apply_import(asks.import.slot, asks.import.value)
    BY <1>1, <1>2, <2>2, ImportApplied
  <2> QED
    BY <2>1, <2>2 DEF AnswerImport
<1>4. AsksTyped'
  BY DEF AnswerImport, Part, AsksTyped
<1> QED
  BY <1>1, <1>3, <1>4 DEF Part

LEMMA ChangedKeeps ==
  ASSUME Part, UNCHANGED evts, NEW keep, apply_changed(keep)
  PROVE  Part'
<1> DEFINE p == active(Now)
           e == [s \in Slot |-> IF s \in changed_slots(Now) \ keep THEN Nothing
                                ELSE ctl[p].edited[s]]
           c == [ctl[p] EXCEPT !.changed = {}, !.edited = e]
           u == settle_review(Then, write)
           w == settle_batch(Then, u)
           s == SkippedWrite(Then, w)
<1>1. /\ UNCHANGED <<shown, asks, picking, closed>>
      /\ ctl' = [ctl EXCEPT ![p].changed = {},
                            ![p].edited = [t \in Slot |->
                              IF t \in changed_slots(Now) \ keep THEN Nothing ELSE @[t]]]
      /\ write' = skip_empty_review(Then, w) /\ Sends(s) /\ KeepChain
  BY DEF apply_changed
<1>2. p # Nothing
  BY DEF apply_changed, Answers, Shows, changed_slots
<1>3. p \in Port /\ ctl[p] \in Controller /\ ctl[p] # Nothing /\ ctl[p].known
  BY <1>2, ActivePart DEF Part
<1>4. ViewInv'
  <2>1. ctl' = [ctl EXCEPT ![p] = c]
    BY <1>1, <1>3 DEF Part, ViewInv, CtlTyped, Controller
  <2>2. e \in Contents
    BY <1>3 DEF Controller, Contents, Held
  <2> HIDE DEF e
  <2>3. c \in Controller /\ c.known
    BY <1>3, <2>2 DEF Controller
  <2> HIDE DEF p, c
  <2> QED
    BY <1>1, <1>3, <2>1, <2>3, OneChanges DEF Part
<1>5. GoodWrite(u) /\ u.batch = write.batch /\ u.running = write.running
  BY SettlesReview DEF Part
<1> HIDE DEF u
<1>6. GoodWrite(w) /\ SameBatch(u, w) /\ w.running = u.running
  BY <1>5, SettlesBatch
<1> HIDE DEF w
<1>7. ViewTyped(Then)
  BY <1>4, ThenTyped DEF ViewInv
<1>8. /\ GoodWrite(write') /\ SameBatch(w, write')
      /\ \/ write' = w /\ s = <<>>
         \/ write'.running # Nothing /\ \E d \in Command : d.op = "write" /\ s = <<d>>
  BY <1>1, <1>6, <1>7, Skips
<1> HIDE DEF s
<1>9. s \in Seq(Command) /\ (HasWrite(s) \/ write' = w)
  <2>1. \A d : HasWrite(<<d>>) <=> d.op = "write"
    <3> TAKE d
    <3>1. DOMAIN <<d>> = {1} /\ <<d>>[1] = d
      OBVIOUS
    <3> QED
      BY <3>1, Zenon DEF HasWrite
  <2>2. CASE s = <<>>
    BY <1>8, <2>2
  <2>3. CASE s # <<>>
    <3>1. PICK d \in Command : d.op = "write" /\ s = <<d>>
      BY <1>8, <2>3
    <3> QED
      BY <2>1, <3>1
  <2> QED
    BY <2>2, <2>3
<1>10. cmds' \in Seq(Command) /\ (HasWrite(cmds) \/ HasWrite(s) => HasWrite(cmds'))
  BY <1>1, <1>9, SendsKeep DEF Part
<1>11. write'.running # Nothing => HasWrite(cmds') \/ HasWritten(evts')
  BY <1>5, <1>6, <1>9, <1>10 DEF Part, WaitsInv
<1>12. SameBatch(write, write')
  BY <1>5, <1>6, <1>8 DEF SameBatch
<1>13. ChainHasItsBatch' /\ RelockTyped'
  BY <1>1, <1>12, ChainKept DEF Part, WaitsInv
<1> QED
  BY <1>1, <1>4, <1>8, <1>10, <1>11, <1>13 DEF Part, WaitsInv, AsksTyped

LEMMA TakenTyped ==
  ASSUME NEW c \in Controller, NEW old \in Controller
  PROVE  Taken(c, old) \in Controller /\ Taken(c, old).known = c.known
<1> DEFINE from == {s \in Slot : unsaved(old, s)}
           e == [s \in Slot |-> IF s \in from THEN old.edited[s] ELSE c.edited[s]]
           h == c.changed \cup {s \in from : c.pad[s] \notin {old.pad[s], old.edited[s]}}
<1>1. Taken(c, old) = [c EXCEPT !.edited = e, !.changed = h]
  BY DEF Taken, Controller
<1>2. e \in Contents
  BY DEF Controller, Contents
<1>3. h \in SUBSET Slot
  BY DEF Controller
<1> HIDE DEF e, h
<1> QED
  BY <1>1, <1>2, <1>3 DEF Controller

LEMMA MoveAnswerKeeps ==
  ASSUME Part, UNCHANGED evts, answer_move
  PROVE  Part'
<1>1. /\ UNCHANGED <<cmds, selected, write, asks, relock, picking, closed>>
      /\ pending_move' = Nothing /\ pending_move \in Port \cup {Nothing}
  BY DEF answer_move, Part, ViewInv, ShownTyped
<1>2. cmds' \in Seq(Command) /\ GoodWrite(write') /\ WaitsInv' /\ RelockTyped'
  BY <1>1, WindowStays
<1>3. ViewInv'
  <2>1. CASE UNCHANGED <<ctl, active_port>>
    BY <1>1, <2>1 DEF Part, ViewInv, CtlTyped, ShownTyped, EditsKnown, PendingListed
  <2>2. CASE \E p \in move_candidates :
          LET to == pending_move IN
          /\ ctl' = [q \in Port |->
               IF q = p THEN Nothing
               ELSE IF q = to /\ ctl[to] # Nothing THEN Taken(ctl[to], ctl[p]) ELSE ctl[q]]
          /\ active_port' = IF active_port = p THEN to ELSE active_port
    <3>1. PICK p \in move_candidates :
          /\ ctl' = [q \in Port |->
               IF q = p THEN Nothing
               ELSE IF q = pending_move /\ ctl[pending_move] # Nothing
                    THEN Taken(ctl[pending_move], ctl[p]) ELSE ctl[q]]
          /\ active_port' = IF active_port = p THEN pending_move ELSE active_port
      BY <2>2
    <3>2. pending_move # Nothing /\ p \in unplugged_with_edits(Now)
      BY <3>1 DEF move_candidates
    <3>3. p \in Port /\ ctl[p] \in Controller
      BY <3>2, ListedIs DEF unplugged_with_edits, Part, ViewInv, CtlTyped
    <3>4. pending_move \in Port /\ ctl[pending_move] \in Controller /\ ctl[pending_move].known
      BY <3>2, ListedIs DEF Part, ViewInv, CtlTyped, PendingListed
    <3> DEFINE t == Taken(ctl[pending_move], ctl[p])
    <3>5. t \in Controller /\ t.known
      BY <3>3, <3>4, TakenTyped
    <3>6. ctl' = [q \in Port |-> IF q = p THEN Nothing
                                 ELSE IF q = pending_move /\ ctl[pending_move] # Nothing
                                      THEN t ELSE ctl[q]]
      BY <3>1
    <3> HIDE DEF t
    <3>7. CtlTyped'
      BY <3>5, <3>6 DEF Part, ViewInv, CtlTyped
    <3>8. EditsKnown'
      BY <3>5, <3>6 DEF Part, ViewInv, EditsKnown
    <3>9. ShownTyped' /\ PendingListed'
      BY <1>1, <3>1, <3>4 DEF Part, ViewInv, ShownTyped, PendingListed
    <3> QED
      BY <3>7, <3>8, <3>9 DEF ViewInv
  <2> QED
    BY <2>1, <2>2 DEF answer_move
<1> QED
  BY <1>1, <1>2, <1>3 DEF Part, AsksTyped

\* A yes sends the write it starts.
LEMMA ConfirmKeeps ==
  ASSUME Part, UNCHANGED evts, NEW w, Confirms(w), GoodWrite(w), w.running # Nothing,
         SameBatch(write, w), SameBatch(w, write), WriteOf(w) \in Command, WriteOf(w).op = "write"
  PROVE  cmds' \in Seq(Command) /\ GoodWrite(write') /\ WaitsInv' /\ RelockTyped'
<1>1. write' = w /\ Sends(<<WriteOf(w)>>) /\ UNCHANGED relock
  BY DEF Confirms
<1>2. <<WriteOf(w)>> \in Seq(Command) /\ HasWrite(<<WriteOf(w)>>)
  <2> DEFINE d == WriteOf(w)
  <2>1. d \in Command /\ d.op = "write"
    OBVIOUS
  <2> HIDE DEF d
  <2>2. <<d>> \in Seq(Command) /\ DOMAIN <<d>> = {1} /\ <<d>>[1] = d
    BY <2>1
  <2>3. HasWrite(<<d>>)
    BY <2>1, <2>2, Zenon DEF HasWrite
  <2> QED
    BY <2>2, <2>3 DEF d
<1>3. cmds' \in Seq(Command) /\ HasWrite(cmds')
  BY <1>1, <1>2, SendsKeep DEF Part
<1>4. ChainHasItsBatch' /\ RelockTyped'
  BY <1>1, ChainUnmoved DEF Part, WaitsInv
<1> QED
  BY <1>1, <1>3, <1>4 DEF WaitsInv

\* A no sends nothing.
LEMMA DeclineKeeps ==
  ASSUME Part, UNCHANGED evts, NEW w, Declines(w), GoodWrite(w), w.running = write.running,
         SameBatch(write, w)
  PROVE  cmds' \in Seq(Command) /\ GoodWrite(write') /\ WaitsInv' /\ RelockTyped'
<1>1. write' = w /\ UNCHANGED cmds /\ KeepChain
  BY DEF Declines
<1>2. ChainHasItsBatch' /\ RelockTyped'
  BY <1>1, ChainKept DEF Part, WaitsInv
<1> QED
  BY <1>1, <1>2 DEF Part, WaitsInv

LEMMA BatchEnds ==
  ASSUME Part
  PROVE  GoodWrite(end_batch) /\ SameBatch(write, end_batch) /\ end_batch.running = write.running
<1>1. write \in WriteState
  BY DEF Part, GoodWrite
<1>2. GoodWrite(end_batch) /\ SameBatch(write, end_batch)
  BY <1>1, NoBatch DEF end_batch
<1>3. end_batch.running = write.running
  BY <1>1, NewBatch DEF end_batch
<1> QED
  BY <1>2, <1>3

\* One job, as a clear and a second try have it.
LEMMA OneJob ==
  ASSUME NEW w, GoodWrite(w), w.batch = write.batch, NEW p \in Port, NEW job \in WriteJob
  PROVE  LET x == start(w, p, <<job>>) IN
         /\ GoodWrite(x) /\ x.running # Nothing /\ SameBatch(write, x) /\ SameBatch(x, write)
         /\ WriteOf(x) \in Command /\ WriteOf(x).op = "write"
<1>1. <<job>> \in Seq(WriteJob)
  OBVIOUS
<1>2. w \in WriteState /\ Shape(w)
  BY DEF GoodWrite
<1> DEFINE jobs == <<job>>
           x == start(w, p, jobs)
<1> HIDE DEF jobs
<1>3. /\ GoodWrite(x) /\ x.running # Nothing /\ x.batch = w.batch
      /\ WriteOf(x) \in Command /\ WriteOf(x).op = "write"
  BY <1>1, <1>2, Starts DEF jobs
<1> HIDE DEF x
<1>4. SameBatch(write, x) /\ SameBatch(x, write)
  BY <1>3 DEF SameBatch
<1> QED
  BY <1>3, <1>4 DEF x, jobs

LEMMA WriteAnswerKeeps ==
  ASSUME Part, UNCHANGED evts, AnswerWrite
  PROVE  Part'
<1>1. UNCHANGED <<ctl, shown, asks, picking, closed>>
  BY DEF AnswerWrite
<1>2. ViewInv' /\ ViewTyped(Now)
  BY <1>1, ShownStays, NowTyped DEF Part, ViewInv
<1>3. GoodWrite(write) /\ write \in WriteState
  BY DEF Part, GoodWrite
<1>4. cmds' \in Seq(Command) /\ GoodWrite(write') /\ WaitsInv' /\ RelockTyped'
  <2>1. CASE /\ Answers("review")
             /\ Confirms(confirm_review(Now, write)) \/ Declines([write EXCEPT !.review = Nothing])
    <3>1. CASE Confirms(confirm_review(Now, write))
      <4>1. review_open(Now, write)
        BY <2>1 DEF Answers, Shows
      <4> QED
        BY <1>2, <1>3, <3>1, <4>1, ConfirmsReview, ConfirmKeeps
    <3>2. CASE Declines([write EXCEPT !.review = Nothing])
      <4> DEFINE w == [write EXCEPT !.review = Nothing]
      <4>1. GoodWrite(w) /\ w.batch = write.batch /\ w.running = write.running
        BY <1>3, NewReview
      <4> HIDE DEF w
      <4>2. SameBatch(write, w)
        BY <4>1 DEF SameBatch
      <4>3. Declines(w)
        BY <3>2 DEF w
      <4> QED
        BY <4>1, <4>2, <4>3, DeclineKeeps
    <3> QED
      BY <2>1, <3>1, <3>2
  <2>2. CASE /\ Answers("clear")
             /\ LET w == [write EXCEPT !.clearing = Nothing] IN
                \/ Confirms(start(w, write.clearing.port,
                                  <<[slot |-> write.clearing.slot, value |-> Nothing]>>))
                \/ Declines(w)
    <3> DEFINE w == [write EXCEPT !.clearing = Nothing]
               job == [slot |-> write.clearing.slot, value |-> Nothing]
    <3>1. write.clearing # Nothing
      BY <2>2 DEF Answers, Shows
    <3>2. write.clearing.port \in Port /\ job \in WriteJob
      BY <1>3, <3>1 DEF WriteState, Target, WriteJob, Held
    <3>3. GoodWrite(w) /\ w.batch = write.batch /\ w.running = write.running
      BY <1>3, NewReview
    <3>4. Confirms(start(w, write.clearing.port, <<job>>)) \/ Declines(w)
      BY <2>2
    <3> HIDE DEF w, job
    <3>5. SameBatch(write, w)
      BY <3>3 DEF SameBatch
    <3>6. CASE Declines(w)
      BY <3>3, <3>5, <3>6, DeclineKeeps
    <3>7. CASE Confirms(start(w, write.clearing.port, <<job>>))
      <4> DEFINE x == start(w, write.clearing.port, <<job>>)
      <4>1. /\ GoodWrite(x) /\ x.running # Nothing /\ SameBatch(write, x) /\ SameBatch(x, write)
            /\ WriteOf(x) \in Command /\ WriteOf(x).op = "write"
        BY <3>2, <3>3, OneJob
      <4>2. Confirms(x)
        BY <3>7
      <4> HIDE DEF x
      <4> QED
        BY <4>1, <4>2, ConfirmKeeps
    <3> QED
      BY <3>4, <3>6, <3>7
  <2>3. CASE /\ Answers("failed")
             /\ LET w == [write EXCEPT !.failed = Nothing] IN
                Confirms(start(w, write.failed.port, <<write.failed.job>>)) \/ Declines(w)
    <3> DEFINE w == [write EXCEPT !.failed = Nothing]
               job == write.failed.job
    <3>1. write.failed # Nothing
      BY <2>3 DEF Answers, Shows
    <3>2. write.failed.port \in Port /\ job \in WriteJob
      BY <1>3, <3>1 DEF WriteState
    <3>3. GoodWrite(w) /\ w.batch = write.batch /\ w.running = write.running
      <4>1. w \in WriteState /\ w.batch = write.batch /\ w.running = write.running
        BY <1>3 DEF WriteState
      <4> HIDE DEF w
      <4> QED
        BY <1>3, <4>1 DEF GoodWrite, Shape, AtStage
    <3>4. Confirms(start(w, write.failed.port, <<job>>)) \/ Declines(w)
      BY <2>3
    <3> HIDE DEF w, job
    <3>5. SameBatch(write, w)
      BY <3>3 DEF SameBatch
    <3>6. CASE Declines(w)
      BY <3>3, <3>5, <3>6, DeclineKeeps
    <3>7. CASE Confirms(start(w, write.failed.port, <<job>>))
      <4> DEFINE x == start(w, write.failed.port, <<job>>)
      <4>1. /\ GoodWrite(x) /\ x.running # Nothing /\ SameBatch(write, x) /\ SameBatch(x, write)
            /\ WriteOf(x) \in Command /\ WriteOf(x).op = "write"
        BY <3>2, <3>3, OneJob
      <4>2. Confirms(x)
        BY <3>7
      <4> HIDE DEF x
      <4> QED
        BY <4>1, <4>2, ConfirmKeeps
    <3> QED
      BY <3>4, <3>6, <3>7
  <2>4. CASE Answers("batch_review") /\ (Confirms(confirm_batch(Now, write)) \/ Declines(end_batch))
    <3>1. CASE Confirms(confirm_batch(Now, write))
      <4>1. batch_review_open(Now, write)
        BY <2>4 DEF Answers, Shows
      <4> QED
        BY <1>2, <1>3, <3>1, <4>1, ConfirmsBatch, ConfirmKeeps
    <3> QED
      BY <2>4, <3>1, BatchEnds, DeclineKeeps
  <2>5. CASE Answers("batch_failed") /\ (Confirms(retry_batch(write)) \/ Declines(end_batch))
    <3>1. CASE Confirms(retry_batch(write))
      <4>1. AtStage(write, {"failed"})
        BY <2>5 DEF Answers, Shows
      <4> QED
        BY <1>3, <3>1, <4>1, Retries, ConfirmKeeps
    <3> QED
      BY <2>5, <3>1, BatchEnds, DeclineKeeps
  <2> QED
    BY <2>1, <2>2, <2>3, <2>4, <2>5, Zenon DEF AnswerWrite
<1> QED
  BY <1>1, <1>2, <1>4 DEF Part, AsksTyped

LEMMA RelockAnswerKeeps ==
  ASSUME Part, UNCHANGED evts, AnswerRelock
  PROVE  Part'
<1>1. UNCHANGED <<shown, picking, closed>> /\ asks' = [asks EXCEPT !.relock = FALSE]
  BY DEF AnswerRelock
<1>2. AsksTyped'
  BY <1>1 DEF Part, AsksTyped
<1>3. ViewInv' /\ cmds' \in Seq(Command) /\ GoodWrite(write') /\ WaitsInv' /\ RelockTyped'
  <2>1. CASE UNCHANGED <<cmds, ctl, write, relock>>
    BY <1>1, <2>1, WindowStays, ShownStays DEF Part
  <2>2. CASE /\ relock.sent = Nothing /\ Of(Now).there
             /\ Sends(<<[op |-> "relock", port |-> active(Now)]>>)
             /\ relock' = [relock EXCEPT !.sent = active(Now)]
             /\ UNCHANGED <<ctl, write>>
    <3>1. active(Now) \in Port
      <4>1. active(Now) # Nothing
        BY DEF AnswerRelock, Answers, Shows, edited_slots
      <4> QED
        BY <4>1, ActivePart DEF Part
    <3>2. <<[op |-> "relock", port |-> active(Now)]>> \in Seq(Command)
      BY <3>1, ReadTyped
    <3>3. cmds' \in Seq(Command) /\ (HasWrite(cmds) => HasWrite(cmds'))
      BY <2>2, <3>2, SendsKeep DEF Part
    <3>4. RelockTyped' /\ relock'.after_write = relock.after_write
      BY <2>2, <3>1 DEF Part, RelockTyped
    <3>5. WaitsInv' /\ GoodWrite(write')
      BY <2>2, <3>3, <3>4 DEF Part, WaitsInv, ChainHasItsBatch
    <3> QED
      BY <1>1, <2>2, <3>3, <3>4, <3>5, ShownStays DEF Part
  <2>3. CASE /\ can_write_before_close /\ begin_batch
             /\ relock' = [relock EXCEPT !.after_write = active(Now)]
    <3>1. can_write_all
      BY <2>3 DEF can_write_before_close
    <3>2. /\ ViewInv' /\ cmds' \in Seq(Command) /\ GoodWrite(write')
          /\ write'.running = write.running
          /\ write'.batch # Nothing /\ write'.batch.port = active(Now)
          /\ (HasWrite(cmds) => HasWrite(cmds')) /\ active(Now) \in Port
      BY <1>1, <2>3, <3>1, BatchBegins
    <3>3. RelockTyped' /\ relock'.after_write = active(Now)
      BY <2>3, <3>2 DEF Part, RelockTyped
    <3>4. WaitsInv'
      BY <3>2, <3>3 DEF Part, WaitsInv, ChainHasItsBatch
    <3> QED
      BY <3>2, <3>3, <3>4
  <2> QED
    BY <2>1, <2>2, <2>3, Zenon DEF AnswerRelock
<1> QED
  BY <1>1, <1>2, <1>3 DEF Part

LEMMA CloseAnswerKeeps ==
  ASSUME Part, UNCHANGED evts, AnswerClose
  PROVE  Part'
<1>1. UNCHANGED <<shown, relock, picking>> /\ closed' \in BOOLEAN
  BY DEF AnswerClose, Part
<1>2. AsksTyped'
  BY DEF AnswerClose, Part, AsksTyped
<1>3. ViewInv' /\ cmds' \in Seq(Command) /\ GoodWrite(write') /\ WaitsInv' /\ RelockTyped'
  <2>1. CASE UNCHANGED <<cmds, ctl, write>>
    BY <1>1, <2>1, WindowStays, ShownStays DEF Part
  <2>2. CASE can_write_before_close /\ begin_batch
    <3>1. can_write_all
      BY <2>2 DEF can_write_before_close
    <3> QED
      BY <1>1, <2>2, <3>1, BatchBegins
  <2> QED
    BY <2>1, <2>2 DEF AnswerClose
<1> QED
  BY <1>1, <1>2, <1>3 DEF Part

LEMMA UserKeeps ==
  ASSUME WindowInv, WaitsInv, User
  PROVE  WindowInv' /\ WaitsInv'
<1>1. Part
  BY DEF Part, WindowInv, QueuesTyped, CountsTyped
<1>2. UNCHANGED evts /\ UNCHANGED bus /\ clicks' \in 0..MaxClicks
  BY WindowAssumption DEF User, WindowInv, CountsTyped
<1>3. Part'
  BY <1>1, <1>2, EditKeeps, ReviewKeeps, WriteAllKeeps, ClearKeeps, TryAgainKeeps, SelectKeeps,
     PickKeeps, RelockKeeps, ImportKeeps, FileKeeps, AnswerImportKeeps, ChangedKeeps,
     MoveAnswerKeeps, WriteAnswerKeeps, RelockAnswerKeeps, CloseAnswerKeeps DEF User
<1>4. PadsTyped' /\ evts' \in Seq(Event) /\ moves' \in 0..MaxMoves
  BY <1>2 DEF WindowInv, PadsTyped, QueuesTyped, CountsTyped, bus
<1> QED
  BY <1>2, <1>3, <1>4 DEF Part, WindowInv, QueuesTyped, CountsTyped

-------------------------------------------------------------------------------
LEMMA Starting ==
  ASSUME Init
  PROVE  WindowInv /\ WaitsInv
<1>1. PadsTyped
  BY DEF Init, PadsTyped
<1>2. QueuesTyped
  BY DEF Init, QueuesTyped
<1>3. ViewInv
  BY SlotsAre DEF Init, ViewInv, CtlTyped, ShownTyped, EditsKnown, PendingListed
<1>4. Idle \in WriteState /\ Idle.batch = Nothing /\ Idle.running = Nothing
  BY DEF Idle, WriteState
<1>5. GoodWrite(write)
  BY <1>4 DEF Init, GoodWrite, Shape, AtStage
<1>6. AsksTyped /\ RelockTyped
  BY DEF Init, AsksTyped, RelockTyped
<1>7. CountsTyped
  <2>1. picking = Nothing /\ closed = FALSE /\ clicks = 0 /\ moves = 0
    BY DEF Init
  <2>2. 0 \in 0..MaxClicks /\ 0 \in 0..MaxMoves
    BY WindowAssumption
  <2> QED
    BY <2>1, <2>2 DEF CountsTyped
<1>8. WaitsInv
  BY <1>4 DEF Init, WaitsInv, ChainHasItsBatch
<1> QED
  BY <1>1, <1>2, <1>3, <1>5, <1>6, <1>7, <1>8 DEF WindowInv

LEMMA Stuttering ==
  ASSUME WindowInv, WaitsInv, UNCHANGED vars
  PROVE  WindowInv' /\ WaitsInv'
<1>1. UNCHANGED <<ctl, shown, write, asks, relock, picking, closed, clicks>>
      /\ pad' = pad /\ reported' = reported /\ cmds' = cmds /\ evts' = evts /\ moves' = moves
  BY DEF vars, bus
<1>2. PadsTyped' /\ QueuesTyped' /\ moves' \in 0..MaxMoves
  BY <1>1 DEF WindowInv, PadsTyped, QueuesTyped, CountsTyped
<1> QED
  BY <1>1, <1>2, WorkerRest

LEMMA StepKeeps ==
  ASSUME WindowInv, WaitsInv, [Next]_vars
  PROVE  WindowInv' /\ WaitsInv'
BY HandleKeeps, WorkerKeeps, MoveKeeps, UserKeeps, Stuttering DEF Next

LEMMA AlwaysInv ==
  Spec => [](WindowInv /\ WaitsInv)
<1>1. Init => WindowInv /\ WaitsInv
  BY Starting
<1>2. WindowInv /\ WaitsInv /\ [Next]_vars => (WindowInv /\ WaitsInv)'
  BY StepKeeps
<1> QED
  BY <1>1, <1>2, PTL DEF Spec

\* Every variable of the window, the queues and the pads keeps its type: no handler reads
\* the batch, the review or the entry of a controller that is not there.
THEOREM TypeCorrect ==
  Spec => []TypeOK
<1>1. WindowInv => TypeOK
  BY DEF WindowInv, PadsTyped, QueuesTyped, ViewInv, CtlTyped, ShownTyped, GoodWrite, Shape,
         AsksTyped, RelockTyped, CountsTyped, TypeOK
<1> QED
  BY <1>1, AlwaysInv, PTL

LEMMA SomeUnderway ==
  ASSUME QueuesTyped, HasWrite(cmds) \/ HasWritten(evts)
  PROVE  Underway > 0
<1> DEFINE W == {i \in DOMAIN cmds : cmds[i].op = "write"}
           R == {i \in DOMAIN evts : evts[i].type = "written"}
<1>1. IsFiniteSet(DOMAIN cmds) /\ IsFiniteSet(DOMAIN evts)
  <2>1. DOMAIN cmds = 1..Len(cmds) /\ Len(cmds) \in Int /\ 1 \in Int
    BY DEF QueuesTyped
  <2>2. DOMAIN evts = 1..Len(evts) /\ Len(evts) \in Int
    BY DEF QueuesTyped
  <2> QED
    BY <2>1, <2>2, FS_Interval
<1>2. IsFiniteSet(W) /\ IsFiniteSet(R)
  BY <1>1, FS_Subset
<1>3. W # {} \/ R # {}
  BY DEF HasWrite, HasWritten
<1> HIDE DEF W, R
<1>4. Cardinality(W) \in Nat /\ Cardinality(R) \in Nat
      /\ (Cardinality(W) = 0 <=> W = {}) /\ (Cardinality(R) = 0 <=> R = {})
  BY <1>2, FS_CardinalityType, FS_EmptySet
<1>5. Underway = Cardinality(W) + Cardinality(R)
  BY DEF Underway, W, R
<1> QED
  BY <1>3, <1>4, <1>5

\* The write stage never waits for a write that nobody runs: while a batch, a chain or a
\* relock after it waits, its command or its event is on the way.
THEOREM WaitsHold ==
  Spec => []WaitsEndWithTheirWrite
<1>1. WindowInv /\ WaitsInv => WaitsEndWithTheirWrite
  BY SomeUnderway DEF WindowInv, WaitsInv, GoodWrite, WaitsEndWithTheirWrite, RunningIsOnItsWay
<1> QED
  BY <1>1, AlwaysInv, PTL

-------------------------------------------------------------------------------
\* A step that handles no event leaves as many of them.
LEMMA OnlyHandleTakes ==
  ASSUME WindowInv, [Next]_vars, Handled
  PROVE  Handle
<1>1. evts \in Seq(Event)
  BY DEF WindowInv, QueuesTyped
<1>2. ASSUME evts' = evts PROVE FALSE
  BY <1>1, <1>2 DEF Handled
<1>3. ASSUME NEW e, Emit(e) PROVE FALSE
  BY <1>1, <1>3 DEF Handled, Emit
<1>4. ~(UNCHANGED vars)
  BY <1>2 DEF vars
<1>5. ~User
  BY <1>2 DEF User
<1>6. ~\E p \in Port : Move(p)
  BY <1>2 DEF Move
<1>7. ~Worker
  <2>1. ~WorkRead
    BY <1>3 DEF WorkRead, Disconnected
  <2>2. ~WorkSteps
    BY <1>2, <1>3 DEF WorkSteps, Disconnected
  <2>3. ~WorkWrite
    BY <1>3 DEF WorkWrite
  <2>4. ~WorkRelock
    BY <1>3 DEF WorkRelock
  <2>5. ~\E p \in Port : Poll(p)
    BY <1>3 DEF Poll
  <2> QED
    BY <2>1, <2>2, <2>3, <2>4, <2>5 DEF Worker
<1> QED
  BY <1>4, <1>5, <1>6, <1>7 DEF Next

\* The edits of a controller whose entry changes to c.
LEMMA EntryKeeps ==
  ASSUME CtlTyped, NEW p \in Port, NEW c \in Controller, ctl' = [ctl EXCEPT ![p] = c],
         \A s \in Slot : unsaved(ctl[p], s) => c.edited[s] = ctl[p].edited[s],
         NEW q \in Port, ctl[q] # Nothing, NEW s \in Slot, unsaved(ctl[q], s)
  PROVE  ctl'[q] # Nothing /\ ctl'[q].edited[s] = ctl[q].edited[s]
<1>1. c # Nothing
  BY NothingIsNoRecord
<1> QED
  BY <1>1 DEF CtlTyped

LEMMA GoneEdits ==
  ASSUME CtlTyped, NEW p \in Port, ctl[p] # Nothing, NEW c \in Controller,
         c.edited = ctl[p].edited, c.pad = ctl[p].pad, Gone(p, c),
         NEW q \in Port, ctl[q] # Nothing, NEW s \in Slot, unsaved(ctl[q], s)
  PROVE  ctl'[q] # Nothing /\ ctl'[q].edited[s] = ctl[q].edited[s]
<1>1. CASE has_edits(c)
  BY <1>1, EntryKeeps DEF Gone
<1>2. CASE ~has_edits(c)
  <2>1. c # Nothing
    BY NothingIsNoRecord
  <2>2. ~unsaved(ctl[p], s)
    BY <1>2, <2>1 DEF has_edits, unsaved
  <2>3. ctl' = [ctl EXCEPT ![p] = Nothing]
    BY <1>2 DEF Gone, remove
  <2> QED
    BY <2>2, <2>3 DEF CtlTyped
<1> QED
  BY <1>1, <1>2

LEMMA HandleEdits ==
  ASSUME WindowInv, Handle, E.type # "written", ~(E.type = "relock" /\ E.ok),
         NEW q \in Port, ctl[q] # Nothing, NEW s \in Slot, unsaved(ctl[q], s)
  PROVE  ctl'[q] # Nothing /\ ctl'[q].edited[s] = ctl[q].edited[s]
<1>0. evts # <<>> /\ evts' = Tail(evts)
  BY DEF Handle, Takes, HandlePresent, HandleGone, HandleRead, HandleUnread, HandleForeign,
         HandleStepless, HandleWritten, HandleRelocked, HandleNotRelocked
<1>1. E \in Event /\ E.port \in Port /\ CtlTyped /\ ViewInv
  BY <1>0, TakesKeep DEF WindowInv, QueuesTyped, ViewInv
<1> DEFINE p == E.port
<1>2. CASE ctl' = ctl
  BY <1>2
<1>3. ctl[p] # Nothing => ctl[p] \in Controller
  BY <1>1 DEF CtlTyped
<1>4. CASE HandlePresent
  <2>1. CASE ctl[p] = Nothing
    <3>1. q # p /\ ctl'[q] = ctl[q]
      BY <1>1, <1>4, <2>1 DEF HandlePresent, CtlTyped
    <3> QED
      BY <3>1
  <2>2. CASE ctl[p] # Nothing
    <3> DEFINE c == [ctl[p] EXCEPT !.there = TRUE, !.reading = TRUE, !.read_error = FALSE]
    <3>1. c \in Controller /\ c.edited = ctl[p].edited
      BY <1>3, <2>2 DEF Controller
    <3>2. ctl' = [ctl EXCEPT ![p] = c]
      BY <1>1, <1>4, <2>2 DEF HandlePresent, CtlTyped
    <3> HIDE DEF c
    <3> QED
      BY <1>1, <3>1, <3>2, EntryKeeps
  <2> QED
    BY <2>1, <2>2
<1>5. CASE HandleGone
  <2>1. CASE ctl[p] = Nothing
    BY <1>2, <1>5, <2>1 DEF HandleGone
  <2>2. CASE ctl[p] # Nothing
    <3> DEFINE c == [ctl[p] EXCEPT !.there = FALSE, !.reading = FALSE, !.read_error = FALSE]
    <3>1. c \in Controller /\ c.edited = ctl[p].edited /\ c.pad = ctl[p].pad
      BY <1>3, <2>2 DEF Controller
    <3>2. Gone(p, c)
      BY <1>5, <2>2 DEF HandleGone
    <3> HIDE DEF c
    <3> QED
      BY <1>1, <2>2, <3>1, <3>2, GoneEdits
  <2> QED
    BY <2>1, <2>2
<1>6. CASE HandleRead
  <2>1. CASE ctl[p] = Nothing
    BY <1>2, <1>6, <2>1 DEF HandleRead
  <2>2. CASE ctl[p] # Nothing
    <3> DEFINE t == take_read(ctl[p], E.pad)
               c == [t EXCEPT !.reading = FALSE, !.read_error = FALSE, !.known = TRUE]
    <3>0. E.pad \in Contents
      BY <1>1, <1>6 DEF HandleRead, Takes, Event
    <3>1. t \in Controller /\ \A x \in Slot : unsaved(ctl[p], x) => t.edited[x] = ctl[p].edited[x]
      BY <1>3, <2>2, <3>0, TakesRead
    <3>2. ctl' = [ctl EXCEPT ![p] = c]
      BY <1>6, <2>2 DEF HandleRead, read_finished
    <3> HIDE DEF t
    <3>3. c \in Controller /\ c.edited = t.edited
      BY <3>1 DEF Controller
    <3> HIDE DEF c
    <3>4. \A x \in Slot : unsaved(ctl[p], x) => c.edited[x] = ctl[p].edited[x]
      BY <3>1, <3>3
    <3> HIDE DEF p
    <3> QED
      BY <1>1, <3>2, <3>3, <3>4, EntryKeeps DEF p
  <2> QED
    BY <2>1, <2>2
<1>7. CASE HandleUnread \/ HandleStepless
  <2>1. CASE ctl[p] = Nothing
    BY <1>2, <1>7, <2>1 DEF HandleUnread, HandleStepless
  <2>2. CASE ctl[p] # Nothing
    <3>1. PICK error \in BOOLEAN :
            ctl' = [ctl EXCEPT ![p].reading = FALSE, ![p].read_error = error]
      <4>1. CASE HandleStepless
        BY <2>2, <4>1 DEF HandleStepless
      <4>2. CASE HandleUnread
        <5>1. PICK error \in BOOLEAN :
                ctl' = [ctl EXCEPT ![p].reading = FALSE, ![p].read_error = @ \/ error]
          BY <2>2, <4>2 DEF HandleUnread
        <5> DEFINE e == ctl[p].read_error \/ error
        <5>2. e \in BOOLEAN
          OBVIOUS
        <5>3. ctl' = [ctl EXCEPT ![p].reading = FALSE, ![p].read_error = e]
          BY <1>1, <1>3, <2>2, <5>1 DEF CtlTyped, Controller
        <5> HIDE DEF e
        <5> QED
          BY <5>2, <5>3
      <4> QED
        BY <1>7, <4>1, <4>2
    <3> DEFINE c == [ctl[p] EXCEPT !.reading = FALSE, !.read_error = error]
    <3>2. c \in Controller /\ c.edited = ctl[p].edited
      BY <1>3, <2>2 DEF Controller
    <3>3. ctl' = [ctl EXCEPT ![p] = c]
      BY <1>1, <1>3, <2>2, <3>1 DEF CtlTyped, Controller
    <3> HIDE DEF c
    <3> QED
      BY <1>1, <3>2, <3>3, EntryKeeps
  <2> QED
    BY <2>1, <2>2
<1>8. CASE HandleForeign
  <2>1. CASE ctl[p] = Nothing
    BY <1>2, <1>8, <2>1 DEF HandleForeign
  <2>2. CASE ctl[p] # Nothing
    <3> DEFINE c == [ctl[p] EXCEPT !.there = FALSE, !.reading = FALSE]
    <3>1. c \in Controller /\ c.edited = ctl[p].edited /\ c.pad = ctl[p].pad
      BY <1>3, <2>2 DEF Controller
    <3>2. Gone(p, c)
      BY <1>8, <2>2 DEF HandleForeign
    <3> HIDE DEF c
    <3> QED
      BY <1>1, <2>2, <3>1, <3>2, GoneEdits
  <2> QED
    BY <2>1, <2>2
<1>9. CASE HandleNotRelocked
  BY <1>2, <1>9 DEF HandleNotRelocked
<1>10. ~HandleWritten /\ ~HandleRelocked
  BY DEF HandleWritten, HandleRelocked, Takes
<1> QED
  BY <1>4, <1>5, <1>6, <1>7, <1>8, <1>9, <1>10 DEF Handle

\* Only a write that was done, a finished relock or the user takes an edit away: no other
\* event the worker posts does, whatever it reports of the pads.
THEOREM EditsStayHolds ==
  Spec => EditsStay
<1>1. WindowInv /\ [Next]_vars =>
        [Handled /\ E.type # "written" /\ ~(E.type = "relock" /\ E.ok) =>
           \A p \in Port : ctl[p] # Nothing => \A s \in Slot : unsaved(ctl[p], s) =>
             ctl'[p] # Nothing /\ ctl'[p].edited[s] = ctl[p].edited[s]]_vars
  BY OnlyHandleTakes, HandleEdits
<1> QED
  BY <1>1, AlwaysInv, PTL DEF Spec, EditsStay

-------------------------------------------------------------------------------
\* A question that stands is on top.
LEMMA DialogsAre ==
  /\ DOMAIN Dialogs = 1..12 /\ Dialogs[11] = "relock" /\ Dialogs[12] = "close"
  /\ Dialogs[1] = "import" /\ Dialogs[2] = "changed" /\ Dialogs[3] = "move"
  /\ Dialogs[4] = "review" /\ Dialogs[5] = "clear" /\ Dialogs[6] = "failed"
  /\ Dialogs[7] = "batch_review" /\ Dialogs[8] = "batch_failed"
BY DEF Dialogs

LEMMA AskedShows ==
  ASSUME QuestionsStand
  PROVE  (asks.close => Shows("close")) /\ (asks.relock => Shows("relock"))
<1>1. Shows("close") = (asks.close /\ \E p \in listed(Now) : has_edits(ctl[p]))
  BY DEF Shows
<1>2. Shows("relock") = (asks.relock /\ edited_slots(Now) # {})
  BY DEF Shows
<1> QED
  BY <1>1, <1>2 DEF QuestionsStand

LEMMA NothingAsked ==
  ASSUME QuestionsStand,
         \/ Free
         \/ \E d \in {"import", "changed", "move", "review", "clear", "failed", "batch_review",
                      "batch_failed"} : Answers(d)
  PROVE  ~asks.close /\ ~asks.relock
<1>1. CASE Free
  <2>1. ~Shows(Dialogs[11]) /\ ~Shows(Dialogs[12])
    BY <1>1, DialogsAre DEF Free
  <2> QED
    BY <2>1, AskedShows, DialogsAre
<1>2. CASE \E d \in {"import", "changed", "move", "review", "clear", "failed", "batch_review",
                     "batch_failed"} : Answers(d)
  <2>1. PICK i \in 1..8 : Answers(Dialogs[i])
    BY <1>2, DialogsAre
  <2>2. i \in DOMAIN Dialogs /\ 11 \in DOMAIN Dialogs /\ 12 \in DOMAIN Dialogs
        /\ i < 11 /\ i < 12
    BY DialogsAre
  <2>3. ~Shows(Dialogs[11]) /\ ~Shows(Dialogs[12])
    BY <2>1, <2>2 DEF Answers
  <2> QED
    BY <2>3, AskedShows, DialogsAre
<1> QED
  BY <1>1, <1>2

LEMMA RelockOnTop ==
  ASSUME QuestionsStand, Answers("relock")
  PROVE  ~asks.close
<1>1. 11 \in DOMAIN Dialogs /\ 12 \in DOMAIN Dialogs /\ 11 < 12
  BY DialogsAre
<1>2. ~Shows(Dialogs[12])
  BY <1>1, DialogsAre DEF Answers
<1> QED
  BY <1>2, AskedShows, DialogsAre

\* Edits are of a controller that was read.
LEMMA EditedAreListed ==
  ASSUME EditsKnown, NEW p \in Port, has_edits(ctl[p])
  PROVE  p \in listed(Now)
BY ListedIs DEF EditsKnown, has_edits, unsaved

LEMMA HandleQuestions ==
  ASSUME WindowInv, WindowInv', QuestionsStand, Handle
  PROVE  QuestionsStand'
<1>1. ~closed /\ closed' = closed
  BY DEF Handle, Takes, HandlePresent, HandleGone, HandleRead, HandleUnread, HandleForeign,
         HandleStepless, HandleWritten, HandleRelocked, HandleNotRelocked
<1>2. EditsKnown' /\ AsksTyped
  BY DEF WindowInv, ViewInv
<1>3. \A p \in Port : has_edits(ctl'[p]) => p \in listed(Now)'
  BY <1>2 DEF EditsKnown, has_edits, unsaved, listed, Now
<1>4. CASE Settle
  <2>1. asks'.close => write'.running = Nothing /\ \E p \in Port : has_edits(ctl'[p])
    BY <1>2, <1>4 DEF Settle, AsksTyped
  <2>2. asks'.relock => edited_slots(Now)' # {}
    BY <1>2, <1>4, ThenIsNow DEF Settle, AsksTyped
  <2> QED
    BY <1>1, <1>3, <2>1, <2>2 DEF QuestionsStand
<1>5. CASE HandleRelocked \/ HandleNotRelocked
  <2>1. write' = write /\ ~asks'.relock
        /\ (asks'.close => write.running = Nothing /\ \E p \in Port : has_edits(ctl'[p]))
    BY <1>2, <1>5 DEF HandleRelocked, HandleNotRelocked, AsksTyped
  <2> QED
    BY <1>1, <1>3, <2>1 DEF QuestionsStand
<1> QED
  BY <1>4, <1>5 DEF Handle, HandlePresent, HandleGone, HandleRead, HandleUnread, HandleForeign,
     HandleStepless, HandleWritten

\* Edits that stay keep the questions about them.
LEMMA EditsKeep ==
  ASSUME listed(Then) = listed(Now), active_port' = active_port,
         \A q \in listed(Now), s \in Slot : unsaved(ctl[q], s) => unsaved(ctl'[q], s),
         \A q \in listed(Now) : ctl[q] # Nothing /\ ctl'[q] # Nothing
  PROVE  /\ edited_slots(Now) # {} => edited_slots(Now)' # {}
         /\ (\E p \in listed(Now) : has_edits(ctl[p])) =>
              (\E p \in listed(Now)' : has_edits(ctl[p]'))
<1>1. active(Then) = active(Now)
  <2>1. Now.active = active_port /\ Then.active = active_port'
    BY DEF Now, Then
  <2>2. active(Now) = IF active_port \in listed(Now) THEN active_port
                       ELSE IF listed(Now) = {} THEN Nothing ELSE CHOOSE p \in listed(Now) : TRUE
    BY <2>1 DEF active
  <2>3. active(Then) = IF active_port' \in listed(Then) THEN active_port'
                       ELSE IF listed(Then) = {} THEN Nothing ELSE CHOOSE p \in listed(Then) : TRUE
    BY <2>1 DEF active
  <2> QED
    BY <2>2, <2>3
<1>2. ASSUME edited_slots(Now) # {} PROVE edited_slots(Then) # {}
  <2>1. active(Now) # Nothing /\ active(Now) \in listed(Now)
    BY <1>2, ActiveOf DEF edited_slots
  <2>2. PICK s \in Slot : unsaved(ctl[active(Now)], s)
    BY <1>2 DEF edited_slots, Of, Now
  <2>3. unsaved(ctl'[active(Then)], s)
    BY <1>1, <2>1, <2>2
  <2> QED
    BY <1>1, <2>1, <2>3 DEF edited_slots, Of, Then
<1>3. ASSUME NEW p \in listed(Now), has_edits(ctl[p]) PROVE has_edits(ctl'[p])
  BY <1>3 DEF has_edits
<1> QED
  BY <1>2, <1>3, ThenIsNow

\* The entry of one listed controller gets an edit, or none is lost otherwise.
LEMMA QuietQuestions ==
  ASSUME ~asks.close, ~asks.relock, asks'.close = asks.close, asks'.relock = asks.relock,
         ~closed, closed' = closed
  PROVE  QuestionsStand'
BY DEF QuestionsStand

LEMMA FreeQuestions ==
  ASSUME WindowInv, QuestionsStand, ~closed, Free,
         \/ \E v \in Value : Edit(v)
         \/ discard \/ begin_review \/ WriteAll \/ begin_clear \/ TryAgain
         \/ \E s \in Slot : select(s)
         \/ \E p \in Port : pick_controller(p)
         \/ relock_clicked \/ import_file
  PROVE  QuestionsStand'
<1>1. ~asks.close /\ ~asks.relock
  BY NothingAsked
<1>2. AsksTyped
  BY DEF WindowInv
<1>3. CASE relock_clicked
  <2>1. UNCHANGED <<ctl, shown, write, closed>> /\ asks'.close = asks.close
        /\ (asks'.relock => edited_slots(Now) # {})
    BY <1>2, <1>3 DEF relock_clicked, AsksTyped
  <2>2. edited_slots(Now)' = edited_slots(Now)
    <3>1. Then = Now
      BY <2>1 DEF Then, Now, shown
    <3> QED
      BY <3>1, ThenIsNow
  <2> QED
    BY <1>1, <2>1, <2>2 DEF QuestionsStand
<1>4. CASE ~relock_clicked
  <2>1. closed' = closed /\ asks'.close = asks.close /\ asks'.relock = asks.relock
    BY <1>2, <1>4 DEF Edit, discard, begin_review, WriteAll, begin_clear, TryAgain, select,
                      pick_controller, import_file, AsksTyped
  <2> QED
    BY <1>1, <2>1, QuietQuestions
<1> QED
  BY <1>3, <1>4

LEMMA AnswerQuestions ==
  ASSUME WindowInv, QuestionsStand, ~closed,
         AnswerImport \/ (\E keep \in SUBSET Slot : apply_changed(keep)) \/ answer_move
         \/ AnswerWrite
  PROVE  QuestionsStand'
<1>1. ~asks.close /\ ~asks.relock
  BY NothingAsked DEF AnswerImport, apply_changed, answer_move, AnswerWrite
<1>2. closed' = closed /\ asks'.close = asks.close /\ asks'.relock = asks.relock
  BY DEF AnswerImport, apply_changed, answer_move, AnswerWrite, WindowInv, AsksTyped
<1> QED
  BY <1>1, <1>2, QuietQuestions

\* A file that lands over a question replaces no edit.
LEMMA FileQuestions ==
  ASSUME WindowInv, QuestionsStand, ~closed, UNCHANGED evts, FileLands
  PROVE  QuestionsStand'
<1>1. closed' = closed /\ picking \in Slot
  BY DEF FileLands, WindowInv, CountsTyped
<1>2. asks'.close = asks.close /\ asks'.relock = asks.relock
  BY DEF FileLands, WindowInv, AsksTyped
<1>3. CASE UNCHANGED <<ctl, shown, write>>
  <2>1. Then = Now
    BY <1>3 DEF Then, Now, shown
  <2> QED
    BY <1>1, <1>2, <1>3, <2>1, ThenIsNow DEF QuestionsStand
<1>4. CASE ~UNCHANGED <<ctl, shown, write>>
  <2>1. PICK v \in Value : picking \notin edited_slots(Now) /\ apply_import(picking, v)
    BY <1>4 DEF FileLands
  <2> DEFINE p == active(Now)
             c == [ctl[p] EXCEPT !.edited[picking] = v]
  <2>2. /\ p # Nothing /\ ctl' = [ctl EXCEPT ![p].edited[picking] = v]
        /\ selected' = picking /\ write' = Selecting(picking)
        /\ UNCHANGED <<active_port, pending_move>>
    BY <1>4, <2>1 DEF apply_import
  <2>3. ViewInv /\ GoodWrite(write) /\ CtlTyped
    BY DEF WindowInv, ViewInv
  <2>4. p \in Port /\ ctl[p] \in Controller /\ ctl[p] # Nothing /\ ctl[p].known
        /\ Of(Now) = ctl[p]
    BY <2>2, <2>3, ActivePart
  <2>5. ctl' = [ctl EXCEPT ![p] = c]
    BY <2>2, <2>3, <2>4 DEF CtlTyped, Controller
  <2>6. /\ c \in Controller /\ c.known /\ c.pad = ctl[p].pad
        /\ \A s \in Slot : s # picking => c.edited[s] = ctl[p].edited[s]
    BY <1>1, <2>4 DEF Controller, Contents, Held
  <2>7. ~unsaved(ctl[p], picking)
    BY <1>1, <2>1, <2>2, <2>4 DEF edited_slots
  <2>8. write'.running = write.running
    BY <2>2, <2>3, SelectingKeeps
  <2>9. \A s \in Slot : unsaved(ctl[p], s) => unsaved(c, s)
    BY <2>6, <2>7 DEF unsaved
  <2> HIDE DEF p, c
  <2>10. listed(Then) = listed(Now)
    BY <1>1, <2>2, <2>3, <2>4, <2>5, <2>6, OneEdits
  <2>11. c # Nothing
    BY <2>6, NothingIsNoRecord
  <2>12. \A q \in listed(Now) : q \in Port /\ ctl[q] # Nothing
    BY ListedIs
  <2>13. ctl'[p] = c /\ \A q \in Port : q # p => ctl'[q] = ctl[q]
    BY <2>3, <2>4, <2>5 DEF CtlTyped
  <2>14. \A q \in listed(Now) : ctl[q] # Nothing /\ ctl'[q] # Nothing
    BY <2>11, <2>12, <2>13
  <2>15. \A q \in listed(Now), s \in Slot : unsaved(ctl[q], s) => unsaved(ctl'[q], s)
    BY <2>9, <2>12, <2>13
  <2>16. /\ edited_slots(Now) # {} => edited_slots(Now)' # {}
         /\ (\E q \in listed(Now) : has_edits(ctl[q])) =>
              (\E q \in listed(Now)' : has_edits(ctl[q]'))
    BY <2>2, <2>10, <2>14, <2>15, EditsKeep
  <2> QED
    BY <1>1, <1>2, <2>8, <2>16 DEF QuestionsStand
<1> QED
  BY <1>3, <1>4

LEMMA CloseQuestions ==
  ASSUME WindowInv, QuestionsStand, ~closed, close_requested
  PROVE  QuestionsStand'
<1> DEFINE asked == write.running = Nothing /\ \E p \in Port : has_edits(ctl[p])
<1>1. UNCHANGED <<ctl, shown, write>> /\ asks' = [asks EXCEPT !.close = asked]
      /\ closed' = (write.running = Nothing /\ ~asked)
  BY DEF close_requested
<1>2. Then = Now
  BY <1>1 DEF Then, Now, shown
<1>3. asks'.close = asked /\ asks'.relock = asks.relock
  BY <1>1 DEF WindowInv, AsksTyped
<1>4. asked => \E p \in listed(Now) : has_edits(ctl[p])
  BY EditedAreListed DEF WindowInv, ViewInv
<1> HIDE DEF asked
<1>5. asked => write.running = Nothing
  BY DEF asked
<1> QED
  BY <1>1, <1>2, <1>3, <1>4, <1>5, ThenIsNow DEF QuestionsStand

\* A read that starts changes no edit.
LEMMA ReadsKeepEdits ==
  ASSUME WindowInv, NEW p \in Port, ctl[p] # Nothing, Reads(p), UNCHANGED shown
  PROVE  /\ edited_slots(Now) # {} => edited_slots(Now)' # {}
         /\ (\E q \in listed(Now) : has_edits(ctl[q])) =>
              (\E q \in listed(Now)' : has_edits(ctl[q]'))
<1> DEFINE c == [ctl[p] EXCEPT !.reading = TRUE]
<1>1. ViewInv /\ CtlTyped /\ ctl[p] \in Controller
  BY DEF WindowInv, ViewInv, CtlTyped
<1>2. c \in Controller /\ c.known = ctl[p].known /\ c.edited = ctl[p].edited
      /\ c.pad = ctl[p].pad
  BY <1>1 DEF Controller
<1>3. ctl' = [ctl EXCEPT ![p] = c]
  BY <1>1 DEF Reads, CtlTyped, Controller
<1>4. ~c.known => \A s \in Slot : c.edited[s] = Nothing
  BY <1>1, <1>2 DEF ViewInv, EditsKnown
<1> HIDE DEF c
<1>5. listed(Then) = listed(Now)
  BY <1>1, <1>2, <1>3, <1>4, OneChanges
<1>6. c # Nothing
  BY <1>2, NothingIsNoRecord
<1>7. ctl'[p] = c /\ \A q \in Port : q # p => ctl'[q] = ctl[q]
  BY <1>1, <1>3 DEF CtlTyped
<1>8. \A q \in listed(Now) : q \in Port /\ ctl[q] # Nothing
  BY ListedIs
<1>9. \A s \in Slot : unsaved(ctl[p], s) => unsaved(c, s)
  BY <1>2 DEF unsaved
<1>10. \A q \in listed(Now) : ctl[q] # Nothing /\ ctl'[q] # Nothing
  BY <1>6, <1>7, <1>8
<1>11. \A q \in listed(Now), s \in Slot : unsaved(ctl[q], s) => unsaved(ctl'[q], s)
  BY <1>7, <1>8, <1>9
<1>12. active_port' = active_port
  BY DEF shown
<1> QED
  BY <1>5, <1>10, <1>11, <1>12, EditsKeep

\* The last two questions.
LEMMA LastQuestions ==
  ASSUME WindowInv, QuestionsStand, ~closed, AnswerRelock \/ AnswerClose
  PROVE  QuestionsStand'
<1>1. CASE AnswerRelock
  <2>1. ~asks.close
    BY <1>1, RelockOnTop DEF AnswerRelock
  <2>2. closed' = closed /\ asks'.close = asks.close /\ ~asks'.relock
    BY <1>1 DEF AnswerRelock, WindowInv, AsksTyped
  <2> QED
    BY <2>1, <2>2 DEF QuestionsStand
<1>2. CASE AnswerClose
  <2>1. asks.close /\ UNCHANGED shown
    BY <1>2 DEF AnswerClose, Answers, Shows
  <2>2. CASE UNCHANGED <<ctl, write, asks>>
    <3>1. Then = Now
      BY <2>1, <2>2 DEF Then, Now, shown
    <3> QED
      BY <2>1, <2>2, <3>1, ThenIsNow DEF QuestionsStand
  <2>3. CASE asks' = [asks EXCEPT !.close = FALSE] /\ UNCHANGED closed
    <3>1. ~asks'.close /\ asks'.relock = asks.relock
      BY <2>3 DEF WindowInv, AsksTyped
    <3>2. edited_slots(Now) # {} => edited_slots(Now)' # {}
      <4>1. CASE UNCHANGED ctl
        <5>1. Then = Now
          BY <2>1, <4>1 DEF Then, Now, shown
        <5> QED
          BY <5>1, ThenIsNow
      <4>2. CASE can_write_before_close /\ begin_batch
        <5>1. active(Now) # Nothing /\ Reads(active(Now))
          BY <4>2 DEF can_write_before_close, can_write_all, idle, begin_batch
        <5>2. active(Now) \in Port /\ ctl[active(Now)] # Nothing
          BY <5>1, ActivePart DEF WindowInv
        <5> QED
          BY <2>1, <5>1, <5>2, ReadsKeepEdits
      <4> QED
        BY <1>2, <2>3, <4>1, <4>2 DEF AnswerClose
    <3> QED
      BY <2>3, <3>1, <3>2 DEF QuestionsStand
  <2> QED
    BY <1>2, <2>2, <2>3 DEF AnswerClose
<1> QED
  BY <1>1, <1>2

LEMMA StepQuestions ==
  ASSUME WindowInv, WindowInv', QuestionsStand, [Next]_vars
  PROVE  QuestionsStand'
<1>1. CASE Handle
  BY <1>1, HandleQuestions
<1>2. CASE UNCHANGED <<ctl, shown, write, asks, closed>>
  <2>1. Then = Now
    BY <1>2 DEF Then, Now, shown
  <2> QED
    BY <1>2, <2>1, ThenIsNow DEF QuestionsStand
<1>3. CASE User
  BY <1>3, FreeQuestions, AnswerQuestions, FileQuestions, CloseQuestions, LastQuestions DEF User
<1>4. Worker \/ (\E p \in Port : Move(p)) \/ UNCHANGED vars =>
        UNCHANGED <<ctl, shown, write, asks, closed>>
  BY DEF Worker, Move, vars
<1> QED
  BY <1>1, <1>2, <1>3, <1>4 DEF Next

\* The questions the window shows are about what is there: a relock or a close asks about
\* edits some controller has, and the window neither asks to close nor closes while a write
\* runs.
THEOREM QuestionsHold ==
  Spec => []QuestionsStand
<1>1. Init => QuestionsStand
  BY DEF Init, QuestionsStand, Idle
<1>2. WindowInv /\ WindowInv' /\ QuestionsStand /\ [Next]_vars => QuestionsStand'
  BY StepQuestions
<1>3. Spec => []WindowInv
  BY AlwaysInv, PTL
<1> QED
  BY <1>1, <1>2, <1>3, PTL DEF Spec

-------------------------------------------------------------------------------
(*****************************************************************************)
(* AppState::write: one of its stages stands at a time, and what drops a    *)
(* stage or takes a read keeps it so.                                       *)
(*****************************************************************************)
\* One of the window's own stages stands at a time, and a run stands over none of them
\* but its batch.
Alone(w) ==
  /\ w.reading_for # Nothing =>
       w.review = Nothing /\ w.clearing = Nothing /\ w.failed = Nothing /\ w.batch = Nothing
  /\ w.review # Nothing => w.clearing = Nothing /\ w.failed = Nothing /\ w.batch = Nothing
  /\ w.clearing # Nothing => w.failed = Nothing /\ w.batch = Nothing
  /\ w.failed # Nothing => w.batch = Nothing
  /\ w.running # Nothing =>
       /\ w.reading_for = Nothing /\ w.review = Nothing /\ w.clearing = Nothing
       /\ w.failed = Nothing /\ (w.batch # Nothing => w.batch.stage = "running")

\* What waits for a read of p.
Waiting(w, p) == WaitsFor(w, p) \/ (AtStage(w, {"reading"}) /\ w.batch.port = p)

\* x is w with stages dropped.
Less(w, x) ==
  /\ x.reading_for \in {w.reading_for, Nothing} /\ x.review \in {w.review, Nothing}
  /\ x.clearing \in {w.clearing, Nothing} /\ x.failed \in {w.failed, Nothing}
  /\ x.batch \in {w.batch, Nothing} /\ x.running = w.running

LEMMA LessAlone ==
  ASSUME NEW w, NEW x, Less(w, x)
  PROVE  /\ Alone(w) => Alone(x)
         /\ \A p : Waiting(x, p) => Waiting(w, p)
<1>1. Alone(w) => Alone(x)
  BY DEF Less, Alone
<1>2. ASSUME NEW p, Waiting(x, p) PROVE Waiting(w, p)
  <2>1. CASE WaitsFor(x, p)
    BY <2>1 DEF Less, Waiting, WaitsFor
  <2>2. CASE AtStage(x, {"reading"}) /\ x.batch.port = p
    BY <2>2 DEF Less, Waiting, AtStage
  <2> QED
    BY <1>2, <2>1, <2>2 DEF Waiting
<1> QED
  BY <1>1, <1>2

LEMMA LessTwice ==
  ASSUME NEW w, NEW x, NEW y, Less(w, x), Less(x, y)
  PROVE  Less(w, y)
BY DEF Less

LEMMA Drops ==
  ASSUME NEW w \in WriteState
  PROVE  /\ Less(w, w)
         /\ Less(w, [w EXCEPT !.reading_for = Nothing])
         /\ Less(w, [w EXCEPT !.review = Nothing])
         /\ Less(w, [w EXCEPT !.clearing = Nothing])
         /\ Less(w, [w EXCEPT !.failed = Nothing])
         /\ Less(w, [w EXCEPT !.batch = Nothing])
         /\ \A v : Less(w, settle_review(v, w)) /\ Less(w, settle_batch(v, w))
         /\ Less(w, drop_waiting_batch(w))
<1>1. Less(w, w)
  BY DEF Less
<1>2. /\ Less(w, [w EXCEPT !.reading_for = Nothing])
      /\ Less(w, [w EXCEPT !.review = Nothing])
      /\ Less(w, [w EXCEPT !.clearing = Nothing])
      /\ Less(w, [w EXCEPT !.failed = Nothing])
      /\ Less(w, [w EXCEPT !.batch = Nothing])
  BY DEF Less, WriteState
<1>3. \A v : Less(w, settle_review(v, w)) /\ Less(w, settle_batch(v, w))
  BY <1>1, <1>2, Zenon DEF settle_review, settle_batch
<1>4. Less(w, drop_waiting_batch(w))
  BY <1>1, <1>2, Zenon DEF drop_waiting_batch
<1> QED
  BY <1>1, <1>2, <1>3, <1>4

\* The batch of x is past the read of p its w waited for.
Reached(w, x, p) ==
  /\ Alone(x) /\ x.running = w.running /\ x.failed = w.failed /\ x.reading_for = w.reading_for
  /\ (AtStage(x, {"running", "failed"}) => x.batch = w.batch)
  /\ ~(AtStage(x, {"reading"}) /\ x.batch.port = p)
  /\ \A q : Waiting(x, q) => Waiting(w, q)

\* A read that came reaches what waited for it, once.
LEMMA ReadReaches ==
  ASSUME NEW v, NEW w, GoodWrite(w), Alone(w), NEW p
  PROVE  Reached(w, batch_read(v, w, p, TRUE), p)
<1>0. w \in WriteState
  BY DEF GoodWrite
<1>1. CASE ~(AtStage(w, {"reading"}) /\ w.batch.port = p)
  <2>1. batch_read(v, w, p, TRUE) = w
    BY <1>1 DEF batch_read
  <2>2. Reached(w, w, p)
    BY <1>1 DEF Reached
  <2> QED
    BY <2>1, <2>2
<1>2. CASE AtStage(w, {"reading"}) /\ w.batch.port = p
  <2> DEFINE b == [w.batch EXCEPT !.stage = "review"]
             y == [w EXCEPT !.batch.stage = "review"]
             x == batch_read(v, w, p, TRUE)
  <2>1. w.batch \in Batch /\ w.batch.stage = "reading" /\ w.batch # Nothing
    BY <1>0, <1>2 DEF AtStage, WriteState
  <2>2. b \in Batch /\ b.stage = "review"
    BY <2>1 DEF Batch, Stage
  <2>3. y = [w EXCEPT !.batch = b]
    BY <1>0 DEF WriteState
  <2>4. x = settle_batch(v, y)
    BY <1>2 DEF batch_read
  <2>5. b # Nothing
    BY <2>2, NothingIsNoRecord
  <2> HIDE DEF b, y, x
  <2>6. /\ y \in WriteState /\ y.batch = b /\ y.running = w.running /\ y.reading_for = w.reading_for
        /\ y.review = w.review /\ y.clearing = w.clearing /\ y.failed = w.failed
    BY <1>0, <2>2, <2>3, NewBatch
  <2>7. x.batch \in {b, Nothing} /\ x.running = w.running /\ x.reading_for = w.reading_for
        /\ x.review = w.review /\ x.clearing = w.clearing /\ x.failed = w.failed
    <3>1. CASE x = y
      BY <2>6, <3>1
    <3>2. CASE x = [y EXCEPT !.batch = Nothing]
      BY <2>6, <3>2, NewBatch
    <3> QED
      BY <2>4, <3>1, <3>2 DEF settle_batch
  <2>8. w.reading_for = Nothing /\ w.running = Nothing
    BY <2>1 DEF Alone
  <2>9. Alone(x)
    BY <2>1, <2>7, <2>8 DEF Alone
  <2>10. ~AtStage(x, {"running", "failed"}) /\ ~AtStage(x, {"reading"})
    BY <2>2, <2>7 DEF AtStage
  <2>11. \A q : ~Waiting(x, q)
    BY <2>7, <2>8, <2>10 DEF Waiting, WaitsFor
  <2> QED
    BY <2>1, <2>7, <2>9, <2>10, <2>11 DEF x, Reached
<1> QED
  BY <1>1, <1>2

\* What waited for the read of p is open in x.
Opened(w, x, p) ==
  /\ Alone(x) /\ x.running = w.running /\ x.failed = w.failed
  /\ (AtStage(x, {"running", "failed"}) => x.batch = w.batch)
  /\ ~Waiting(x, p)

LEMMA ReadOpens ==
  ASSUME NEW v, NEW w, GoodWrite(w), Alone(w), NEW p
  PROVE  Opened(w, review_read(v, w, p, TRUE), p)
<1> DEFINE b == batch_read(v, w, p, TRUE)
           x == review_read(v, w, p, TRUE)
<1>1. Reached(w, b, p)
  BY ReadReaches
<1>2. x = IF ~WaitsFor(b, p) THEN b
          ELSE [b EXCEPT !.reading_for = Nothing, !.review = b.reading_for]
  BY DEF review_read
<1>3. GoodWrite(b)
  BY ReadsBatch
<1> HIDE DEF b, x
<1>4. b \in WriteState
  BY <1>3 DEF GoodWrite
<1>7. /\ Alone(b) /\ b.running = w.running /\ b.failed = w.failed
      /\ (AtStage(b, {"running", "failed"}) => b.batch = w.batch)
      /\ ~(AtStage(b, {"reading"}) /\ b.batch.port = p)
      /\ \A q : Waiting(b, q) => Waiting(w, q)
  BY <1>1 DEF Reached
<1>5. CASE ~WaitsFor(b, p)
  <2>1. x = b /\ ~Waiting(b, p)
    BY <1>2, <1>5, <1>7 DEF Waiting
  <2> QED
    BY <1>7, <2>1 DEF x, Opened
<1>6. CASE WaitsFor(b, p)
  <2>1. b.reading_for # Nothing
    BY <1>6 DEF WaitsFor
  <2>2. /\ x.reading_for = Nothing /\ x.review = b.reading_for /\ x.clearing = b.clearing
        /\ x.failed = b.failed /\ x.batch = b.batch /\ x.running = b.running
    BY <1>2, <1>4, <1>6 DEF WriteState
  <2>3. b.batch = Nothing /\ b.running = Nothing
    BY <1>7, <2>1 DEF Alone
  <2>4. Alone(x)
    BY <1>7, <2>1, <2>2, <2>3 DEF Alone
  <2>5. \A q : ~Waiting(x, q)
    BY <2>2, <2>3 DEF Waiting, WaitsFor, AtStage
  <2>6. ~AtStage(x, {"running", "failed"})
    BY <2>2, <2>3 DEF AtStage
  <2> QED
    BY <1>7, <2>2, <2>4, <2>5, <2>6 DEF x, Opened
<1> QED
  BY <1>5, <1>6

\* A read that failed takes down what waited for it.
LEMMA ReadDrops ==
  ASSUME NEW v, NEW w \in WriteState, NEW p
  PROVE  LET x == review_read(v, w, p, FALSE) IN Less(w, x) /\ ~Waiting(x, p)
<1> DEFINE b == batch_read(v, w, p, FALSE)
           x == review_read(v, w, p, FALSE)
<1>1. b = IF AtStage(w, {"reading"}) /\ w.batch.port = p THEN [w EXCEPT !.batch = Nothing] ELSE w
  BY DEF batch_read
<1>2. x = IF ~WaitsFor(b, p) THEN b
          ELSE [b EXCEPT !.reading_for = Nothing, !.review = b.review]
  BY DEF review_read
<1> HIDE DEF b, x
<1>3. Less(w, b) /\ b \in WriteState
  <2>1. [w EXCEPT !.batch = Nothing] \in WriteState
    BY NewBatch
  <2> QED
    BY <1>1, <2>1, Drops
<1>4. ~(AtStage(b, {"reading"}) /\ b.batch.port = p)
  <2>1. [w EXCEPT !.batch = Nothing].batch = Nothing
    BY NewBatch
  <2> QED
    BY <1>1, <2>1 DEF AtStage
<1>5. CASE ~WaitsFor(b, p)
  BY <1>2, <1>3, <1>4, <1>5 DEF x, Waiting
<1>6. CASE WaitsFor(b, p)
  <2>1. x = [b EXCEPT !.reading_for = Nothing]
    BY <1>2, <1>3, <1>6 DEF WriteState
  <2>2. Less(b, x) /\ x.reading_for = Nothing /\ x.batch = b.batch
    BY <1>3, <2>1 DEF WriteState, Less
  <2>3. Less(w, x) /\ ~Waiting(x, p)
    BY <1>3, <1>4, <2>2, LessTwice DEF Waiting, WaitsFor, AtStage
  <2> QED
    BY <2>3 DEF x
<1> QED
  BY <1>5, <1>6

-------------------------------------------------------------------------------
(*****************************************************************************)
(* The jobs of a write and the edits they were made of.                     *)
(*****************************************************************************)
\* A write of job into p stores what the controllers c hold as an edit, or clears its slot.
Fits(c, p, job) ==
  job.value = Nothing \/ c[p] = Nothing \/ c[p].edited[job.slot] \in {Nothing, job.value}
AllFit(c, p, jobs) == \A i \in DOMAIN jobs : Fits(c, p, jobs[i])

\* Every write that runs, failed or would be tried again fits.
Matches(w, c) ==
  /\ w.running # Nothing => AllFit(c, w.running.port, w.running.jobs)
  /\ w.failed # Nothing => Fits(c, w.failed.port, w.failed.job)
  /\ AtStage(w, {"running", "failed"}) => AllFit(c, w.batch.port, w.batch.jobs)

\* A run begins: w sends nothing yet, x runs.
Began(w, x) == w.running = Nothing /\ x.running # Nothing /\ Alone(x)

LEMMA Begins ==
  ASSUME NEW w, w.running = Nothing,
         NEW y \in WriteState, y.reading_for = Nothing, y.review = Nothing, y.clearing = Nothing,
         y.failed = Nothing, y.batch # Nothing => y.batch.stage = "running",
         NEW p \in Port, NEW jobs \in Seq(WriteJob), NEW c, AllFit(c, p, jobs),
         y.batch # Nothing => AllFit(c, y.batch.port, y.batch.jobs)
  PROVE  LET x == start(y, p, jobs) IN Began(w, x) /\ Matches(x, c)
<1> DEFINE r == [port |-> p, jobs |-> jobs]
           x == start(y, p, jobs)
<1>1. r \in [port: Port, jobs: Seq(WriteJob)] /\ r.port = p /\ r.jobs = jobs
  OBVIOUS
<1>2. r # Nothing
  BY <1>1, NothingIsNoRecord
<1>3. x = [y EXCEPT !.running = r]
  BY DEF start
<1> HIDE DEF r, x
<1>4. /\ x.running = r /\ x.reading_for = y.reading_for /\ x.review = y.review
      /\ x.clearing = y.clearing /\ x.failed = y.failed /\ x.batch = y.batch
  BY <1>3 DEF WriteState
<1>5. Began(w, x)
  BY <1>2, <1>4 DEF Began, Alone
<1>6. Matches(x, c)
  BY <1>1, <1>4 DEF Matches, AtStage
<1> QED
  BY <1>5, <1>6 DEF x

\* What is uploaded is what is edited.
LEMMA UploadFits ==
  ASSUME NEW v, NEW s
  PROVE  Fits(v.ctl, active(v), upload_job(v, s))
BY DEF Fits, upload_job, Of

LEMMA ReviewBegins ==
  ASSUME NEW v, NEW w, ViewTyped(v), GoodWrite(w), Alone(w), review_open(v, w)
  PROVE  Began(w, confirm_review(v, w)) /\ Matches(confirm_review(v, w), v.ctl)
<1> DEFINE y == [w EXCEPT !.review = Nothing]
           p == w.review.port
           jobs == <<upload_job(v, w.review.slot)>>
<1>0. w \in WriteState
  BY DEF GoodWrite
<1>1. w.review # Nothing /\ w.review.port = active(v) /\ w.review \in Target
      /\ w.review.slot \in Slot /\ p \in Port
  BY <1>0 DEF review_open, WriteState, Target
<1>2. /\ y \in WriteState /\ y.reading_for = Nothing /\ y.review = Nothing /\ y.clearing = Nothing
      /\ y.failed = Nothing /\ y.batch = Nothing /\ w.running = Nothing
  BY <1>0, <1>1 DEF WriteState, Alone
<1>3. jobs \in Seq(WriteJob)
  <2>1. active(v) # Nothing
    BY <1>1, ActiveIsAPort
  <2>2. upload_job(v, w.review.slot) \in WriteJob
    BY <1>1, <2>1, UploadTyped
  <2> QED
    BY <2>2
<1>4. AllFit(v.ctl, p, jobs)
  <2>1. Fits(v.ctl, active(v), upload_job(v, w.review.slot))
    BY UploadFits
  <2>2. DOMAIN jobs = {1} /\ jobs[1] = upload_job(v, w.review.slot)
    OBVIOUS
  <2> HIDE DEF jobs
  <2> QED
    BY <1>1, <2>1, <2>2 DEF AllFit
<1>5. confirm_review(v, w) = start(y, p, jobs)
  BY DEF confirm_review
<1> HIDE DEF y, p, jobs
<1> QED
  BY <1>2, <1>1, <1>3, <1>4, <1>5, Begins

LEMMA BatchRuns ==
  ASSUME NEW v, NEW w, ViewTyped(v), GoodWrite(w), Alone(w), batch_review_open(v, w)
  PROVE  Began(w, confirm_batch(v, w)) /\ Matches(confirm_batch(v, w), v.ctl)
<1> DEFINE slots == InOrder(edited_slots(v))
           jobs == [i \in DOMAIN slots |-> upload_job(v, slots[i])]
           b == [w.batch EXCEPT !.stage = "running", !.jobs = jobs, !.at = 1]
           y == [w EXCEPT !.batch.stage = "running", !.batch.jobs = jobs, !.batch.at = 1]
           p == w.batch.port
<1>0. w \in WriteState
  BY DEF GoodWrite
<1>1. w.batch \in Batch /\ p = active(v) /\ p \in Port /\ w.batch # Nothing
      /\ edited_slots(v) # {} /\ w.batch.stage = "review"
  BY <1>0 DEF batch_review_open, AtStage, WriteState, Batch
<1>2. active(v) # Nothing
  BY <1>1, ActiveIsAPort
<1>3. jobs \in Seq(WriteJob)
  BY <1>1, <1>2, UploadsTyped
<1>4. AllFit(v.ctl, p, jobs)
  <2>1. \A i \in DOMAIN slots : jobs[i] = upload_job(v, slots[i])
    OBVIOUS
  <2>2. DOMAIN jobs = DOMAIN slots
    OBVIOUS
  <2> HIDE DEF jobs, slots
  <2> QED
    BY <1>1, <2>1, <2>2, UploadFits DEF AllFit
<1>5. confirm_batch(v, w) = start(y, p, jobs)
  BY DEF confirm_batch
<1> HIDE DEF jobs
<1>6. b \in Batch /\ b.port = p /\ b.jobs = jobs /\ b.stage = "running"
  BY <1>1, <1>3 DEF Batch, Stage
<1>7. y = [w EXCEPT !.batch = b]
  BY <1>0, <1>1 DEF WriteState, Batch
<1> HIDE DEF b, y, p
<1>8. /\ y \in WriteState /\ y.batch = b /\ y.reading_for = w.reading_for /\ y.review = w.review
      /\ y.clearing = w.clearing /\ y.failed = w.failed
  BY <1>0, <1>6, <1>7, NewBatch
<1>9. /\ w.running = Nothing /\ w.reading_for = Nothing /\ w.review = Nothing
      /\ w.clearing = Nothing /\ w.failed = Nothing
  BY <1>1 DEF Alone
<1> QED
  BY <1>1, <1>3, <1>4, <1>5, <1>6, <1>8, <1>9, Begins

\* The rest of a batch fits as the batch did.
LEMMA RestFits ==
  ASSUME NEW c, NEW p, NEW jobs \in Seq(WriteJob), AllFit(c, p, jobs), NEW at \in 1..Len(jobs)
  PROVE  AllFit(c, p, SubSeq(jobs, at, Len(jobs))) /\ SubSeq(jobs, at, Len(jobs)) \in Seq(WriteJob)
<1> DEFINE n == Len(jobs)
           r == SubSeq(jobs, at, n)
<1>1. n \in Nat /\ at \in Nat
  OBVIOUS
<1>2. r \in Seq(WriteJob) /\ Len(r) = n - at + 1 /\ \A i \in 1..n - at + 1 : r[i] = jobs[at + i - 1]
  BY <1>1, SubSeqProperties
<1> HIDE DEF r
<1>3. ASSUME NEW i \in DOMAIN r PROVE Fits(c, p, r[i])
  <2>1. i \in 1..n - at + 1
    BY <1>1, <1>2
  <2>2. at + i - 1 \in DOMAIN jobs
    BY <1>1, <2>1
  <2>3. r[i] = jobs[at + i - 1]
    BY <1>2, <2>1
  <2> QED
    BY <2>2, <2>3 DEF AllFit
<1>4. AllFit(c, p, r)
  BY <1>3 DEF AllFit
<1> QED
  BY <1>2, <1>4 DEF r

LEMMA RetryBegins ==
  ASSUME NEW w, GoodWrite(w), Alone(w), AtStage(w, {"failed"}), NEW c, Matches(w, c)
  PROVE  Began(w, retry_batch(w)) /\ Matches(retry_batch(w), c)
<1> DEFINE b == [w.batch EXCEPT !.stage = "running"]
           y == [w EXCEPT !.batch.stage = "running"]
           p == w.batch.port
           jobs == SubSeq(w.batch.jobs, w.batch.at, Len(w.batch.jobs))
<1>0. w \in WriteState
  BY DEF GoodWrite
<1>1. w.batch \in Batch /\ p \in Port /\ w.batch # Nothing
      /\ w.batch.at \in 1..Len(w.batch.jobs) /\ w.batch.stage = "failed"
  BY <1>0 DEF AtStage, WriteState, Batch, GoodWrite, Shape
<1>2. AllFit(c, w.batch.port, w.batch.jobs) /\ w.batch.jobs \in Seq(WriteJob)
  BY <1>1 DEF Matches, AtStage, Batch
<1>3. AllFit(c, p, jobs) /\ jobs \in Seq(WriteJob)
  BY <1>1, <1>2, RestFits
<1>4. retry_batch(w) = start(y, p, jobs)
  BY DEF retry_batch
<1> HIDE DEF jobs
<1>5. b \in Batch /\ b.port = p /\ b.jobs = w.batch.jobs /\ b.stage = "running"
  BY <1>1 DEF Batch, Stage
<1>6. y = [w EXCEPT !.batch = b]
  BY <1>0, <1>1 DEF WriteState, Batch
<1> HIDE DEF b, y, p
<1>7. /\ y \in WriteState /\ y.batch = b /\ y.reading_for = w.reading_for /\ y.review = w.review
      /\ y.clearing = w.clearing /\ y.failed = w.failed
  BY <1>0, <1>5, <1>6, NewBatch
<1>8. /\ w.running = Nothing /\ w.reading_for = Nothing /\ w.review = Nothing
      /\ w.clearing = Nothing /\ w.failed = Nothing
  BY <1>1 DEF Alone
<1>9. p = w.batch.port
  BY DEF p
<1> QED
  BY <1>1, <1>2, <1>3, <1>4, <1>5, <1>7, <1>8, <1>9, Begins

\* A clear, or one more try of a write that failed.
LEMMA OneJobBegins ==
  ASSUME NEW w, w.running = Nothing,
         NEW y \in WriteState, y.reading_for = Nothing, y.review = Nothing, y.clearing = Nothing,
         y.failed = Nothing, y.batch = Nothing,
         NEW p \in Port, NEW job \in WriteJob, NEW c, Fits(c, p, job)
  PROVE  Began(w, start(y, p, <<job>>)) /\ Matches(start(y, p, <<job>>), c)
<1> DEFINE jobs == <<job>>
<1>1. jobs \in Seq(WriteJob) /\ DOMAIN jobs = {1} /\ jobs[1] = job
  OBVIOUS
<1> HIDE DEF jobs
<1>2. AllFit(c, p, jobs)
  BY <1>1 DEF AllFit
<1>3. Began(w, start(y, p, jobs)) /\ Matches(start(y, p, jobs), c)
  BY <1>1, <1>2, Begins
<1> QED
  BY <1>3 DEF jobs

\* A review that opens over empty slots begins its run at once.
LEMMA SkipBegins ==
  ASSUME NEW v, NEW w, ViewTyped(v), GoodWrite(w), Alone(w)
  PROVE  \/ skip_empty_review(v, w) = w /\ SkippedWrite(v, w) = <<>>
         \/ /\ Began(w, skip_empty_review(v, w)) /\ Matches(skip_empty_review(v, w), v.ctl)
            /\ SkippedWrite(v, w) = <<WriteOf(skip_empty_review(v, w))>>
<1>1. CASE SkipsReview(v, w)
  <2>1. review_open(v, w)
    BY <1>1 DEF SkipsReview
  <2>2. skip_empty_review(v, w) = confirm_review(v, w)
    BY <1>1 DEF skip_empty_review
  <2>3. SkippedWrite(v, w) = <<WriteOf(skip_empty_review(v, w))>>
    BY <1>1 DEF SkippedWrite
  <2> QED
    BY <2>1, <2>2, <2>3, ReviewBegins
<1>2. CASE ~SkipsReview(v, w) /\ SkipsBatch(v, w)
  <2>1. batch_review_open(v, w)
    BY <1>2 DEF SkipsBatch
  <2>2. skip_empty_review(v, w) = confirm_batch(v, w)
    BY <1>2 DEF skip_empty_review
  <2>3. SkippedWrite(v, w) = <<WriteOf(skip_empty_review(v, w))>>
    BY <1>2 DEF SkippedWrite
  <2> QED
    BY <2>1, <2>2, <2>3, BatchRuns
<1>3. CASE ~SkipsReview(v, w) /\ ~SkipsBatch(v, w)
  BY <1>3 DEF skip_empty_review, SkippedWrite
<1> QED
  BY <1>1, <1>2, <1>3

\* A run that came back leaves its failure, or its batch with the failure.
Ended(w, x) ==
  /\ Alone(x) /\ x.running = Nothing /\ x.reading_for = Nothing /\ x.review = Nothing
  /\ ~AtStage(x, {"reading", "review"})

LEMMA RunEnds ==
  ASSUME NEW w, GoodWrite(w), Alone(w), w.running # Nothing, NEW p \in Port, p = w.running.port,
         NEW results \in Seq([slot: Slot, success: BOOLEAN])
  PROVE  LET x == batch_after_write(write_finished(w, p, results)) IN
         Ended(w, x) /\ \A c : Matches(w, c) => Matches(x, c)
<1> DEFINE y == write_finished(w, p, results)
           x == batch_after_write(y)
           jobs == w.running.jobs
           i == FirstFailure(jobs, results)
           f == IF i <= Len(jobs) /\ i <= Len(results)
                THEN [port |-> p, job |-> jobs[i]] ELSE w.failed
<1>0. w \in WriteState
  BY DEF GoodWrite
<1>1. jobs \in Seq(WriteJob)
  BY <1>0 DEF WriteState
<1>2. i \in 1..Len(jobs) + 1
  BY <1>1, FirstFailureIs
<1>3. y = [w EXCEPT !.running = Nothing, !.failed = f]
  BY <1>0 DEF write_finished, WriteState
<1>4. /\ w.reading_for = Nothing /\ w.review = Nothing /\ w.clearing = Nothing
      /\ w.failed = Nothing /\ (w.batch # Nothing => w.batch.stage = "running")
  BY DEF Alone
<1>5. f = Nothing \/ \E k \in DOMAIN jobs : f = [port |-> p, job |-> jobs[k]]
  <2> HIDE DEF i, jobs
  <2>1. CASE i <= Len(jobs) /\ i <= Len(results)
    <3>1. i \in DOMAIN jobs /\ f = [port |-> p, job |-> jobs[i]]
      BY <1>1, <1>2, <2>1
    <3> QED
      BY <3>1, Zenon
  <2>2. CASE ~(i <= Len(jobs) /\ i <= Len(results))
    BY <1>4, <2>2
  <2> QED
    BY <2>1, <2>2
<1>6. ASSUME NEW c, Matches(w, c), f # Nothing PROVE Fits(c, f.port, f.job)
  <2>1. AllFit(c, p, jobs)
    BY <1>6 DEF Matches
  <2>2. PICK k \in DOMAIN jobs : f = [port |-> p, job |-> jobs[k]]
    BY <1>5, <1>6
  <2>3. f.port = p /\ f.job = jobs[k]
    BY <2>2
  <2> QED
    BY <2>1, <2>3 DEF AllFit
<1>7. f \in [port: Port, job: WriteJob] \cup {Nothing}
  <2>1. ASSUME NEW k \in DOMAIN jobs
        PROVE  [port |-> p, job |-> jobs[k]] \in [port: Port, job: WriteJob]
    <3>1. jobs[k] \in WriteJob
      BY <1>1
    <3> QED
      BY <3>1
  <2> HIDE DEF f, jobs
  <2> QED
    BY <1>5, <2>1
<1> HIDE DEF f, i, jobs, y, x
<1>8. /\ y \in WriteState /\ y.running = Nothing /\ y.failed = f /\ y.batch = w.batch
      /\ y.reading_for = Nothing /\ y.review = Nothing /\ y.clearing = Nothing
  BY <1>0, <1>3, <1>4, <1>7 DEF WriteState
<1>9. CASE w.batch = Nothing
  <2>1. x = y
    BY <1>8, <1>9 DEF x, batch_after_write, AtStage
  <2>2. Ended(w, x)
    BY <1>8, <1>9, <2>1 DEF Ended, Alone, AtStage
  <2>3. \A c : Matches(w, c) => Matches(x, c)
    BY <1>6, <1>8, <1>9, <2>1 DEF Matches, AtStage
  <2> QED
    BY <2>2, <2>3 DEF x, y
<1>10. CASE w.batch # Nothing /\ f = Nothing
  <2>1. x = [y EXCEPT !.batch = Nothing]
    BY <1>4, <1>8, <1>10 DEF x, batch_after_write, AtStage
  <2>2. /\ x.batch = Nothing /\ x.running = Nothing /\ x.failed = Nothing
        /\ x.reading_for = Nothing /\ x.review = Nothing /\ x.clearing = Nothing
    BY <1>8, <1>10, <2>1, NewBatch
  <2>3. Ended(w, x) /\ \A c : Matches(x, c)
    BY <2>2 DEF Ended, Alone, AtStage, Matches
  <2> QED
    BY <2>3 DEF x, y
<1>11. CASE w.batch # Nothing /\ f # Nothing
  <2> DEFINE rest == {k \in y.batch.at..Len(y.batch.jobs) :
                        y.batch.jobs[k].slot = y.failed.job.slot}
             at == IF rest = {} THEN y.batch.at ELSE CHOOSE k \in rest : \A j \in rest : k <= j
             b == [y.batch EXCEPT !.stage = "failed", !.at = at]
             z == [y EXCEPT !.failed = Nothing]
  <2>1. AtStage(y, {"running"}) /\ y.failed # Nothing /\ y.batch \in Batch
    BY <1>4, <1>8, <1>11 DEF AtStage, WriteState
  <2>2. x = [y EXCEPT !.failed = Nothing, !.batch.stage = "failed", !.batch.at = at]
    BY <2>1, Zenon DEF batch_after_write, x
  <2> HIDE DEF at, rest
  <2>4. b.stage = "failed" /\ b.jobs = y.batch.jobs /\ b.port = y.batch.port
    BY <2>1 DEF Batch
  <2>5. x = [z EXCEPT !.batch = b]
    BY <1>8, <2>1, <2>2 DEF WriteState, Batch
  <2>6. /\ x.batch = b /\ x.running = Nothing /\ x.failed = Nothing
        /\ x.reading_for = Nothing /\ x.review = Nothing /\ x.clearing = Nothing
    BY <1>8, <2>5 DEF WriteState
  <2> HIDE DEF b, z
  <2>7. Ended(w, x)
    BY <2>4, <2>6 DEF Ended, Alone, AtStage
  <2>8. AtStage(w, {"running", "failed"})
    BY <1>4, <1>11 DEF AtStage
  <2>9. \A c : Matches(w, c) => Matches(x, c)
    BY <1>8, <2>4, <2>6, <2>8 DEF Matches
  <2> QED
    BY <2>7, <2>9 DEF x, y
<1> QED
  BY <1>9, <1>10, <1>11

-------------------------------------------------------------------------------
(*****************************************************************************)
(* The one write on its way: a command, its answer, or neither.             *)
(*****************************************************************************)
\* The writes on their way to the worker, and its answers on their way back.
LoneWrite(q) == \A i, j \in DOMAIN q : q[i].op = "write" /\ q[j].op = "write" => i = j
LoneWritten(q) == \A i, j \in DOMAIN q : q[i].type = "written" /\ q[j].type = "written" => i = j
Carries(q, r) == \A i \in DOMAIN q : q[i].op = "write" => q[i].port = r.port /\ q[i].jobs = r.jobs
AnswerOf(e, r) == /\ e.port = r.port /\ Len(e.results) = Len(r.jobs)
                  /\ \A k \in 1..Len(r.jobs) : e.results[k].slot = r.jobs[k].slot
Answered(q, r) == \A i \in DOMAIN q : q[i].type = "written" => AnswerOf(q[i], r)

\* The one that is there is of the run.
OneWrite ==
  /\ LoneWrite(cmds) /\ LoneWritten(evts) /\ ~(HasWrite(cmds) /\ HasWritten(evts))
  /\ HasWrite(cmds) \/ HasWritten(evts) => write.running # Nothing
  /\ Carries(cmds, write.running) /\ Answered(evts, write.running)

StepsIn(q) == \E i \in DOMAIN q : q[i].op = "steps"
SteplessIn(q) == \E i \in DOMAIN q : q[i].type = "stepless"

\* Steps of the channels that bring no write and no answer of one, and no macro steps.
QuietCmds ==
  /\ HasWrite(cmds') => HasWrite(cmds)
  /\ LoneWrite(cmds) => LoneWrite(cmds')
  /\ \A r : Carries(cmds, r) => Carries(cmds', r)
  /\ StepsIn(cmds') => StepsIn(cmds)
QuietEvts ==
  /\ HasWritten(evts') => HasWritten(evts)
  /\ LoneWritten(evts) => LoneWritten(evts')
  /\ \A r : Answered(evts, r) => Answered(evts', r)
  /\ SteplessIn(evts') => SteplessIn(evts)

\* The elements of q2 that matter are those of q1, shifted by k.
LEMMA CmdsFrom ==
  ASSUME NEW k \in Int, cmds \in Seq(Command), cmds' \in Seq(Command),
         \A i \in DOMAIN cmds' : cmds'[i].op \in {"write", "steps"} =>
           i + k \in DOMAIN cmds /\ cmds[i + k] = cmds'[i]
  PROVE  QuietCmds
<1>1. \A i \in DOMAIN cmds' : i \in Int
  OBVIOUS
<1>2. HasWrite(cmds') => HasWrite(cmds)
  <2> SUFFICES ASSUME NEW i \in DOMAIN cmds', cmds'[i].op = "write" PROVE HasWrite(cmds)
    BY DEF HasWrite
  <2>1. i + k \in DOMAIN cmds /\ cmds[i + k].op = "write"
    OBVIOUS
  <2> QED
    BY <2>1, Zenon DEF HasWrite
<1>3. ASSUME LoneWrite(cmds) PROVE LoneWrite(cmds')
  <2> SUFFICES ASSUME NEW i \in DOMAIN cmds', NEW j \in DOMAIN cmds',
                      cmds'[i].op = "write", cmds'[j].op = "write" PROVE i = j
    BY DEF LoneWrite
  <2>1. i + k \in DOMAIN cmds /\ cmds[i + k].op = "write"
        /\ j + k \in DOMAIN cmds /\ cmds[j + k].op = "write"
    OBVIOUS
  <2>2. i + k = j + k
    BY <1>3, <2>1, Zenon DEF LoneWrite
  <2> QED
    BY <1>1, <2>2
<1>4. ASSUME NEW r, Carries(cmds, r) PROVE Carries(cmds', r)
  <2> SUFFICES ASSUME NEW i \in DOMAIN cmds', cmds'[i].op = "write"
               PROVE  cmds'[i].port = r.port /\ cmds'[i].jobs = r.jobs
    BY DEF Carries
  <2>1. i + k \in DOMAIN cmds /\ cmds[i + k] = cmds'[i]
    OBVIOUS
  <2> QED
    BY <1>4, <2>1 DEF Carries
<1>5. StepsIn(cmds') => StepsIn(cmds)
  <2> SUFFICES ASSUME NEW i \in DOMAIN cmds', cmds'[i].op = "steps" PROVE StepsIn(cmds)
    BY DEF StepsIn
  <2>1. i + k \in DOMAIN cmds /\ cmds[i + k].op = "steps"
    OBVIOUS
  <2> QED
    BY <2>1, Zenon DEF StepsIn
<1> QED
  BY <1>2, <1>3, <1>4, <1>5 DEF QuietCmds

LEMMA EvtsFrom ==
  ASSUME NEW k \in Int, evts \in Seq(Event), evts' \in Seq(Event),
         \A i \in DOMAIN evts' : evts'[i].type \in {"written", "stepless"} =>
           i + k \in DOMAIN evts /\ evts[i + k] = evts'[i]
  PROVE  QuietEvts
<1>1. \A i \in DOMAIN evts' : i \in Int
  OBVIOUS
<1>2. HasWritten(evts') => HasWritten(evts)
  <2> SUFFICES ASSUME NEW i \in DOMAIN evts', evts'[i].type = "written" PROVE HasWritten(evts)
    BY DEF HasWritten
  <2>1. i + k \in DOMAIN evts /\ evts[i + k].type = "written"
    OBVIOUS
  <2> QED
    BY <2>1, Zenon DEF HasWritten
<1>3. ASSUME LoneWritten(evts) PROVE LoneWritten(evts')
  <2> SUFFICES ASSUME NEW i \in DOMAIN evts', NEW j \in DOMAIN evts',
                      evts'[i].type = "written", evts'[j].type = "written" PROVE i = j
    BY DEF LoneWritten
  <2>1. i + k \in DOMAIN evts /\ evts[i + k].type = "written"
        /\ j + k \in DOMAIN evts /\ evts[j + k].type = "written"
    OBVIOUS
  <2>2. i + k = j + k
    BY <1>3, <2>1, Zenon DEF LoneWritten
  <2> QED
    BY <1>1, <2>2
<1>4. ASSUME NEW r, Answered(evts, r) PROVE Answered(evts', r)
  <2> SUFFICES ASSUME NEW i \in DOMAIN evts', evts'[i].type = "written"
               PROVE  AnswerOf(evts'[i], r)
    BY DEF Answered
  <2>1. i + k \in DOMAIN evts /\ evts[i + k] = evts'[i]
    OBVIOUS
  <2> QED
    BY <1>4, <2>1, Zenon DEF Answered
<1>5. SteplessIn(evts') => SteplessIn(evts)
  <2> SUFFICES ASSUME NEW i \in DOMAIN evts', evts'[i].type = "stepless" PROVE SteplessIn(evts)
    BY DEF SteplessIn
  <2>1. i + k \in DOMAIN evts /\ evts[i + k].type = "stepless"
    OBVIOUS
  <2> QED
    BY <2>1, Zenon DEF SteplessIn
<1> QED
  BY <1>2, <1>3, <1>4, <1>5 DEF QuietEvts

LEMMA SameCmds ==
  ASSUME cmds \in Seq(Command), UNCHANGED cmds
  PROVE  QuietCmds
<1>1. cmds' = cmds
  OBVIOUS
<1> QED
  BY <1>1 DEF QuietCmds

LEMMA TailCmds ==
  ASSUME cmds \in Seq(Command), cmds # <<>>, cmds' = Tail(cmds)
  PROVE  QuietCmds
<1>1. \A i \in DOMAIN cmds' : i + 1 \in DOMAIN cmds /\ cmds[i + 1] = cmds'[i]
  OBVIOUS
<1>2. cmds' \in Seq(Command)
  OBVIOUS
<1> QED
  BY <1>1, <1>2, CmdsFrom

\* Reads and relocks.
LEMMA SendsQuietly ==
  ASSUME cmds \in Seq(Command), NEW s \in Seq(Command), Sends(s),
         \A i \in DOMAIN s : s[i].op \in {"read", "relock"}
  PROVE  QuietCmds
<1>1. cmds' \in Seq(Command) /\ cmds' = cmds \o s
  BY DEF Sends
<1>2. ASSUME NEW i \in DOMAIN cmds', cmds'[i].op \in {"write", "steps"}
      PROVE  i + 0 \in DOMAIN cmds /\ cmds[i + 0] = cmds'[i]
  <2>1. CASE i \in DOMAIN cmds
    BY <1>1, <2>1
  <2>2. CASE i \notin DOMAIN cmds
    <3>1. i - Len(cmds) \in DOMAIN s /\ cmds'[i] = s[i - Len(cmds)]
      BY <1>1, <2>2
    <3> QED
      BY <1>2, <3>1
  <2> QED
    BY <2>1, <2>2
<1> DEFINE k == 0
<1>3. k \in Int /\ \A i \in DOMAIN cmds' : cmds'[i].op \in {"write", "steps"} =>
        i + k \in DOMAIN cmds /\ cmds[i + k] = cmds'[i]
  BY <1>2
<1> HIDE DEF k
<1> QED
  BY <1>1, <1>3, CmdsFrom

LEMMA SendsOne ==
  ASSUME cmds \in Seq(Command), NEW c \in Command, c.op \in {"read", "relock"}, Sends(<<c>>)
  PROVE  QuietCmds
<1> DEFINE s == <<c>>
<1>1. s \in Seq(Command) /\ \A i \in DOMAIN s : s[i].op \in {"read", "relock"}
  OBVIOUS
<1> HIDE DEF s
<1>2. Sends(s)
  BY DEF s
<1> QED
  BY <1>1, <1>2, SendsQuietly

LEMMA SameEvts ==
  ASSUME evts \in Seq(Event), UNCHANGED evts
  PROVE  QuietEvts
<1>1. evts' = evts
  OBVIOUS
<1> QED
  BY <1>1 DEF QuietEvts

LEMMA TailEvts ==
  ASSUME evts \in Seq(Event), evts # <<>>, evts' = Tail(evts)
  PROVE  QuietEvts
<1>1. \A i \in DOMAIN evts' : i + 1 \in DOMAIN evts /\ evts[i + 1] = evts'[i]
  OBVIOUS
<1>2. evts' \in Seq(Event)
  OBVIOUS
<1> QED
  BY <1>1, <1>2, EvtsFrom

LEMMA EmitsQuietly ==
  ASSUME evts \in Seq(Event), NEW e \in Event, e.type \notin {"written", "stepless"}, Emit(e)
  PROVE  QuietEvts
<1>1. evts' \in Seq(Event) /\ evts' = Append(evts, e)
  BY DEF Emit
<1>2. ASSUME NEW i \in DOMAIN evts', evts'[i].type \in {"written", "stepless"}
      PROVE  i + 0 \in DOMAIN evts /\ evts[i + 0] = evts'[i]
  <2>1. CASE i \in DOMAIN evts
    BY <1>1, <2>1
  <2>2. CASE i \notin DOMAIN evts
    BY <1>1, <1>2, <2>2
  <2> QED
    BY <2>1, <2>2
<1> DEFINE k == 0
<1>3. k \in Int /\ \A i \in DOMAIN evts' : evts'[i].type \in {"written", "stepless"} =>
        i + k \in DOMAIN evts /\ evts[i + k] = evts'[i]
  BY <1>2
<1> HIDE DEF k
<1> QED
  BY <1>1, <1>3, EvtsFrom

-------------------------------------------------------------------------------
LEMMA QuietWrites ==
  ASSUME OneWrite, QuietCmds, QuietEvts, write'.running = write.running
  PROVE  OneWrite'
<1>1. /\ LoneWrite(cmds') /\ LoneWritten(evts') /\ ~(HasWrite(cmds') /\ HasWritten(evts'))
      /\ (HasWrite(cmds') \/ HasWritten(evts') => write.running # Nothing)
      /\ Carries(cmds', write.running) /\ Answered(evts', write.running)
  BY Zenon DEF OneWrite, QuietCmds, QuietEvts
<1> QED
  BY <1>1 DEF OneWrite

LEMMA BeginsWrite ==
  ASSUME OneWrite, QuietEvts, cmds \in Seq(Command), Began(write, write'),
         WriteOf(write') \in Command, Sends(<<WriteOf(write')>>), ~StepsIn(cmds)
  PROVE  OneWrite' /\ ~StepsIn(cmds')
<1> DEFINE c == WriteOf(write')
           n == Len(cmds)
           r == write'.running
<1>1. c.op = "write" /\ c.port = r.port /\ c.jobs = r.jobs
  BY DEF WriteOf
<1>2. c \in Command /\ Sends(<<c>>)
  OBVIOUS
<1>3. ~HasWrite(cmds) /\ ~HasWritten(evts) /\ r # Nothing
  BY DEF OneWrite, Began
<1> HIDE DEF c, r
<1>4. /\ cmds' = Append(cmds, c) /\ n \in Nat /\ DOMAIN cmds' = 1..n + 1 /\ cmds'[n + 1] = c
      /\ \A i \in 1..n : i \in DOMAIN cmds /\ cmds'[i] = cmds[i]
  BY <1>2 DEF Sends
<1>5. \A i \in DOMAIN cmds' : i = n + 1 \/ (i \in DOMAIN cmds /\ cmds'[i] = cmds[i])
  BY <1>4
<1>6. \A i \in DOMAIN cmds' : cmds'[i].op = "write" => i = n + 1
  BY <1>3, <1>5 DEF HasWrite
<1>7. LoneWrite(cmds') /\ Carries(cmds', r)
  BY <1>1, <1>4, <1>6 DEF LoneWrite, Carries
<1>8. ~StepsIn(cmds')
  BY <1>1, <1>4, <1>5 DEF StepsIn
<1>9. ~HasWritten(evts')
  BY <1>3 DEF QuietEvts
<1>10. LoneWritten(evts') /\ Answered(evts', r)
  BY <1>9 DEF HasWritten, LoneWritten, Answered
<1> QED
  BY <1>3, <1>7, <1>8, <1>9, <1>10 DEF OneWrite, r

\* The answer is taken: nothing is on its way any more.
LEMMA EndsWrite ==
  ASSUME OneWrite, evts \in Seq(Event), evts # <<>>, evts' = Tail(evts), E.type = "written",
         QuietCmds
  PROVE  /\ OneWrite' /\ write.running # Nothing /\ AnswerOf(E, write.running)
         /\ ~HasWrite(cmds) /\ ~HasWritten(evts')
<1>1. 1 \in DOMAIN evts /\ evts[1] = E
  BY DEF E
<1>2. HasWritten(evts)
  BY <1>1, Zenon DEF HasWritten
<1>3. write.running # Nothing /\ AnswerOf(E, write.running) /\ ~HasWrite(cmds)
  BY <1>1, <1>2 DEF OneWrite, Answered
<1>4. ~HasWritten(evts')
  <2> SUFFICES ASSUME NEW i \in DOMAIN evts', evts'[i].type = "written" PROVE FALSE
    BY DEF HasWritten
  <2>1. i + 1 \in DOMAIN evts /\ evts[i + 1].type = "written" /\ i + 1 # 1
    OBVIOUS
  <2> QED
    BY <1>1, <2>1 DEF OneWrite, LoneWritten
<1>5. ~HasWrite(cmds')
  BY <1>3 DEF QuietCmds
<1>6. LoneWrite(cmds') /\ LoneWritten(evts') /\ Carries(cmds', write'.running)
      /\ Answered(evts', write'.running)
  BY <1>4, <1>5 DEF HasWrite, HasWritten, LoneWrite, LoneWritten, Carries, Answered
<1> QED
  BY <1>3, <1>4, <1>5, <1>6 DEF OneWrite

\* The worker answers a write.
LEMMA ServesWrite ==
  ASSUME OneWrite, cmds \in Seq(Command), evts \in Seq(Event), cmds # <<>>, cmds' = Tail(cmds),
         C.op = "write", NEW e \in Event, e.type = "written", Emit(e), AnswerOf(e, C),
         write'.running = write.running, ~SteplessIn(evts)
  PROVE  OneWrite' /\ ~HasWrite(cmds') /\ ~SteplessIn(evts') /\ write.running # Nothing
<1> DEFINE n == Len(evts)
           r == write.running
<1>1. 1 \in DOMAIN cmds /\ cmds[1] = C
  BY DEF C
<1>2. HasWrite(cmds)
  BY <1>1, Zenon DEF HasWrite
<1>3. r # Nothing /\ ~HasWritten(evts) /\ C.port = r.port /\ C.jobs = r.jobs
  BY <1>1, <1>2 DEF OneWrite, Carries
<1>4. ~HasWrite(cmds')
  <2> SUFFICES ASSUME NEW i \in DOMAIN cmds', cmds'[i].op = "write" PROVE FALSE
    BY DEF HasWrite
  <2>1. i + 1 \in DOMAIN cmds /\ cmds[i + 1].op = "write" /\ i + 1 # 1
    OBVIOUS
  <2> QED
    BY <1>1, <2>1 DEF OneWrite, LoneWrite
<1>5. AnswerOf(e, r)
  BY <1>3 DEF AnswerOf
<1>6. /\ evts' = Append(evts, e) /\ n \in Nat /\ DOMAIN evts' = 1..n + 1 /\ evts'[n + 1] = e
      /\ \A i \in 1..n : i \in DOMAIN evts /\ evts'[i] = evts[i]
  BY DEF Emit
<1>7. \A i \in DOMAIN evts' : i = n + 1 \/ (i \in DOMAIN evts /\ evts'[i] = evts[i])
  BY <1>6
<1>8. \A i \in DOMAIN evts' : evts'[i].type = "written" => i = n + 1
  BY <1>3, <1>7 DEF HasWritten
<1>9. LoneWritten(evts') /\ Answered(evts', r)
  BY <1>5, <1>6, <1>8 DEF LoneWritten, Answered
<1>10. ~SteplessIn(evts')
  BY <1>6, <1>7 DEF SteplessIn
<1>11. LoneWrite(cmds') /\ Carries(cmds', r)
  BY <1>4 DEF HasWrite, LoneWrite, Carries
<1> QED
  BY <1>3, <1>4, <1>9, <1>10, <1>11 DEF OneWrite

-------------------------------------------------------------------------------
(*****************************************************************************)
(* AloneInv, and steps that begin and end no run.                           *)
(*****************************************************************************)
SinglePort == \A p, q \in Port : p = q

\* What waits for a read is read, or its pad is gone and the worker says so.
ReadComes ==
  \A p \in Port : Waiting(write, p) => ctl[p] = Nothing \/ ctl[p].reading \/ ~ctl[p].there

AloneInv ==
  /\ Alone(write) /\ ReadComes /\ OneWrite
  /\ ~StepsIn(cmds) /\ ~SteplessIn(evts)

\* A step keeps the invariant, and the writes that fitted still do.
Carried == AloneInv' /\ (Matches(write, ctl) => Matches(write', ctl'))

\* The entry of p stays as it was read, and no edit of it comes up.
Awaits(p) ==
  \/ ctl'[p] = Nothing \/ ctl'[p].reading \/ ~ctl'[p].there
  \/ ctl[p] # Nothing /\ ctl'[p].reading = ctl[p].reading /\ ctl'[p].there = ctl[p].there
Faded(p) ==
  \/ ctl'[p] = Nothing
  \/ \A s \in Slot : \/ ctl'[p].edited[s] = Nothing
                     \/ ctl[p] # Nothing /\ ctl'[p].edited[s] = ctl[p].edited[s]

LEMMA LessFits ==
  ASSUME NEW w, NEW x, Less(w, x), NEW c, Matches(w, c)
  PROVE  Matches(x, c)
<1>1. x.batch = w.batch \/ x.batch = Nothing
  BY DEF Less
<1>2. AtStage(x, {"running", "failed"}) => AtStage(w, {"running", "failed"}) /\ x.batch = w.batch
  BY <1>1 DEF AtStage
<1>3. x.running = w.running /\ (x.failed = w.failed \/ x.failed = Nothing)
  BY DEF Less
<1> QED
  BY <1>2, <1>3 DEF Matches

LEMMA JobFades ==
  ASSUME NEW p \in Port, Faded(p), NEW job \in WriteJob, Fits(ctl, p, job)
  PROVE  Fits(ctl', p, job)
<1>1. job.slot \in Slot
  BY DEF WriteJob
<1> QED
  BY <1>1 DEF Faded, Fits

LEMMA JobsFade ==
  ASSUME NEW p \in Port, Faded(p), NEW jobs \in Seq(WriteJob), AllFit(ctl, p, jobs)
  PROVE  AllFit(ctl', p, jobs)
<1> SUFFICES ASSUME NEW i \in DOMAIN jobs PROVE Fits(ctl', p, jobs[i])
  BY DEF AllFit
<1>1. jobs[i] \in WriteJob /\ Fits(ctl, p, jobs[i])
  BY DEF AllFit
<1> QED
  BY <1>1, JobFades

LEMMA FadeFits ==
  ASSUME NEW w \in WriteState, \A p \in Port : Faded(p), Matches(w, ctl)
  PROVE  Matches(w, ctl')
<1>1. ASSUME w.running # Nothing PROVE AllFit(ctl', w.running.port, w.running.jobs)
  <2>1. w.running.port \in Port /\ w.running.jobs \in Seq(WriteJob)
    BY <1>1 DEF WriteState
  <2>2. AllFit(ctl, w.running.port, w.running.jobs)
    BY <1>1 DEF Matches
  <2> QED
    BY <2>1, <2>2, JobsFade
<1>2. ASSUME w.failed # Nothing PROVE Fits(ctl', w.failed.port, w.failed.job)
  <2>1. w.failed.port \in Port /\ w.failed.job \in WriteJob
    BY <1>2 DEF WriteState
  <2>2. Fits(ctl, w.failed.port, w.failed.job)
    BY <1>2 DEF Matches
  <2> QED
    BY <2>1, <2>2, JobFades
<1>3. ASSUME AtStage(w, {"running", "failed"}) PROVE AllFit(ctl', w.batch.port, w.batch.jobs)
  <2>1. w.batch.port \in Port /\ w.batch.jobs \in Seq(WriteJob)
    BY <1>3 DEF WriteState, AtStage, Batch
  <2>2. AllFit(ctl, w.batch.port, w.batch.jobs)
    BY <1>3 DEF Matches
  <2> QED
    BY <2>1, <2>2, JobsFade
<1> QED
  BY <1>1, <1>2, <1>3 DEF Matches

\* A step that begins and ends no run.
LEMMA QuietAlone ==
  ASSUME AloneInv, Less(write, write'), QuietCmds, QuietEvts,
         \A p \in Port : Waiting(write', p) => Awaits(p)
  PROVE  AloneInv'
<1>1. Alone(write') /\ \A p : Waiting(write', p) => Waiting(write, p)
  BY LessAlone DEF AloneInv
<1>2. write'.running = write.running
  BY DEF Less
<1>3. OneWrite'
  BY <1>2, QuietWrites DEF AloneInv
<1>4. ReadComes'
  <2> SUFFICES ASSUME NEW p \in Port, Waiting(write', p)
               PROVE  ctl'[p] = Nothing \/ ctl'[p].reading \/ ~ctl'[p].there
    BY DEF ReadComes
  <2>1. Awaits(p) /\ (ctl[p] = Nothing \/ ctl[p].reading \/ ~ctl[p].there)
    BY <1>1 DEF AloneInv, ReadComes
  <2> QED
    BY <2>1 DEF Awaits
<1>5. ~StepsIn(cmds') /\ ~SteplessIn(evts')
  BY DEF AloneInv, QuietCmds, QuietEvts
<1> QED
  BY <1>1, <1>3, <1>4, <1>5 DEF AloneInv

LEMMA QuietStep ==
  ASSUME AloneInv, write \in WriteState, Less(write, write'), QuietCmds, QuietEvts,
         \A p \in Port : Waiting(write', p) => Awaits(p), \A p \in Port : Faded(p)
  PROVE  Carried
<1>1. AloneInv'
  BY QuietAlone
<1>2. Matches(write, ctl) => Matches(write', ctl')
  BY LessFits, FadeFits
<1> QED
  BY <1>1, <1>2 DEF Carried

LEMMA BeginStep ==
  ASSUME AloneInv, cmds \in Seq(Command), Began(write, write'), WriteOf(write') \in Command,
         Sends(<<WriteOf(write')>>), QuietEvts, Matches(write, ctl) => Matches(write', ctl')
  PROVE  Carried
<1>1. OneWrite' /\ ~StepsIn(cmds')
  BY BeginsWrite DEF AloneInv
<1>2. ~SteplessIn(evts')
  BY DEF AloneInv, QuietEvts
<1>3. ReadComes'
  <2>1. \A p : ~Waiting(write', p)
    BY DEF Began, Alone, Waiting, WaitsFor, AtStage
  <2> QED
    BY <2>1 DEF ReadComes
<1> QED
  BY <1>1, <1>2, <1>3 DEF Carried, AloneInv, Began

\* The one entry there is.
LEMMA OneEntry ==
  ASSUME SinglePort, CtlTyped, NEW p \in Port, NEW c, ctl' = [ctl EXCEPT ![p] = c]
  PROVE  ctl'[p] = c /\ \A q \in Port : q = p
BY DEF SinglePort, CtlTyped

LEMMA EntryGone ==
  ASSUME SinglePort, CtlTyped, NEW p \in Port, ctl' = [ctl EXCEPT ![p] = Nothing]
  PROVE  \A q \in Port : Awaits(q) /\ Faded(q)
<1>1. ctl'[p] = Nothing /\ \A q \in Port : q = p
  BY OneEntry
<1> QED
  BY <1>1 DEF Awaits, Faded

LEMMA EntryStays ==
  ASSUME SinglePort, CtlTyped, NEW p \in Port, ctl[p] # Nothing, NEW c,
         ctl' = [ctl EXCEPT ![p] = c],
         \A s \in Slot : c.edited[s] \in {Nothing, ctl[p].edited[s]},
         NEW ok \in BOOLEAN,
         ok \/ c.reading \/ ~c.there \/ (c.reading = ctl[p].reading /\ c.there = ctl[p].there)
  PROVE  \A q \in Port : (ok \/ Awaits(q)) /\ Faded(q)
<1>1. ctl'[p] = c /\ \A q \in Port : q = p
  BY OneEntry
<1> QED
  BY <1>1 DEF Awaits, Faded

LEMMA EntriesStay ==
  ASSUME UNCHANGED ctl
  PROVE  \A q \in Port : Awaits(q) /\ Faded(q)
<1>1. ctl' = ctl
  OBVIOUS
<1> QED
  BY <1>1 DEF Awaits, Faded

LEMMA SameWrite ==
  ASSUME GoodWrite(write), UNCHANGED write
  PROVE  Less(write, write')
BY DEF Less

LEMMA GoneEntry ==
  ASSUME SinglePort, CtlTyped, NEW p \in Port, ctl[p] # Nothing, NEW c, c.edited = ctl[p].edited,
         ~c.there, Gone(p, c)
  PROVE  \A q \in Port : Awaits(q) /\ Faded(q)
<1>1. CASE ctl' = [ctl EXCEPT ![p] = c]
  <2> DEFINE ok == FALSE
  <2>1. ok \in BOOLEAN /\ (ok \/ c.reading \/ ~c.there
          \/ (c.reading = ctl[p].reading /\ c.there = ctl[p].there)) /\ ~ok
    OBVIOUS
  <2> HIDE DEF ok
  <2> QED
    BY <1>1, <2>1, EntryStays
<1>2. CASE ctl' = [ctl EXCEPT ![p] = Nothing]
  BY <1>2, EntryGone
<1> QED
  BY <1>1, <1>2 DEF Gone, remove

-------------------------------------------------------------------------------
(*****************************************************************************)
(* The events, for one port.                                                *)
(*****************************************************************************)
\* What holds when an event is taken.
Taking == /\ WindowInv /\ WindowInv' /\ AloneInv /\ SinglePort
          /\ evts # <<>> /\ evts' = Tail(evts)

LEMMA TakingParts ==
  ASSUME Taking
  PROVE  /\ CtlTyped /\ ViewInv /\ GoodWrite(write) /\ write \in WriteState /\ E \in Event
         /\ E.port \in Port /\ QuietEvts /\ cmds \in Seq(Command) /\ CtlTyped' /\ GoodWrite(write')
         /\ evts \in Seq(Event)
         /\ (ctl[E.port] # Nothing => ctl[E.port] \in Controller)
<1>1. cmds \in Seq(Command) /\ evts \in Seq(Event) /\ ViewInv /\ CtlTyped /\ GoodWrite(write)
      /\ CtlTyped' /\ GoodWrite(write')
  BY DEF Taking, WindowInv, QueuesTyped, ViewInv
<1>2. E \in Event /\ E.port \in Port /\ QuietEvts
  BY <1>1, TakesKeep, TailEvts DEF Taking
<1> QED
  BY <1>1, <1>2 DEF GoodWrite, CtlTyped

LEMMA PresentCarried ==
  ASSUME Taking, HandlePresent
  PROVE  Carried
<1> DEFINE p == E.port
<1>0. CtlTyped /\ p \in Port /\ GoodWrite(write) /\ write \in WriteState /\ QuietEvts
      /\ cmds \in Seq(Command) /\ (ctl[p] # Nothing => ctl[p] \in Controller) /\ SinglePort /\ AloneInv
  BY TakingParts DEF Taking
<1>1. UNCHANGED write /\ Sends(<<ReadOf(p)>>)
  BY DEF HandlePresent
<1>2. QuietCmds
  <2>1. ReadOf(p) \in Command /\ ReadOf(p).op = "read"
    BY <1>0 DEF ReadOf, Command
  <2> QED
    BY <1>0, <1>1, <2>1, SendsOne
<1>3. \A q \in Port : Awaits(q) /\ Faded(q)
  <2>1. CASE ctl[p] = Nothing
    <3> DEFINE c == [NoController EXCEPT !.reading = TRUE]
    <3>1. ctl' = [ctl EXCEPT ![p] = c]
      BY <1>0, <2>1 DEF HandlePresent, CtlTyped
    <3>2. c.reading /\ \A s \in Slot : c.edited[s] = Nothing
      BY DEF NoController
    <3> HIDE DEF c, p
    <3>3. ctl'[p] = c /\ \A q \in Port : q = p
      BY <1>0, <3>1, OneEntry
    <3> QED
      BY <3>2, <3>3 DEF Awaits, Faded
  <2>2. CASE ctl[p] # Nothing
    <3> DEFINE c == [ctl[p] EXCEPT !.there = TRUE, !.reading = TRUE, !.read_error = FALSE]
    <3>1. ctl' = [ctl EXCEPT ![p] = c]
      BY <1>0, <2>2 DEF HandlePresent, CtlTyped
    <3>2. c.reading /\ c.edited = ctl[p].edited
      BY <1>0, <2>2 DEF Controller
    <3> HIDE DEF c, p
    <3>3. ctl'[p] = c /\ \A q \in Port : q = p
      BY <1>0, <3>1, OneEntry
    <3> QED
      BY <2>2, <3>2, <3>3 DEF Awaits, Faded
  <2> QED
    BY <2>1, <2>2
<1> QED
  BY <1>0, <1>1, <1>2, <1>3, SameWrite, QuietStep

LEMMA GoneCarried ==
  ASSUME Taking, HandleGone
  PROVE  Carried
<1> DEFINE p == E.port
<1>0. CtlTyped /\ p \in Port /\ GoodWrite(write) /\ write \in WriteState /\ QuietEvts
      /\ cmds \in Seq(Command) /\ (ctl[p] # Nothing => ctl[p] \in Controller) /\ SinglePort /\ AloneInv
  BY TakingParts DEF Taking
<1>1. UNCHANGED <<cmds, write>>
  BY DEF HandleGone
<1>2. \A q \in Port : Awaits(q) /\ Faded(q)
  <2>1. CASE ctl[p] = Nothing
    BY <2>1, EntriesStay DEF HandleGone
  <2>2. CASE ctl[p] # Nothing
    <3> DEFINE c == [ctl[p] EXCEPT !.there = FALSE, !.reading = FALSE, !.read_error = FALSE]
    <3>1. c.edited = ctl[p].edited /\ ~c.there
      BY <1>0, <2>2 DEF Controller
    <3>2. Gone(p, c)
      BY <2>2 DEF HandleGone
    <3> HIDE DEF c, p
    <3> QED
      BY <1>0, <2>2, <3>1, <3>2, GoneEntry
  <2> QED
    BY <2>1, <2>2
<1> QED
  BY <1>0, <1>1, <1>2, SameWrite, SameCmds, QuietStep

LEMMA RelockedCarried ==
  ASSUME Taking, HandleRelocked \/ HandleNotRelocked
  PROVE  Carried
<1> DEFINE p == E.port
<1>0. CtlTyped /\ p \in Port /\ GoodWrite(write) /\ write \in WriteState /\ QuietEvts
      /\ cmds \in Seq(Command) /\ SinglePort /\ AloneInv
  BY TakingParts DEF Taking
<1>1. UNCHANGED <<cmds, write>>
  BY DEF HandleRelocked, HandleNotRelocked
<1>2. \A q \in Port : Awaits(q) /\ Faded(q)
  <2>1. CASE UNCHANGED ctl
    BY <2>1, EntriesStay
  <2>2. CASE ctl' = [ctl EXCEPT ![p] = Nothing]
    BY <1>0, <2>2, EntryGone
  <2> QED
    BY <2>1, <2>2 DEF HandleRelocked, HandleNotRelocked, remove
<1> QED
  BY <1>0, <1>1, <1>2, SameWrite, SameCmds, QuietStep

LEMMA SteplessCarried ==
  ASSUME Taking, HandleStepless
  PROVE  Carried
<1>1. E.type = "stepless" /\ 1 \in DOMAIN evts /\ E = evts[1]
  <2>1. evts \in Seq(Event) /\ evts # <<>>
    BY TakingParts DEF Taking
  <2> QED
    BY <2>1 DEF HandleStepless, Takes, E
<1>2. SteplessIn(evts)
  BY <1>1, Zenon DEF SteplessIn
<1> QED
  BY <1>2 DEF Taking, AloneInv

\* A read that failed, or found a pad of another model.
LEMMA UnreadCarried ==
  ASSUME Taking, HandleUnread \/ HandleForeign
  PROVE  Carried
<1> DEFINE p == E.port
<1>0. CtlTyped /\ p \in Port /\ GoodWrite(write) /\ write \in WriteState /\ QuietEvts
      /\ cmds \in Seq(Command) /\ (ctl[p] # Nothing => ctl[p] \in Controller) /\ SinglePort /\ AloneInv
  BY TakingParts DEF Taking
<1>1. UNCHANGED cmds /\ write' = review_read(Then, write, p, FALSE)
  BY DEF HandleUnread, HandleForeign
<1>2. Less(write, write') /\ ~Waiting(write', p)
  BY <1>0, <1>1, ReadDrops
<1>3. \A q \in Port : ~Waiting(write', q)
  BY <1>0, <1>2 DEF SinglePort
<1>4. \A q \in Port : Faded(q)
  <2>1. CASE ctl[p] = Nothing
    <3>1. UNCHANGED ctl
      BY <2>1 DEF HandleUnread, HandleForeign
    <3> QED
      BY <3>1, EntriesStay
  <2>2. CASE ctl[p] # Nothing /\ HandleForeign
    <3> DEFINE c == [ctl[p] EXCEPT !.there = FALSE, !.reading = FALSE]
    <3>1. c.edited = ctl[p].edited /\ ~c.there
      BY <1>0, <2>2 DEF Controller
    <3>2. Gone(p, c)
      BY <2>2 DEF HandleForeign
    <3> HIDE DEF c, p
    <3> QED
      BY <1>0, <2>2, <3>1, <3>2, GoneEntry
  <2>3. CASE ctl[p] # Nothing /\ HandleUnread
    <3>1. PICK error \in BOOLEAN :
            ctl' = [ctl EXCEPT ![p].reading = FALSE, ![p].read_error = @ \/ error]
      BY <2>3 DEF HandleUnread
    <3> DEFINE c == [ctl[p] EXCEPT !.reading = FALSE, !.read_error = @ \/ error]
    <3>2. ctl' = [ctl EXCEPT ![p] = c]
      BY <1>0, <2>3, <3>1 DEF CtlTyped, Controller
    <3>3. c.edited = ctl[p].edited
      BY <1>0, <2>3 DEF Controller
    <3> HIDE DEF c, p
    <3>4. ctl'[p] = c /\ \A q \in Port : q = p
      BY <1>0, <3>2, OneEntry
    <3> QED
      BY <2>3, <3>3, <3>4 DEF Faded
  <2> QED
    BY <2>1, <2>2, <2>3
<1> QED
  BY <1>0, <1>1, <1>2, <1>3, <1>4, SameCmds, QuietStep

\* The edits a read leaves.
LEMMA ReadFades ==
  ASSUME Taking, HandleRead
  PROVE  \A q \in Port : Faded(q)
<1> DEFINE p == E.port
<1>0. CtlTyped /\ p \in Port /\ (ctl[p] # Nothing => ctl[p] \in Controller) /\ SinglePort
      /\ E \in Event
  BY TakingParts DEF Taking
<1>1. CASE ctl[p] = Nothing
  BY <1>1, EntriesStay DEF HandleRead
<1>2. CASE ctl[p] # Nothing
  <2> DEFINE t == take_read(ctl[p], E.pad)
             c == [t EXCEPT !.reading = FALSE, !.read_error = FALSE, !.known = TRUE]
  <2>0. E.pad \in Contents
    BY <1>0 DEF HandleRead, Takes, Event
  <2>1. t \in Controller
    BY <1>0, <1>2, <2>0, TakesRead
  <2>2. \A s \in Slot : t.edited[s] \in {Nothing, ctl[p].edited[s]}
    BY <1>0, <1>2 DEF take_read, Controller
  <2>3. ctl' = [ctl EXCEPT ![p] = c]
    BY <1>2 DEF HandleRead, read_finished
  <2> HIDE DEF t
  <2>4. c.edited = t.edited
    BY <2>1 DEF Controller
  <2> HIDE DEF c, p
  <2>5. ctl'[p] = c /\ \A q \in Port : q = p
    BY <1>0, <2>3, OneEntry
  <2> QED
    BY <1>2, <2>2, <2>4, <2>5 DEF Faded
<1> QED
  BY <1>1, <1>2

LEMMA ReadCarried ==
  ASSUME Taking, HandleRead, ~StepsFail
  PROVE  Carried
<1> DEFINE p == E.port
           w == review_read(Then, write, p, TRUE)
<1>0. CtlTyped /\ p \in Port /\ GoodWrite(write) /\ write \in WriteState /\ QuietEvts
      /\ cmds \in Seq(Command) /\ SinglePort /\ AloneInv /\ ViewTyped(Then) /\ GoodWrite(write')
  BY TakingParts, ThenTyped DEF Taking
<1>1. write' = skip_empty_review(Then, w) /\ Sends(SkippedWrite(Then, w))
  BY DEF HandleRead
<1>2. GoodWrite(w)
  BY <1>0, ReadsReview
<1>3. /\ Alone(w) /\ w.running = write.running /\ w.failed = write.failed
      /\ (AtStage(w, {"running", "failed"}) => w.batch = write.batch)
      /\ ~Waiting(w, p)
  <2>1. Alone(write)
    BY <1>0 DEF AloneInv
  <2>2. Opened(write, w, p)
    BY <1>0, <2>1, ReadOpens
  <2> QED
    BY <2>2 DEF Opened
<1>4. \A q \in Port : Faded(q)
  BY ReadFades
<1> HIDE DEF w
<1>5. \/ write' = w /\ SkippedWrite(Then, w) = <<>>
      \/ /\ Began(w, write') /\ Matches(write', Then.ctl)
         /\ SkippedWrite(Then, w) = <<WriteOf(write')>>
  <2>1. ViewTyped(Then) /\ GoodWrite(w) /\ Alone(w)
    BY <1>0, <1>2, <1>3
  <2>2. \/ skip_empty_review(Then, w) = w /\ SkippedWrite(Then, w) = <<>>
        \/ /\ Began(w, skip_empty_review(Then, w))
           /\ Matches(skip_empty_review(Then, w), Then.ctl)
           /\ SkippedWrite(Then, w) = <<WriteOf(skip_empty_review(Then, w))>>
    BY <2>1, SkipBegins
  <2> QED
    BY <1>1, <2>2
<1>6. CASE write' = w /\ SkippedWrite(Then, w) = <<>>
  <2>1. UNCHANGED cmds
    BY <1>0, <1>1, <1>6 DEF Sends
  <2>2. QuietCmds
    BY <1>0, <2>1, SameCmds
  <2>3. OneWrite'
    BY <1>0, <1>3, <1>6, <2>2, QuietWrites DEF AloneInv
  <2>4. \A q \in Port : ~Waiting(write', q)
    BY <1>0, <1>3, <1>6 DEF SinglePort
  <2>5. AloneInv'
    BY <1>0, <1>3, <1>6, <2>2, <2>3, <2>4 DEF AloneInv, ReadComes, QuietCmds, QuietEvts
  <2>6. Matches(write, ctl) => Matches(w, ctl)
    BY <1>3 DEF Matches, AtStage
  <2>7. w \in WriteState
    BY <1>2 DEF GoodWrite
  <2>8. Matches(w, ctl) => Matches(w, ctl')
    BY <1>4, <2>7, FadeFits
  <2> QED
    BY <1>6, <2>5, <2>6, <2>8 DEF Carried
<1>7. CASE /\ Began(w, write') /\ Matches(write', Then.ctl)
           /\ SkippedWrite(Then, w) = <<WriteOf(write')>>
  <2>1. Began(write, write') /\ Sends(<<WriteOf(write')>>)
    BY <1>1, <1>3, <1>7 DEF Began
  <2>2. WriteOf(write') \in Command
    <3>1. write'.running # Nothing /\ write' \in WriteState
      BY <1>0, <2>1 DEF Began, GoodWrite
    <3> QED
      BY <3>1 DEF WriteOf, WriteState, Command
  <2>3. Matches(write', ctl')
    BY <1>7 DEF Then
  <2> QED
    BY <1>0, <2>1, <2>2, <2>3, BeginStep
<1> QED
  BY <1>5, <1>6, <1>7

-------------------------------------------------------------------------------
(*****************************************************************************)
(* The answer of a write, and the worker.                                   *)
(*****************************************************************************)
LEMMA WrittenEdits ==
  ASSUME NEW c \in Controller, NEW results
  PROVE  \A s \in Slot : Written(c, results).edited[s] \in {Nothing, c.edited[s]}
<1> DEFINE jobs == write.running.jobs
           done == 1..FirstFailure(jobs, results) - 1
           cleared == {results[i].slot : i \in {j \in done : jobs[j].value = Nothing}}
           uploaded == {results[i].slot : i \in done} \ cleared
           a == [s \in Slot |->
                   IF s \in cleared THEN Nothing
                   ELSE IF s \in uploaded /\ c.edited[s] # Nothing THEN c.edited[s] ELSE c.pad[s]]
           e == [s \in Slot |-> IF s \in cleared \cup uploaded THEN Nothing ELSE c.edited[s]]
<1>1. Written(c, results) = [c EXCEPT !.pad = a, !.edited = e]
  BY DEF Written, Controller
<1> HIDE DEF cleared, uploaded
<1>2. \A s \in Slot : e[s] \in {Nothing, c.edited[s]}
  OBVIOUS
<1> HIDE DEF a, e
<1> QED
  BY <1>1, <1>2 DEF Controller

LEMMA WrittenCarried ==
  ASSUME Taking, HandleWritten
  PROVE  /\ Carried /\ write.running # Nothing /\ AnswerOf(E, write.running)
         /\ Ended(write, write') /\ ~HasWritten(evts') /\ ~HasWrite(cmds)
<1> DEFINE p == E.port
           q == relock.after_write
           chained == write'.batch = Nothing /\ q # Nothing
           goes == chained /\ relock.sent = Nothing /\ q \in listed(Then) /\ ctl'[q].there
           t == IF goes THEN <<[op |-> "relock", port |-> q]>> ELSE <<>>
<1>0. CtlTyped /\ p \in Port /\ GoodWrite(write) /\ write \in WriteState /\ QuietEvts
      /\ cmds \in Seq(Command) /\ (ctl[p] # Nothing => ctl[p] \in Controller) /\ SinglePort /\ AloneInv
      /\ evts \in Seq(Event) /\ evts # <<>> /\ evts' = Tail(evts) /\ E \in Event
  BY TakingParts DEF Taking
<1>1. /\ E.type = "written" /\ Sends(<<ReadOf(p)>> \o t)
      /\ write' = batch_after_write(write_finished(write, p, E.results))
  BY DEF HandleWritten, Takes
<1>2. E.results \in Seq([slot: Slot, success: BOOLEAN])
  BY <1>0, <1>1 DEF Event
<1>3. QuietCmds
  <2>1. q \in Port \cup {Nothing}
    BY DEF Taking, WindowInv, RelockTyped
  <2>2. t \in Seq(Command) /\ \A i \in DOMAIN t : t[i].op \in {"read", "relock"}
    <3>1. ASSUME q \in Port PROVE [op |-> "relock", port |-> q] \in Command
      BY <3>1, ReadTyped
    <3> QED
      BY <2>1, <3>1
  <2> DEFINE c == ReadOf(p)
             u == <<c>> \o t
  <2>3. c \in Command /\ c.op = "read"
    BY <1>0 DEF ReadOf, Command
  <2> HIDE DEF t, c
  <2>4. u \in Seq(Command) /\ \A i \in DOMAIN u : u[i].op \in {"read", "relock"}
    <3>1. u \in Seq(Command) /\ Len(u) = Len(t) + 1 /\ u[1] = c
          /\ \A i \in 2..Len(u) : u[i] = t[i - 1] /\ i - 1 \in DOMAIN t
      BY <2>2, <2>3
    <3> QED
      BY <2>2, <2>3, <3>1
  <2>5. Sends(u)
    BY <1>1 DEF c
  <2> HIDE DEF u
  <2> QED
    BY <1>0, <2>4, <2>5, SendsQuietly
<1> HIDE DEF t
<1>4. OneWrite' /\ write.running # Nothing /\ AnswerOf(E, write.running)
      /\ ~HasWrite(cmds) /\ ~HasWritten(evts')
  BY <1>0, <1>1, <1>3, EndsWrite DEF AloneInv
<1>5. p = write.running.port
  BY <1>4 DEF AnswerOf
<1>6. Ended(write, write') /\ \A c : Matches(write, c) => Matches(write', c)
  <2>1. Alone(write)
    BY <1>0 DEF AloneInv
  <2> HIDE DEF p
  <2> QED
    BY <1>0, <1>1, <1>2, <1>4, <1>5, <2>1, RunEnds
<1>7. \A x \in Port : Faded(x)
  <2>1. CASE ctl[p] = Nothing
    <3>1. ctl' = [ctl EXCEPT ![p] = Nothing]
      BY <2>1 DEF HandleWritten
    <3> QED
      BY <1>0, <3>1, EntryGone
  <2>2. CASE ctl[p] # Nothing
    <3> DEFINE c == Written(ctl[p], E.results)
               d == [c EXCEPT !.reading = TRUE]
    <3>1. c \in Controller /\ \A s \in Slot : c.edited[s] \in {Nothing, ctl[p].edited[s]}
      BY <1>0, <2>2, WrittenTyped, WrittenEdits
    <3>2. c # Nothing
      BY <3>1, NothingIsNoRecord
    <3>3. ctl' = [ctl EXCEPT ![p] = d]
      BY <1>4, <2>2, <3>2 DEF HandleWritten
    <3> HIDE DEF c
    <3>4. d.edited = c.edited
      BY <3>1 DEF Controller
    <3> HIDE DEF d, p
    <3>5. ctl'[p] = d /\ \A x \in Port : x = p
      BY <1>0, <3>3, OneEntry
    <3> QED
      BY <2>2, <3>1, <3>4, <3>5 DEF Faded
  <2> QED
    BY <2>1, <2>2
<1>8. \A x : ~Waiting(write', x)
  BY <1>6 DEF Ended, Waiting, WaitsFor, AtStage
<1>9. AloneInv'
  BY <1>0, <1>3, <1>4, <1>6, <1>8 DEF AloneInv, ReadComes, Ended, QuietCmds, QuietEvts
<1>10. Matches(write, ctl) => Matches(write', ctl')
  <2>1. write' \in WriteState
    BY TakingParts DEF GoodWrite
  <2> QED
    BY <1>6, <1>7, <2>1, FadeFits
<1> QED
  BY <1>4, <1>6, <1>9, <1>10 DEF Carried

LEMMA HandleCarried ==
  ASSUME WindowInv, WindowInv', AloneInv, SinglePort, ~StepsFail, Handle
  PROVE  Carried
<1>1. Taking
  BY DEF Taking, Handle, Takes, HandlePresent, HandleGone, HandleRead, HandleUnread, HandleForeign,
         HandleStepless, HandleWritten, HandleRelocked, HandleNotRelocked
<1> QED
  BY <1>1, PresentCarried, GoneCarried, ReadCarried, UnreadCarried, SteplessCarried,
     WrittenCarried, RelockedCarried DEF Handle

-------------------------------------------------------------------------------
\* The worker.
LEMMA WorkCarried ==
  ASSUME AloneInv, WindowInv, UNCHANGED <<ctl, write>>, QuietCmds, QuietEvts
  PROVE  Carried
<1>1. GoodWrite(write) /\ write \in WriteState
  BY DEF WindowInv, GoodWrite
<1>2. UNCHANGED ctl /\ UNCHANGED write
  OBVIOUS
<1> QED
  BY <1>1, <1>2, SameWrite, EntriesStay, QuietStep

LEMMA DisconnectedQuietly ==
  ASSUME evts \in Seq(Event), NEW p \in Port, Disconnected(p)
  PROVE  QuietEvts
<1> DEFINE e == [type |-> "presence", port |-> p, there |-> FALSE]
<1>1. e \in Event /\ e.type = "presence" /\ Emit(e)
  BY EventTyped DEF Disconnected
<1> HIDE DEF e
<1> QED
  BY <1>1, EmitsQuietly

LEMMA WriteServed ==
  ASSUME WindowInv, AloneInv, WorkWrite, UNCHANGED <<ctl, write>>
  PROVE  /\ AloneInv' /\ ~HasWrite(cmds') /\ write.running # Nothing
         /\ \E e \in Event : e.type = "written" /\ Emit(e)
<1>0. cmds \in Seq(Command) /\ evts \in Seq(Event)
  BY DEF WindowInv, QueuesTyped
<1>1. cmds # <<>> /\ cmds' = Tail(cmds) /\ C.op = "write"
  BY DEF WorkWrite, Serves
<1>2. C \in Command /\ C.port \in Port
  BY <1>0, <1>1, ServesKeep
<1>3. C.jobs \in Seq(WriteJob)
  BY <1>1, <1>2 DEF Command
<1>4. PICK n \in 0..Len(C.jobs) :
        Emit([type |-> "written", port |-> C.port,
              results |-> [i \in 1..Len(C.jobs) |->
                             [slot |-> C.jobs[i].slot, success |-> i <= n]]])
  BY DEF WorkWrite
<1> DEFINE r == [i \in 1..Len(C.jobs) |-> [slot |-> C.jobs[i].slot, success |-> i <= n]]
           e == [type |-> "written", port |-> C.port, results |-> r]
<1>5. r \in Seq([slot: Slot, success: BOOLEAN]) /\ Len(r) = Len(C.jobs)
      /\ \A i \in 1..Len(C.jobs) : r[i].slot = C.jobs[i].slot
  <2>1. \A i \in 1..Len(C.jobs) : C.jobs[i].slot \in Slot
    <3> SUFFICES ASSUME NEW i \in 1..Len(C.jobs) PROVE C.jobs[i].slot \in Slot
      OBVIOUS
    <3>1. C.jobs[i] \in WriteJob
      BY <1>3
    <3> QED
      BY <3>1 DEF WriteJob
  <2>2. Len(C.jobs) \in Nat
    BY <1>3
  <2> DEFINE m == Len(C.jobs)
             S == [slot: Slot, success: BOOLEAN]
  <2>3. \A i \in 1..m : r[i] = [slot |-> C.jobs[i].slot, success |-> i <= n]
    OBVIOUS
  <2>4. \A i \in 1..m : r[i].slot = C.jobs[i].slot
    BY <2>3
  <2>5. \A i \in 1..m : r[i] \in S
    <3> SUFFICES ASSUME NEW i \in 1..m PROVE r[i] \in S
      OBVIOUS
    <3>1. C.jobs[i].slot \in Slot /\ (i <= n) \in BOOLEAN
      BY <2>1
    <3> QED
      BY <2>3, <3>1
  <2>6. DOMAIN r = 1..m /\ r = [i \in 1..m |-> r[i]]
    OBVIOUS
  <2> HIDE DEF S, r
  <2>7. r \in Seq(S) /\ Len(r) = m
    BY <2>2, <2>5, <2>6
  <2> QED
    BY <2>4, <2>7 DEF S
<1> HIDE DEF r
<1>6. e \in Event /\ e.type = "written" /\ e.port = C.port /\ e.results = r
  BY <1>2, <1>5 DEF Event
<1>7. Emit(e)
  BY <1>4 DEF r
<1> HIDE DEF e
<1>8. AnswerOf(e, C)
  BY <1>5, <1>6 DEF AnswerOf
<1>9. OneWrite' /\ ~HasWrite(cmds') /\ ~SteplessIn(evts') /\ write.running # Nothing
  BY <1>0, <1>1, <1>6, <1>7, <1>8, ServesWrite DEF AloneInv
<1>10. QuietCmds
  BY <1>0, <1>1, TailCmds
<1>11. AloneInv'
  BY <1>9, <1>10 DEF AloneInv, ReadComes, QuietCmds
<1> QED
  BY <1>6, <1>7, <1>9, <1>11

LEMMA WorkerCarried ==
  ASSUME WindowInv, AloneInv, Worker
  PROVE  Carried
<1>0. UNCHANGED <<ctl, write>> /\ cmds \in Seq(Command) /\ evts \in Seq(Event)
  BY DEF Worker, WindowInv, QueuesTyped
<1>1. CASE WorkRead
  <2>1. cmds # <<>> /\ cmds' = Tail(cmds) /\ PadsTyped
    BY <1>1 DEF WorkRead, Serves, WindowInv
  <2>2. C.port \in Port
    BY <1>0, <2>1, ServesKeep
  <2>3. QuietEvts
    <3>1. CASE Disconnected(C.port)
      BY <1>0, <2>2, <3>1, DisconnectedQuietly
    <3>2. CASE ~Disconnected(C.port)
      <4>1. PICK e \in Event : e.type \notin {"written", "stepless"} /\ Emit(e)
        <5>1. CASE pad[C.port] \in Contents
                   /\ Emit([type |-> "read", port |-> C.port, pad |-> pad[C.port]])
          <6> DEFINE e == [type |-> "read", port |-> C.port, pad |-> pad[C.port]]
          <6>1. e \in Event /\ e.type = "read" /\ Emit(e)
            BY <2>2, <5>1, EventTyped
          <6> HIDE DEF e
          <6> QED
            BY <6>1
        <5>2. CASE Emit([type |-> "foreign", port |-> C.port])
          <6> DEFINE e == [type |-> "foreign", port |-> C.port]
          <6>1. e \in Event /\ e.type = "foreign" /\ Emit(e)
            BY <2>2, <5>2, EventTyped
          <6> HIDE DEF e
          <6> QED
            BY <6>1
        <5>3. CASE Emit([type |-> "unread", port |-> C.port])
          <6> DEFINE e == [type |-> "unread", port |-> C.port]
          <6>1. e \in Event /\ e.type = "unread" /\ Emit(e)
            BY <2>2, <5>3, EventTyped
          <6> HIDE DEF e
          <6> QED
            BY <6>1
        <5> QED
          BY <1>1, <3>2, <5>1, <5>2, <5>3, Zenon DEF WorkRead
      <4> QED
        BY <1>0, <4>1, EmitsQuietly
    <3> QED
      BY <3>1, <3>2
  <2> QED
    BY <1>0, <2>1, <2>3, TailCmds, WorkCarried
<1>2. CASE WorkSteps
  <2>1. cmds # <<>> /\ C.op = "steps"
    BY <1>2 DEF WorkSteps, Serves
  <2>2. 1 \in DOMAIN cmds /\ cmds[1].op = "steps"
    BY <1>0, <2>1 DEF C
  <2>3. StepsIn(cmds)
    BY <2>2, Zenon DEF StepsIn
  <2> QED
    BY <2>3 DEF AloneInv
<1>3. CASE WorkWrite
  <2>1. AloneInv' /\ ctl' = ctl /\ write' = write
    BY <1>0, <1>3, WriteServed
  <2> QED
    BY <2>1 DEF Carried
<1>4. CASE WorkRelock
  <2>1. cmds # <<>> /\ cmds' = Tail(cmds)
    BY <1>4 DEF WorkRelock, Serves
  <2>2. C.port \in Port
    BY <1>0, <2>1, ServesKeep
  <2>3. PICK ok \in BOOLEAN : Emit([type |-> "relock", port |-> C.port, ok |-> ok])
    BY <1>4 DEF WorkRelock
  <2> DEFINE e == [type |-> "relock", port |-> C.port, ok |-> ok]
  <2>4. e \in Event /\ e.type = "relock" /\ Emit(e)
    BY <2>2, <2>3, EventTyped
  <2> HIDE DEF e
  <2>5. QuietEvts
    BY <1>0, <2>4, EmitsQuietly
  <2> QED
    BY <1>0, <2>1, <2>5, TailCmds, WorkCarried
<1>5. CASE \E p \in Port : Poll(p)
  <2>1. PICK p \in Port : Poll(p)
    BY <1>5
  <2> DEFINE e == [type |-> "presence", port |-> p, there |-> pad[p] # Nothing]
  <2>2. e \in Event /\ e.type = "presence" /\ Emit(e) /\ UNCHANGED cmds
    BY <2>1, EventTyped DEF Poll
  <2> HIDE DEF e
  <2>3. QuietEvts
    BY <1>0, <2>2, EmitsQuietly
  <2> QED
    BY <1>0, <2>2, <2>3, SameCmds, WorkCarried
<1> QED
  BY <1>1, <1>2, <1>3, <1>4, <1>5 DEF Worker

-------------------------------------------------------------------------------
(*****************************************************************************)
(* The user, for one port.                                                  *)
(*****************************************************************************)
\* What holds when the user acts.
Acting == WindowInv /\ AloneInv /\ SinglePort /\ UNCHANGED evts

LEMMA ActingParts ==
  ASSUME Acting
  PROVE  /\ CtlTyped /\ ViewInv /\ GoodWrite(write) /\ write \in WriteState /\ QuietEvts
         /\ cmds \in Seq(Command) /\ AloneInv /\ SinglePort /\ Alone(write) /\ AsksTyped
<1>1. cmds \in Seq(Command) /\ evts \in Seq(Event) /\ ViewInv /\ CtlTyped /\ GoodWrite(write)
      /\ AsksTyped
  BY DEF Acting, WindowInv, QueuesTyped, ViewInv
<1>2. QuietEvts
  BY <1>1, SameEvts DEF Acting
<1> QED
  BY <1>1, <1>2 DEF GoodWrite, Acting, AloneInv

\* Where a write may start, nothing of another stands.
Empty(w) == /\ w.reading_for = Nothing /\ w.review = Nothing /\ w.clearing = Nothing
            /\ w.failed = Nothing /\ w.running = Nothing /\ w.batch = Nothing

LEMMA IdleIsEmpty ==
  ASSUME Acting, idle(Now, write)
  PROVE  /\ Empty(write) /\ active(Now) \in Port /\ ctl[active(Now)] # Nothing
         /\ ctl[active(Now)] \in Controller
<1> DEFINE p == active(Now)
<1>1. p \in Port /\ Of(Now) = ctl[p] /\ ctl[p] # Nothing /\ ctl[p] \in Controller
  BY ActingParts, ActivePart DEF idle
<1>2. ctl[p].there /\ ~ctl[p].reading
  BY <1>1 DEF idle
<1>3. ~Waiting(write, p)
  BY <1>1, <1>2 DEF Acting, AloneInv, ReadComes
<1>4. write.reading_for = Nothing
  <2>1. SUFFICES ASSUME write.reading_for # Nothing PROVE FALSE
    OBVIOUS
  <2>2. write.reading_for \in Target
    BY <2>1, ActingParts DEF WriteState
  <2>3. write.reading_for.port = p
    BY <1>1, <2>2 DEF Target, Acting, SinglePort
  <2> QED
    BY <1>3, <2>1, <2>3 DEF Waiting, WaitsFor
<1> QED
  BY <1>1, <1>4 DEF idle, Empty

\* No dialog shows: nothing runs and nothing failed.
LEMMA FreeIsCalm ==
  ASSUME Acting, Free
  PROVE  write.running = Nothing /\ write.failed = Nothing /\ ~AtStage(write, {"running", "failed"})
<1>1. /\ 6 \in DOMAIN Dialogs /\ Dialogs[6] = "failed" /\ 8 \in DOMAIN Dialogs
      /\ Dialogs[8] = "batch_failed" /\ 9 \in DOMAIN Dialogs /\ Dialogs[9] = "batch_writing"
      /\ 10 \in DOMAIN Dialogs /\ Dialogs[10] = "writing"
  BY DEF Dialogs
<1>2. ~Shows("failed") /\ ~Shows("batch_failed") /\ ~Shows("batch_writing") /\ ~Shows("writing")
  BY <1>1 DEF Free
<1>3. write.failed = Nothing
  BY <1>2 DEF Shows
<1>4. ~AtStage(write, {"failed"})
  BY <1>2 DEF Shows
<1>5. ~AtStage(write, {"running"})
  BY <1>2 DEF Shows
<1>6. ~(write.running # Nothing /\ write.batch = Nothing)
  BY <1>2 DEF Shows
<1>7. Alone(write)
  BY ActingParts
<1>8. write.running = Nothing
  BY <1>5, <1>6, <1>7 DEF Alone, AtStage
<1> QED
  BY <1>3, <1>4, <1>5, <1>8 DEF AtStage

\* A stage opens over an empty one.
LEMMA StageOpens ==
  ASSUME Acting, Empty(write), Alone(write'), write'.running = Nothing, write'.failed = Nothing,
         ~AtStage(write', {"running", "failed"}), QuietCmds,
         \A p \in Port : Waiting(write', p) => ctl'[p] = Nothing \/ ctl'[p].reading
  PROVE  Carried
<1>1. OneWrite'
  BY ActingParts, QuietWrites DEF AloneInv, Empty
<1>2. ReadComes'
  BY DEF ReadComes
<1>3. ~StepsIn(cmds') /\ ~SteplessIn(evts')
  BY ActingParts DEF AloneInv, QuietCmds, QuietEvts
<1>4. Matches(write', ctl')
  BY DEF Matches
<1> QED
  BY <1>1, <1>2, <1>3, <1>4 DEF Carried, AloneInv

\* A read starts.
LEMMA ReadStarts ==
  ASSUME Acting, NEW p \in Port, ctl[p] # Nothing, Reads(p)
  PROVE  /\ QuietCmds
         /\ \A q \in Port : ctl'[q].reading /\ Awaits(q) /\ Faded(q)
<1> DEFINE c == [ctl[p] EXCEPT !.reading = TRUE]
<1>1. ctl[p] \in Controller /\ CtlTyped /\ SinglePort /\ cmds \in Seq(Command)
  BY ActingParts DEF CtlTyped
<1>2. ctl' = [ctl EXCEPT ![p] = c]
  BY <1>1 DEF Reads, CtlTyped, Controller
<1>3. c.reading /\ c.edited = ctl[p].edited
  BY <1>1 DEF Controller
<1> HIDE DEF c
<1>4. ctl'[p] = c /\ \A q \in Port : q = p
  BY <1>1, <1>2, OneEntry
<1>5. QuietCmds
  <2>1. ReadOf(p) \in Command /\ ReadOf(p).op = "read"
    BY DEF ReadOf, Command
  <2> QED
    BY <1>1, <2>1, SendsOne DEF Reads
<1> QED
  BY <1>3, <1>4, <1>5 DEF Awaits, Faded

\* An edit of the controller that shows.
LEMMA EditAwaits ==
  ASSUME Acting, active(Now) # Nothing, NEW s \in Slot, NEW v \in Held,
         ctl' = [ctl EXCEPT ![active(Now)].edited[s] = v]
  PROVE  \A q \in Port : Awaits(q)
<1> DEFINE p == active(Now)
           c == [ctl[p] EXCEPT !.edited[s] = v]
<1>1. p \in Port /\ ctl[p] \in Controller /\ ctl[p] # Nothing /\ CtlTyped /\ SinglePort
  BY ActingParts, ActivePart
<1>2. ctl' = [ctl EXCEPT ![p] = c]
  BY <1>1 DEF CtlTyped, Controller
<1>3. c.reading = ctl[p].reading /\ c.there = ctl[p].there
  BY <1>1 DEF Controller
<1> HIDE DEF p, c
<1>4. ctl'[p] = c /\ \A q \in Port : q = p
  BY <1>1, <1>2, OneEntry
<1> QED
  BY <1>1, <1>3, <1>4 DEF Awaits

-------------------------------------------------------------------------------
LEMMA EditCarried ==
  ASSUME Acting, Free, (\E v \in Value : Edit(v)) \/ discard
  PROVE  Carried
<1>1. PICK s \in Slot, v \in Held :
        active(Now) # Nothing /\ ctl' = [ctl EXCEPT ![active(Now)].edited[s] = v]
  <2>1. selected \in Slot
    BY ActingParts DEF ViewInv, ShownTyped
  <2>2. discard => active(Now) # Nothing
    BY DEF discard, edited_slots
  <2> QED
    BY <2>1, <2>2, Zenon DEF Edit, discard, Held
<1>2. UNCHANGED cmds /\ UNCHANGED write
  BY DEF Edit, discard
<1>3. AloneInv'
  BY <1>1, <1>2, ActingParts, EditAwaits, SameWrite, SameCmds, QuietAlone
<1>4. Matches(write', ctl')
  BY <1>2, FreeIsCalm DEF Matches
<1> QED
  BY <1>3, <1>4 DEF Carried

LEMMA LessSelecting ==
  ASSUME write \in WriteState, NEW s, write' = Selecting(s)
  PROVE  Less(write, write')
BY DEF Selecting, WriteState, Less

\* Nothing opens where the user only looks.
LEMMA SelectLess ==
  ASSUME Acting, \/ \E s \in Slot : select(s)
                 \/ \E p \in Port : pick_controller(p)
                 \/ relock_clicked \/ import_file \/ close_requested
  PROVE  Less(write, write') /\ UNCHANGED ctl
<1>0. UNCHANGED ctl
  BY DEF select, pick_controller, relock_clicked, import_file, close_requested
<1>1. Less(write, write')
  <2>1. ASSUME NEW s \in Slot, select(s) PROVE Less(write, write')
    BY <2>1, ActingParts, LessSelecting DEF select
  <2>2. ASSUME NEW p \in Port, pick_controller(p) PROVE Less(write, write')
    <3> DEFINE w == [write EXCEPT !.reading_for = Nothing]
    <3>1. w \in WriteState /\ Less(write, w)
      BY ActingParts, Drops DEF WriteState
    <3>2. write' = drop_waiting_batch(w)
      BY <2>2 DEF pick_controller
    <3> HIDE DEF w
    <3> QED
      BY <3>1, <3>2, Drops, LessTwice
  <2>3. CASE relock_clicked \/ import_file \/ close_requested
    BY <2>3, ActingParts, SameWrite DEF relock_clicked, import_file, close_requested
  <2> QED
    BY <2>1, <2>2, <2>3
<1> QED
  BY <1>0, <1>1

LEMMA SelectCarried ==
  ASSUME Acting, \/ \E s \in Slot : select(s)
                 \/ \E p \in Port : pick_controller(p)
                 \/ relock_clicked \/ import_file \/ close_requested
  PROVE  Carried
<1>1. Less(write, write') /\ UNCHANGED ctl
  BY SelectLess
<1>2. QuietCmds
  <2>1. CASE UNCHANGED cmds
    BY <2>1, ActingParts, SameCmds
  <2>2. CASE relock_clicked /\ Sends(<<[op |-> "relock", port |-> active(Now)]>>)
    <3> DEFINE c == [op |-> "relock", port |-> active(Now)]
    <3>1. active(Now) \in Port
      BY <2>2, ActingParts, ActivePart DEF relock_clicked, relock_available
    <3>2. c \in Command /\ c.op = "relock" /\ Sends(<<c>>)
      BY <2>2, <3>1, ReadTyped
    <3> HIDE DEF c
    <3> QED
      BY <3>2, ActingParts, SendsOne
  <2> QED
    BY <2>1, <2>2 DEF select, pick_controller, relock_clicked, import_file, close_requested
<1> QED
  BY <1>1, <1>2, ActingParts, EntriesStay, QuietStep

LEMMA ReviewCarried ==
  ASSUME Acting, begin_review
  PROVE  Carried
<1> DEFINE p == active(Now)
           t == [port |-> p, slot |-> selected]
<1>1. Empty(write) /\ p \in Port /\ ctl[p] # Nothing
  BY IdleIsEmpty DEF begin_review
<1>2. Reads(p) /\ write' = [write EXCEPT !.reading_for = t] /\ write \in WriteState
  BY ActingParts DEF begin_review
<1> HIDE DEF t
<1>3. /\ write'.review = Nothing /\ write'.clearing = Nothing
      /\ write'.failed = Nothing /\ write'.running = Nothing /\ write'.batch = Nothing
  BY <1>1, <1>2 DEF Empty, WriteState
<1>4. Alone(write') /\ ~AtStage(write', {"running", "failed"})
  BY <1>3 DEF Alone, AtStage
<1> HIDE DEF p
<1>5. QuietCmds /\ \A q \in Port : ctl'[q].reading
  BY <1>1, <1>2, ReadStarts
<1> QED
  BY <1>1, <1>3, <1>4, <1>5, StageOpens

LEMMA BatchCarried ==
  ASSUME Acting, can_write_all, begin_batch
  PROVE  Carried
<1> DEFINE p == active(Now)
           b == [port |-> p, stage |-> "reading", jobs |-> <<>>, at |-> 0]
<1>1. Empty(write) /\ p \in Port /\ ctl[p] # Nothing
  BY IdleIsEmpty DEF can_write_all
<1>2. Reads(p) /\ write' = [write EXCEPT !.batch = b] /\ write \in WriteState
  BY ActingParts DEF begin_batch
<1>3. b.stage = "reading"
  OBVIOUS
<1> HIDE DEF b
<1>4. /\ write'.review = Nothing /\ write'.clearing = Nothing /\ write'.reading_for = Nothing
      /\ write'.failed = Nothing /\ write'.running = Nothing /\ write'.batch = b
  BY <1>1, <1>2 DEF Empty, WriteState
<1>5. Alone(write') /\ ~AtStage(write', {"running", "failed"})
  BY <1>3, <1>4 DEF Alone, AtStage
<1> HIDE DEF p
<1>6. QuietCmds /\ \A q \in Port : ctl'[q].reading
  BY <1>1, <1>2, ReadStarts
<1> QED
  BY <1>1, <1>4, <1>5, <1>6, StageOpens

LEMMA ClearCarried ==
  ASSUME Acting, begin_clear
  PROVE  Carried
<1> DEFINE t == [port |-> active(Now), slot |-> selected]
<1>1. Empty(write)
  BY IdleIsEmpty DEF begin_clear
<1>2. UNCHANGED cmds /\ write' = [write EXCEPT !.clearing = t] /\ write \in WriteState
  BY ActingParts DEF begin_clear
<1> HIDE DEF t
<1>3. /\ write'.review = Nothing /\ write'.reading_for = Nothing
      /\ write'.failed = Nothing /\ write'.running = Nothing /\ write'.batch = Nothing
  BY <1>1, <1>2 DEF Empty, WriteState
<1>4. Alone(write') /\ ~AtStage(write', {"running", "failed"}) /\ \A q : ~Waiting(write', q)
  BY <1>3 DEF Alone, AtStage, Waiting, WaitsFor
<1>5. QuietCmds
  BY <1>2, ActingParts, SameCmds
<1> QED
  BY <1>1, <1>3, <1>4, <1>5, StageOpens

LEMMA TryAgainCarried ==
  ASSUME Acting, TryAgain
  PROVE  Carried
<1>1. PICK p \in Failing : Reads(p)
  BY DEF TryAgain
<1>2. p \in Port /\ ctl[p] # Nothing
  <2>1. CASE active(Now) # Nothing /\ Of(Now).read_error
    BY <1>1, <2>1, ActingParts, ActivePart DEF Failing
  <2>2. CASE ~(active(Now) # Nothing /\ Of(Now).read_error)
    BY <1>1, <2>2 DEF Failing
  <2> QED
    BY <2>1, <2>2
<1>3. UNCHANGED write
  BY DEF TryAgain
<1>4. QuietCmds /\ \A q \in Port : Awaits(q) /\ Faded(q)
  BY <1>1, <1>2, ReadStarts
<1> QED
  BY <1>3, <1>4, ActingParts, SameWrite, QuietStep

-------------------------------------------------------------------------------
(*****************************************************************************)
(* The answers of the dialogs.                                              *)
(*****************************************************************************)
\* A review that opens begins its run, or nothing does.
LEMMA SkipStep ==
  ASSUME Acting, WindowInv', NEW w, GoodWrite(w), Less(write, w),
         write' = skip_empty_review(Then, w), Sends(SkippedWrite(Then, w)),
         \A p \in Port : Awaits(p) /\ Faded(p)
  PROVE  Carried
<1>0. CtlTyped /\ GoodWrite(write) /\ write \in WriteState /\ QuietEvts /\ cmds \in Seq(Command)
      /\ AloneInv /\ Alone(write)
  BY ActingParts
<1>1. ViewTyped(Then) /\ GoodWrite(write')
  BY ThenTyped DEF WindowInv, ViewInv
<1>2. Alone(w) /\ w.running = write.running
  BY <1>0, LessAlone DEF Less
<1>3. \/ write' = w /\ SkippedWrite(Then, w) = <<>>
      \/ /\ Began(w, write') /\ Matches(write', Then.ctl)
         /\ SkippedWrite(Then, w) = <<WriteOf(write')>>
  <2>1. \/ skip_empty_review(Then, w) = w /\ SkippedWrite(Then, w) = <<>>
        \/ /\ Began(w, skip_empty_review(Then, w))
           /\ Matches(skip_empty_review(Then, w), Then.ctl)
           /\ SkippedWrite(Then, w) = <<WriteOf(skip_empty_review(Then, w))>>
    BY <1>1, <1>2, SkipBegins
  <2> QED
    BY <2>1
<1>4. CASE write' = w /\ SkippedWrite(Then, w) = <<>>
  <2>1. UNCHANGED cmds /\ Less(write, write')
    BY <1>0, <1>4 DEF Sends
  <2>2. QuietCmds
    BY <1>0, <2>1, SameCmds
  <2> QED
    BY <1>0, <2>1, <2>2, QuietStep
<1>5. CASE /\ Began(w, write') /\ Matches(write', Then.ctl)
           /\ SkippedWrite(Then, w) = <<WriteOf(write')>>
  <2>1. Began(write, write') /\ Sends(<<WriteOf(write')>>)
    BY <1>2, <1>5 DEF Began
  <2>2. WriteOf(write') \in Command
    <3>1. write'.running # Nothing /\ write' \in WriteState
      BY <1>1, <2>1 DEF Began, GoodWrite
    <3> QED
      BY <3>1 DEF WriteOf, WriteState, Command
  <2>3. Matches(write', ctl')
    BY <1>5 DEF Then
  <2> QED
    BY <1>0, <2>1, <2>2, <2>3, BeginStep
<1> QED
  BY <1>3, <1>4, <1>5

LEMMA ChangedCarried ==
  ASSUME Acting, WindowInv', NEW keep, apply_changed(keep)
  PROVE  Carried
<1> DEFINE p == active(Now)
           c == [ctl[p] EXCEPT !.changed = {},
                               !.edited = [s \in Slot |->
                                 IF s \in changed_slots(Now) \ keep THEN Nothing ELSE @[s]]]
           u == settle_review(Then, write)
           w == settle_batch(Then, u)
<1>1. p # Nothing
  BY DEF apply_changed, Answers, Shows, changed_slots
<1>2. p \in Port /\ ctl[p] \in Controller /\ ctl[p] # Nothing /\ CtlTyped /\ SinglePort
      /\ GoodWrite(write) /\ write \in WriteState
  BY <1>1, ActingParts, ActivePart
<1>3. ctl' = [ctl EXCEPT ![p] = c]
  BY <1>2 DEF apply_changed, CtlTyped, Controller
<1>4. /\ c.reading = ctl[p].reading /\ c.there = ctl[p].there
      /\ \A s \in Slot : c.edited[s] \in {Nothing, ctl[p].edited[s]}
  BY <1>2 DEF Controller
<1>5. GoodWrite(u) /\ GoodWrite(w) /\ Less(write, w)
  <2>1. GoodWrite(u) /\ Less(write, u)
    BY <1>2, SettlesReview, Drops
  <2> HIDE DEF u
  <2>2. GoodWrite(w) /\ Less(u, w)
    BY <2>1, SettlesBatch, Drops DEF GoodWrite
  <2> QED
    BY <2>1, <2>2, LessTwice
<1>6. write' = skip_empty_review(Then, w) /\ Sends(SkippedWrite(Then, w))
  BY DEF apply_changed
<1> HIDE DEF p, c, w
<1>7. \A q \in Port : Awaits(q) /\ Faded(q)
  <2> DEFINE ok == FALSE
  <2>1. ok \in BOOLEAN /\ (ok \/ c.reading \/ ~c.there
          \/ (c.reading = ctl[p].reading /\ c.there = ctl[p].there)) /\ ~ok
    BY <1>4
  <2> HIDE DEF ok
  <2> QED
    BY <1>2, <1>3, <1>4, <2>1, EntryStays
<1> QED
  BY <1>5, <1>6, <1>7, SkipStep

\* The edits move from the only port to itself: to nothing.
LEMMA MoveCarried ==
  ASSUME Acting, answer_move
  PROVE  Carried
<1>0. UNCHANGED cmds /\ UNCHANGED write
  BY DEF answer_move
<1>1. \A q \in Port : Awaits(q) /\ Faded(q)
  <2>1. CASE UNCHANGED ctl
    BY <2>1, EntriesStay
  <2>2. CASE ~UNCHANGED ctl
    <3>1. PICK p \in move_candidates :
            ctl' = [q \in Port |->
               IF q = p THEN Nothing
               ELSE IF q = pending_move /\ ctl[pending_move] # Nothing
                    THEN Taken(ctl[pending_move], ctl[p]) ELSE ctl[q]]
      BY <2>2 DEF answer_move
    <3>2. p \in Port
      BY <3>1 DEF move_candidates, unplugged_with_edits, listed
    <3>3. ctl'[p] = Nothing
      BY <3>1, <3>2
    <3>4. \A q \in Port : q = p
      BY <3>2 DEF Acting, SinglePort
    <3> QED
      BY <3>3, <3>4 DEF Awaits, Faded
  <2> QED
    BY <2>1, <2>2
<1> QED
  BY <1>0, <1>1, ActingParts, SameWrite, SameCmds, QuietStep

\* A no.
LEMMA DeclineCarried ==
  ASSUME Acting, NEW w, Declines(w), Less(write, w), UNCHANGED ctl
  PROVE  Carried
<1>1. UNCHANGED cmds /\ Less(write, write')
  BY DEF Declines
<1> QED
  BY <1>1, ActingParts, EntriesStay, SameCmds, QuietStep

\* A yes.
LEMMA ConfirmCarried ==
  ASSUME Acting, WindowInv', NEW w, Confirms(w), Began(write, w), UNCHANGED ctl,
         Matches(write, ctl) => Matches(w, ctl)
  PROVE  Carried
<1>1. write' = w /\ Began(write, write') /\ Sends(<<WriteOf(write')>>)
  BY DEF Confirms
<1>2. WriteOf(write') \in Command
  <2>1. write'.running # Nothing /\ write' \in WriteState
    BY <1>1 DEF Began, GoodWrite, WindowInv
  <2> QED
    BY <2>1 DEF WriteOf, WriteState, Command
<1>3. Matches(write, ctl) => Matches(write', ctl')
  BY <1>1
<1> QED
  BY <1>1, <1>2, <1>3, ActingParts, BeginStep

LEMMA WriteAnswerCarried ==
  ASSUME Acting, WindowInv', AnswerWrite
  PROVE  Carried
<1>0. GoodWrite(write) /\ write \in WriteState /\ Alone(write) /\ CtlTyped /\ UNCHANGED ctl
      /\ ViewTyped(Now) /\ Now.ctl = ctl
  BY ActingParts, NowTyped DEF AnswerWrite, Now
<1>1. CASE /\ Answers("review")
           /\ Confirms(confirm_review(Now, write)) \/ Declines([write EXCEPT !.review = Nothing])
  <2>1. review_open(Now, write)
    BY <1>1 DEF Answers, Shows
  <2>2. Began(write, confirm_review(Now, write)) /\ Matches(confirm_review(Now, write), ctl)
    BY <1>0, <2>1, ReviewBegins
  <2>3. Less(write, [write EXCEPT !.review = Nothing])
    BY <1>0, Drops
  <2>4. CASE Confirms(confirm_review(Now, write))
    <3> DEFINE w == confirm_review(Now, write)
    <3>1. Confirms(w) /\ Began(write, w) /\ Matches(w, ctl)
      BY <2>2, <2>4
    <3> HIDE DEF w
    <3> QED
      BY <1>0, <3>1, ConfirmCarried
  <2>5. CASE Declines([write EXCEPT !.review = Nothing])
    BY <1>0, <2>3, <2>5, DeclineCarried
  <2> QED
    BY <1>1, <2>4, <2>5
<1>2. CASE /\ Answers("clear")
           /\ LET w == [write EXCEPT !.clearing = Nothing] IN
              \/ Confirms(start(w, write.clearing.port,
                                <<[slot |-> write.clearing.slot, value |-> Nothing]>>))
              \/ Declines(w)
  <2> DEFINE w == [write EXCEPT !.clearing = Nothing]
             p == write.clearing.port
             job == [slot |-> write.clearing.slot, value |-> Nothing]
             x == start(w, p, <<job>>)
  <2>1. write.clearing # Nothing
    BY <1>2 DEF Answers, Shows
  <2>2. p \in Port /\ job \in WriteJob /\ job.value = Nothing
    BY <1>0, <2>1 DEF WriteState, Target, WriteJob, Held
  <2>3. /\ w \in WriteState /\ w.reading_for = Nothing /\ w.review = Nothing /\ w.clearing = Nothing
        /\ w.failed = Nothing /\ w.batch = Nothing /\ write.running = Nothing
    BY <1>0, <2>1 DEF WriteState, Alone
  <2>4. Less(write, w)
    BY <1>0, Drops
  <2>5. CASE Confirms(x)
    <3> HIDE DEF w, p, job
    <3>1. Fits(ctl, p, job)
      BY <2>2 DEF Fits
    <3>2. Began(write, start(w, p, <<job>>)) /\ Matches(start(w, p, <<job>>), ctl)
      BY <2>2, <2>3, <3>1, OneJobBegins
    <3>3. Confirms(x) /\ Began(write, x) /\ Matches(x, ctl)
      BY <2>5, <3>2
    <3> HIDE DEF x
    <3> QED
      BY <1>0, <3>3, ConfirmCarried
  <2>6. CASE Declines(w)
    BY <1>0, <2>4, <2>6, DeclineCarried
  <2> QED
    BY <1>2, <2>5, <2>6
<1>3. CASE /\ Answers("failed")
           /\ LET w == [write EXCEPT !.failed = Nothing] IN
              Confirms(start(w, write.failed.port, <<write.failed.job>>)) \/ Declines(w)
  <2> DEFINE w == [write EXCEPT !.failed = Nothing]
             p == write.failed.port
             job == write.failed.job
             x == start(w, p, <<job>>)
  <2>1. write.failed # Nothing
    BY <1>3 DEF Answers, Shows
  <2>2. p \in Port /\ job \in WriteJob
    BY <1>0, <2>1 DEF WriteState
  <2>3. /\ w \in WriteState /\ w.reading_for = Nothing /\ w.review = Nothing /\ w.clearing = Nothing
        /\ w.failed = Nothing /\ w.batch = Nothing /\ write.running = Nothing
    BY <1>0, <2>1 DEF WriteState, Alone
  <2>4. Less(write, w)
    BY <1>0, Drops
  <2>5. CASE Confirms(x)
    <3>1. Matches(write, ctl) => Fits(ctl, p, job)
      BY <2>1 DEF Matches
    <3> HIDE DEF w, p, job
    <3>2. ASSUME Fits(ctl, p, job)
          PROVE  Began(write, start(w, p, <<job>>)) /\ Matches(start(w, p, <<job>>), ctl)
      BY <2>2, <2>3, <3>2, OneJobBegins
    <3>3. Began(write, start(w, p, <<job>>))
      <4> DEFINE e == [q \in Port |-> Nothing]
      <4>1. Fits(e, p, job)
        BY <2>2 DEF Fits
      <4> HIDE DEF e
      <4> QED
        BY <2>2, <2>3, <4>1, OneJobBegins
    <3>4. Confirms(x) /\ Began(write, x) /\ (Matches(write, ctl) => Matches(x, ctl))
      BY <2>5, <3>1, <3>2, <3>3
    <3> HIDE DEF x
    <3> QED
      BY <1>0, <3>4, ConfirmCarried
  <2>6. CASE Declines(w)
    BY <1>0, <2>4, <2>6, DeclineCarried
  <2> QED
    BY <1>3, <2>5, <2>6
<1>4. CASE Answers("batch_review") /\ (Confirms(confirm_batch(Now, write)) \/ Declines(end_batch))
  <2>1. batch_review_open(Now, write)
    BY <1>4 DEF Answers, Shows
  <2>2. Began(write, confirm_batch(Now, write)) /\ Matches(confirm_batch(Now, write), ctl)
    BY <1>0, <2>1, BatchRuns
  <2>3. Less(write, end_batch)
    BY <1>0, Drops DEF end_batch
  <2>4. CASE Confirms(confirm_batch(Now, write))
    <3> DEFINE w == confirm_batch(Now, write)
    <3>1. Confirms(w) /\ Began(write, w) /\ Matches(w, ctl)
      BY <2>2, <2>4
    <3> HIDE DEF w
    <3> QED
      BY <1>0, <3>1, ConfirmCarried
  <2>5. CASE Declines(end_batch)
    BY <1>0, <2>3, <2>5, DeclineCarried
  <2> QED
    BY <1>4, <2>4, <2>5
<1>5. CASE Answers("batch_failed") /\ (Confirms(retry_batch(write)) \/ Declines(end_batch))
  <2>1. AtStage(write, {"failed"})
    BY <1>5 DEF Answers, Shows
  <2>2. Began(write, retry_batch(write)) /\ (Matches(write, ctl) => Matches(retry_batch(write), ctl))
    <3>1. ASSUME Matches(write, ctl)
          PROVE  Began(write, retry_batch(write)) /\ Matches(retry_batch(write), ctl)
      BY <1>0, <2>1, <3>1, RetryBegins
    <3>2. Began(write, retry_batch(write))
      <4> DEFINE e == [q \in Port |-> Nothing]
      <4>1. Matches(write, e)
        <5>1. \A q \in Port : \A job : Fits(e, q, job)
          BY DEF Fits
        <5>2. write.running = Nothing /\ write.failed = Nothing /\ write.batch.port \in Port
          BY <1>0, <2>1 DEF Alone, AtStage, WriteState, Batch
        <5> HIDE DEF e
        <5> QED
          BY <5>1, <5>2 DEF Matches, AllFit
      <4> HIDE DEF e
      <4> QED
        BY <1>0, <2>1, <4>1, RetryBegins
    <3> QED
      BY <3>1, <3>2
  <2>3. Less(write, end_batch)
    BY <1>0, Drops DEF end_batch
  <2>4. CASE Confirms(retry_batch(write))
    <3> DEFINE w == retry_batch(write)
    <3>1. Confirms(w) /\ Began(write, w) /\ (Matches(write, ctl) => Matches(w, ctl))
      BY <2>2, <2>4
    <3> HIDE DEF w
    <3> QED
      BY <1>0, <3>1, ConfirmCarried
  <2>5. CASE Declines(end_batch)
    BY <1>0, <2>3, <2>5, DeclineCarried
  <2> QED
    BY <1>5, <2>4, <2>5
<1> QED
  BY <1>1, <1>2, <1>3, <1>4, <1>5 DEF AnswerWrite

-------------------------------------------------------------------------------
(*****************************************************************************)
(* OneAtATime.                                                              *)
(*****************************************************************************)
LEMMA RelockAnswerCarried ==
  ASSUME Acting, AnswerRelock
  PROVE  Carried
<1>1. CASE can_write_before_close /\ begin_batch
  BY <1>1, BatchCarried DEF can_write_before_close
<1>2. CASE UNCHANGED <<cmds, ctl, write>>
  BY <1>2, ActingParts, EntriesStay, SameWrite, SameCmds, QuietStep
<1>3. CASE /\ Of(Now).there /\ Sends(<<[op |-> "relock", port |-> active(Now)]>>)
           /\ UNCHANGED <<ctl, write>>
  <2> DEFINE c == [op |-> "relock", port |-> active(Now)]
  <2>1. active(Now) # Nothing
    BY DEF AnswerRelock, Answers, Shows, edited_slots
  <2>2. active(Now) \in Port
    BY <2>1, ActingParts, ActivePart
  <2>3. c \in Command /\ c.op = "relock" /\ Sends(<<c>>)
    BY <1>3, <2>2, ReadTyped
  <2> HIDE DEF c
  <2>4. QuietCmds
    BY <2>3, ActingParts, SendsOne
  <2> QED
    BY <1>3, <2>4, ActingParts, EntriesStay, SameWrite, QuietStep
<1> QED
  BY <1>1, <1>2, <1>3, Zenon DEF AnswerRelock

LEMMA CloseAnswerCarried ==
  ASSUME Acting, AnswerClose
  PROVE  Carried
<1>1. CASE can_write_before_close /\ begin_batch
  BY <1>1, BatchCarried DEF can_write_before_close
<1>2. CASE UNCHANGED <<cmds, ctl, write>>
  BY <1>2, ActingParts, EntriesStay, SameWrite, SameCmds, QuietStep
<1> QED
  BY <1>1, <1>2 DEF AnswerClose

\* An import is an edit that asks for nothing.
LEMMA ImportAlone ==
  ASSUME Acting, NEW s \in Slot, NEW v \in Value, apply_import(s, v), UNCHANGED cmds
  PROVE  AloneInv'
<1>1. CASE active(Now) = Nothing
  <2>1. UNCHANGED ctl /\ UNCHANGED write
    BY <1>1 DEF apply_import
  <2> QED
    BY <2>1, ActingParts, EntriesStay, SameWrite, SameCmds, QuietAlone
<1>2. CASE active(Now) # Nothing
  <2>1. ctl' = [ctl EXCEPT ![active(Now)].edited[s] = v] /\ write' = Selecting(s) /\ v \in Held
    BY <1>2 DEF apply_import, Held
  <2>2. \A q \in Port : Awaits(q)
    BY <1>2, <2>1, EditAwaits
  <2>3. Less(write, write')
    BY <2>1, ActingParts, LessSelecting
  <2> QED
    BY <2>2, <2>3, ActingParts, SameCmds, QuietAlone
<1> QED
  BY <1>1, <1>2

LEMMA FileAlone ==
  ASSUME Acting, WindowInv, FileLands \/ AnswerImport
  PROVE  AloneInv'
<1>0. UNCHANGED cmds
  BY DEF FileLands, AnswerImport
<1>1. CASE UNCHANGED <<ctl, write>>
  BY <1>0, <1>1, ActingParts, EntriesStay, SameWrite, SameCmds, QuietAlone
<1>2. CASE FileLands /\ \E v \in Value : apply_import(picking, v)
  <2>1. picking \in Slot
    BY <1>2 DEF FileLands, WindowInv, CountsTyped
  <2> QED
    BY <1>0, <1>2, <2>1, ImportAlone
<1>3. CASE AnswerImport /\ apply_import(asks.import.slot, asks.import.value)
  <2>1. asks.import # Nothing
    BY <1>3 DEF AnswerImport, Answers, Shows
  <2>2. asks.import.slot \in Slot /\ asks.import.value \in Value
    BY <2>1, ActingParts DEF AsksTyped
  <2> QED
    BY <1>0, <1>3, <2>2, ImportAlone
<1> QED
  BY <1>1, <1>2, <1>3 DEF FileLands, AnswerImport

\* No file is imported.
NoFiles == picking = Nothing /\ asks.import = Nothing

LEMMA UserCarried ==
  ASSUME WindowInv, WindowInv', AloneInv, SinglePort, User
  PROVE  AloneInv' /\ (NoFiles /\ Matches(write, ctl) => Matches(write', ctl'))
<1>1. Acting
  BY DEF Acting, User
<1>2. CASE Carried
  BY <1>2 DEF Carried
<1>3. CASE FileLands \/ AnswerImport
  <2>1. AloneInv'
    BY <1>1, <1>3, FileAlone
  <2>2. ~NoFiles
    BY <1>3 DEF NoFiles, FileLands, AnswerImport, Answers, Shows
  <2> QED
    BY <2>1, <2>2
<1>4. CASE Free /\ ((\E v \in Value : Edit(v)) \/ discard)
  BY <1>1, <1>2, <1>4, EditCarried
<1>5. CASE begin_review
  BY <1>1, <1>2, <1>5, ReviewCarried
<1>6. CASE WriteAll
  BY <1>1, <1>2, <1>6, BatchCarried DEF WriteAll
<1>7. CASE begin_clear
  BY <1>1, <1>2, <1>7, ClearCarried
<1>8. CASE TryAgain
  BY <1>1, <1>2, <1>8, TryAgainCarried
<1>9. CASE \/ \E s \in Slot : select(s)
           \/ \E p \in Port : pick_controller(p)
           \/ relock_clicked \/ import_file \/ close_requested
  BY <1>1, <1>2, <1>9, SelectCarried
<1>10. CASE \E keep \in SUBSET Slot : apply_changed(keep)
  BY <1>1, <1>2, <1>10, ChangedCarried
<1>11. CASE answer_move
  BY <1>1, <1>2, <1>11, MoveCarried
<1>12. CASE AnswerWrite
  BY <1>1, <1>2, <1>12, WriteAnswerCarried
<1>13. CASE AnswerRelock
  BY <1>1, <1>2, <1>13, RelockAnswerCarried
<1>14. CASE AnswerClose
  BY <1>1, <1>2, <1>14, CloseAnswerCarried
<1> QED
  BY <1>3, <1>4, <1>5, <1>6, <1>7, <1>8, <1>9, <1>10, <1>11, <1>12, <1>13, <1>14, Zenon DEF User

-------------------------------------------------------------------------------
LEMMA StepAlone ==
  ASSUME SinglePort, ~StepsFail, WindowInv, WindowInv', AloneInv, [Next]_vars
  PROVE  AloneInv' /\ (NoFiles /\ Matches(write, ctl) => Matches(write', ctl'))
<1>1. CASE Handle
  BY <1>1, HandleCarried DEF Carried
<1>2. CASE Worker
  BY <1>2, WorkerCarried DEF Carried
<1>3. CASE UNCHANGED <<cmds, evts, ctl, write>>
  <2>1. QuietCmds /\ QuietEvts
    BY <1>3, SameCmds, SameEvts DEF WindowInv, QueuesTyped
  <2> QED
    BY <1>3, <2>1, WorkCarried DEF Carried
<1>4. CASE \E p \in Port : Move(p)
  BY <1>3, <1>4 DEF Move
<1>5. CASE User
  BY <1>5, UserCarried
<1>6. CASE UNCHANGED vars
  BY <1>3, <1>6 DEF vars
<1> QED
  BY <1>1, <1>2, <1>4, <1>5, <1>6 DEF Next

LEMMA StartsAlone ==
  ASSUME Init
  PROVE  AloneInv /\ Matches(write, ctl) /\ NoFiles
<1>1. cmds = <<>> /\ evts = <<>> /\ write = Idle /\ asks.import = Nothing /\ picking = Nothing
  BY DEF Init
<1>2. DOMAIN cmds = {} /\ DOMAIN evts = {}
  BY <1>1
<1>3. Alone(write) /\ Matches(write, ctl) /\ \A p : ~Waiting(write, p)
  BY <1>1 DEF Idle, Alone, Matches, AtStage, Waiting, WaitsFor
<1>4. OneWrite /\ ~StepsIn(cmds) /\ ~SteplessIn(evts)
  BY <1>2 DEF OneWrite, LoneWrite, LoneWritten, HasWrite, HasWritten, Carries, Answered, StepsIn,
              SteplessIn
<1> QED
  BY <1>1, <1>3, <1>4 DEF AloneInv, ReadComes, NoFiles

\* The writes of a channel, at most one of them.
LEMMA AtMostOne ==
  ASSUME NEW T, NEW n \in Nat, T \subseteq 1..n, \A i, j \in T : i = j
  PROVE  Cardinality(T) = IF T = {} THEN 0 ELSE 1
<1>1. CASE T = {}
  BY <1>1, FS_EmptySet
<1>2. CASE T # {}
  <2>1. PICK i \in T : TRUE
    BY <1>2
  <2>2. T = {i}
    BY <2>1
  <2> QED
    BY <1>2, <2>2, FS_Singleton
<1> QED
  BY <1>1, <1>2

LEMMA StagesAre ==
  ASSUME Alone(write)
  PROVE  Cardinality({q \in {"review", "clearing", "failed", "batch"} : write[q] # Nothing}) <= 1
<1> DEFINE S == {q \in {"review", "clearing", "failed", "batch"} : write[q] # Nothing}
<1>1. \A q, r \in S : q = r
  BY DEF Alone
<1>2. CASE S = {}
  BY <1>2, FS_EmptySet
<1>3. CASE S # {}
  <2>1. PICK q \in S : TRUE
    BY <1>3
  <2> HIDE DEF S
  <2>2. S = {q}
    BY <1>1, <2>1
  <2>3. Cardinality(S) = 1
    BY <2>2, FS_Singleton
  <2> QED
    BY <2>3 DEF S
<1> QED
  BY <1>2, <1>3

LEMMA AloneIsOne ==
  ASSUME WindowInv, WaitsInv, AloneInv
  PROVE  OneAtATime
<1> DEFINE W == {i \in DOMAIN cmds : cmds[i].op = "write"}
           R == {i \in DOMAIN evts : evts[i].type = "written"}
<1>1. cmds \in Seq(Command) /\ evts \in Seq(Event)
  BY DEF WindowInv, QueuesTyped
<1>2. Len(cmds) \in Nat /\ Len(evts) \in Nat /\ W \subseteq 1..Len(cmds) /\ R \subseteq 1..Len(evts)
  BY <1>1
<1>3. (HasWrite(cmds) <=> W # {}) /\ (HasWritten(evts) <=> R # {})
  BY DEF HasWrite, HasWritten
<1>4. (\A i, j \in W : i = j) /\ (\A i, j \in R : i = j)
  BY DEF AloneInv, OneWrite, LoneWrite, LoneWritten
<1> HIDE DEF W, R
<1>5. /\ Cardinality(W) = IF W = {} THEN 0 ELSE 1
      /\ Cardinality(R) = IF R = {} THEN 0 ELSE 1
  BY <1>2, <1>4, AtMostOne
<1>6. /\ ~(W # {} /\ R # {}) /\ (W # {} \/ R # {} => write.running # Nothing)
      /\ (write.running # Nothing => W # {} \/ R # {})
  BY <1>3 DEF AloneInv, OneWrite, WaitsInv
<1>7. Underway = Cardinality(W) + Cardinality(R)
  BY DEF Underway, W, R
<1>8. Underway = IF write.running = Nothing THEN 0 ELSE 1
  BY <1>5, <1>6, <1>7
<1> QED
  BY <1>8, StagesAre DEF AloneInv, OneAtATime

\* With one port and macros whose steps read, the window sends no second write while one
\* is under way, and one stage stands at a time (idle, AppState::write).
THEOREM OneAtATimeHolds ==
  ASSUME SinglePort, ~StepsFail
  PROVE  Spec => []OneAtATime
<1>1. Init => AloneInv
  BY StartsAlone
<1>2. (WindowInv /\ WaitsInv) /\ (WindowInv /\ WaitsInv)' /\ AloneInv /\ [Next]_vars => AloneInv'
  BY StepAlone
<1>3. WindowInv /\ WaitsInv /\ AloneInv => OneAtATime
  BY AloneIsOne
<1> QED
  BY <1>1, <1>2, <1>3, AlwaysInv, PTL DEF Spec

-------------------------------------------------------------------------------
(*****************************************************************************)
(* WrittenIsTheEdit.                                                        *)
(*****************************************************************************)
\* The slots a run takes edits of are those of its jobs that worked.
LEMMA WrittenTakes ==
  ASSUME NEW c \in Controller, NEW results \in Seq([slot: Slot, success: BOOLEAN]),
         write.running.jobs \in Seq(WriteJob),
         NEW s \in Slot, Written(c, results).edited[s] # c.edited[s]
  PROVE  \E i \in 1..Len(write.running.jobs) :
           i <= Len(results) /\ results[i].success /\ results[i].slot = s
<1> DEFINE jobs == write.running.jobs
           n == FirstFailure(jobs, results)
           done == 1..n - 1
           cleared == {results[i].slot : i \in {j \in done : jobs[j].value = Nothing}}
           uploaded == {results[i].slot : i \in done} \ cleared
           a == [t \in Slot |->
                   IF t \in cleared THEN Nothing
                   ELSE IF t \in uploaded /\ c.edited[t] # Nothing THEN c.edited[t] ELSE c.pad[t]]
           e == [t \in Slot |-> IF t \in cleared \cup uploaded THEN Nothing ELSE c.edited[t]]
<1>1. Written(c, results) = [c EXCEPT !.pad = a, !.edited = e]
  BY DEF Written, Controller
<1>2. /\ n \in 1..Len(jobs) + 1
      /\ \A j \in 1..n - 1 : j <= Len(results) /\ results[j].success
  BY FirstFailureIs
<1> HIDE DEF n
<1>3. e[s] = IF s \in cleared \cup uploaded THEN Nothing ELSE c.edited[s]
  OBVIOUS
<1>4. s \in cleared \cup uploaded => \E i \in done : results[i].slot = s
  OBVIOUS
<1> HIDE DEF cleared, uploaded, a, e
<1>5. Written(c, results).edited = e
  BY <1>1 DEF Controller
<1>6. PICK i \in done : results[i].slot = s
  BY <1>3, <1>4, <1>5
<1>7. i \in 1..Len(jobs) /\ i <= Len(results) /\ results[i].success
  BY <1>2
<1> QED
  BY <1>6, <1>7

LEMMA WrittenTakesEdits ==
  ASSUME WindowInv, WindowInv', AloneInv, SinglePort, Matches(write, ctl), Handle, E.type = "written",
         NEW p \in Port, ctl[p] # Nothing, NEW s \in Slot, unsaved(ctl[p], s),
         ctl'[p].edited[s] # ctl[p].edited[s]
  PROVE  \E i \in DOMAIN E.results :
           /\ E.results[i].success /\ write.running.jobs[i].slot = s
           /\ write.running.jobs[i].value \in {Nothing, ctl[p].edited[s]}
<1> DEFINE results == E.results
           jobs == write.running.jobs
<1>1. HandleWritten
  BY DEF Handle, HandlePresent, HandleGone, HandleRead, HandleUnread, HandleForeign, HandleStepless,
         HandleRelocked, HandleNotRelocked, Takes
<1>2. Taking
  BY <1>1 DEF Taking, HandleWritten, Takes
<1>3. write.running # Nothing /\ AnswerOf(E, write.running)
  BY <1>1, <1>2, WrittenCarried
<1>4. CtlTyped /\ GoodWrite(write) /\ E \in Event /\ E.port \in Port /\ ctl[p] \in Controller
  BY <1>2, TakingParts DEF CtlTyped
<1>5. E.port = p
  <2>1. \A q, r \in Port : q = r
    BY DEF SinglePort
  <2> QED
    BY <1>4, <2>1
<1>6. results \in Seq([slot: Slot, success: BOOLEAN])
  BY <1>4 DEF Event
<1>7. jobs \in Seq(WriteJob) /\ write.running.port = p
  BY <1>3, <1>4, <1>5 DEF GoodWrite, WriteState, AnswerOf
<1>8. ctl'[p].edited = Written(ctl[p], results).edited
  <2> DEFINE c == Written(ctl[p], results)
             d == [c EXCEPT !.reading = TRUE]
  <2>1. c \in Controller
    BY <1>4, WrittenTyped
  <2>2. c # Nothing
    BY <2>1, NothingIsNoRecord
  <2>3. ctl' = [ctl EXCEPT ![p] = d]
    BY <1>1, <1>3, <1>5, <2>2 DEF HandleWritten
  <2> HIDE DEF c
  <2>4. d.edited = c.edited
    BY <2>1 DEF Controller
  <2> HIDE DEF d
  <2>5. ctl'[p] = d
    BY <1>4, <2>3 DEF CtlTyped
  <2> QED
    BY <2>4, <2>5 DEF c
<1> HIDE DEF results
<1>9. PICK i \in 1..Len(jobs) : i <= Len(results) /\ results[i].success /\ results[i].slot = s
  <2>1. PICK c \in Controller, r \in Seq([slot: Slot, success: BOOLEAN]) :
          c = ctl[p] /\ r = results
    BY <1>4, <1>6
  <2>2. Written(c, r).edited[s] # c.edited[s] /\ write.running.jobs \in Seq(WriteJob)
    BY <1>7, <1>8, <2>1
  <2>3. \E i \in 1..Len(write.running.jobs) : i <= Len(r) /\ r[i].success /\ r[i].slot = s
    BY <2>2, WrittenTakes
  <2> QED
    BY <2>1, <2>3
<1>10. jobs[i].slot = s
  BY <1>3, <1>9 DEF AnswerOf, results
<1>11. i \in DOMAIN jobs /\ i \in DOMAIN results
  BY <1>6, <1>7, <1>9
<1>12. Fits(ctl, p, jobs[i])
  BY <1>3, <1>7, <1>11 DEF Matches, AllFit
<1>13. jobs[i].value \in {Nothing, ctl[p].edited[s]}
  BY <1>10, <1>12 DEF Fits, unsaved
<1> QED
  BY <1>9, <1>10, <1>11, <1>13 DEF results

LEMMA FilesStay ==
  ASSUME ~Files, WindowInv, NoFiles, [Next]_vars
  PROVE  NoFiles'
<1>0. AsksTyped
  BY DEF WindowInv
<1>1. ASSUME UNCHANGED picking, asks'.import = asks.import PROVE NoFiles'
  BY <1>1 DEF NoFiles
<1>2. CASE Handle
  <2>1. UNCHANGED picking
    BY <1>2 DEF Handle
  <2>2. CASE Settle
    <3>1. asks'.import = asks.import
      BY <1>0, <2>2 DEF Settle, AsksTyped
    <3> QED
      BY <1>1, <2>1, <3>1
  <2>3. CASE HandleRelocked \/ HandleNotRelocked
    <3>1. asks'.import = asks.import
      BY <1>0, <2>3 DEF HandleRelocked, HandleNotRelocked, AsksTyped
    <3> QED
      BY <1>1, <2>1, <3>1
  <2> QED
    BY <1>2, <2>2, <2>3 DEF Handle, HandlePresent, HandleGone, HandleRead, HandleUnread,
       HandleForeign, HandleStepless, HandleWritten
<1>3. CASE Worker
  BY <1>1, <1>3 DEF Worker
<1>4. CASE \E p \in Port : Move(p)
  BY <1>1, <1>4 DEF Move
<1>5. CASE User
  <2>1. ~import_file /\ ~FileLands /\ ~AnswerImport
    BY DEF NoFiles, import_file, FileLands, AnswerImport, Answers, Shows
  <2>2. UNCHANGED picking
    BY <1>5, <2>1 DEF User, Edit, discard, begin_review, WriteAll, begin_clear, TryAgain, select,
       pick_controller, relock_clicked, close_requested, apply_changed, answer_move, AnswerWrite,
       AnswerRelock, AnswerClose
  <2>3. asks'.import \in {asks.import, Nothing}
    <3>1. CASE UNCHANGED asks
      BY <3>1
    <3>2. CASE relock_clicked \/ close_requested \/ AnswerRelock \/ AnswerClose
      BY <1>0, <3>2 DEF relock_clicked, close_requested, AnswerRelock, AnswerClose, AsksTyped
    <3>3. CASE \E p \in Port : pick_controller(p)
      BY <1>0, <3>3 DEF pick_controller, AsksTyped
    <3> QED
      BY <1>5, <2>1, <3>1, <3>2, <3>3 DEF User, Edit, discard, begin_review, WriteAll, begin_clear,
         TryAgain, select, apply_changed, answer_move, AnswerWrite
  <2> QED
    BY <2>2, <2>3 DEF NoFiles
<1>6. CASE UNCHANGED vars
  BY <1>1, <1>6 DEF vars
<1> QED
  BY <1>2, <1>3, <1>4, <1>5, <1>6 DEF Next

\* With one port, no file imported and macros whose steps read, a write that came back takes
\* only an edit it stored or cleared (write_finished, confirm_review, confirm_batch).
THEOREM WrittenIsTheEditHolds ==
  ASSUME SinglePort, ~StepsFail, ~Files
  PROVE  Spec => WrittenIsTheEdit
<1> DEFINE Inv == WindowInv /\ WaitsInv
           Fit == AloneInv /\ NoFiles /\ Matches(write, ctl)
<1>1. Init => Fit
  BY StartsAlone
<1>2. Inv /\ Inv' /\ Fit /\ [Next]_vars => Fit'
  BY StepAlone, FilesStay
<1>3. Inv /\ Inv' /\ Fit /\ [Next]_vars =>
        [Handled /\ E.type = "written" =>
           \A p \in Port : ctl[p] # Nothing => \A s \in Slot :
             unsaved(ctl[p], s) /\ ctl'[p].edited[s] # ctl[p].edited[s] =>
               \E i \in DOMAIN E.results :
                 /\ E.results[i].success /\ write.running.jobs[i].slot = s
                 /\ write.running.jobs[i].value \in {Nothing, ctl[p].edited[s]}]_vars
  BY OnlyHandleTakes, WrittenTakesEdits
<1>4. Spec => []Inv
  BY AlwaysInv
<1> HIDE DEF Inv, Fit
<1> QED
  BY <1>1, <1>2, <1>3, <1>4, PTL DEF Spec, WrittenIsTheEdit

-------------------------------------------------------------------------------
(*****************************************************************************)
(* ReviewIsTrue: what a review compares the edits with.                     *)
(*****************************************************************************)
\* A read that found the pad as it is now, or as it was before a write whose answer follows.
Truthful(q, i) == \/ pad[q[i].port] \notin Contents \/ q[i].pad = pad[q[i].port]
                  \/ \E j \in DOMAIN q : j > i /\ q[j].type = "written"
Fresh == \A i \in DOMAIN evts : evts[i].type = "read" => Truthful(evts, i)

\* What a review shows was read from the pad as it is.
Reviewing(w) == w.review # Nothing \/ AtStage(w, {"review"})
Read(p) == ctl[p] = Nothing \/ ~ctl[p].known \/ pad[p] \notin Contents \/ ctl[p].pad = pad[p]
Compared == Reviewing(write) => \A p \in Port : Read(p)

\* Steps that leave a pad, or what a controller holds, as it was or take it away.
PadKept == \A p \in Port : pad'[p] = pad[p] \/ pad'[p] \notin Contents
Kept == \A p \in Port :
  \/ ctl'[p] = Nothing \/ ~ctl'[p].known
  \/ ctl[p] # Nothing /\ ctl'[p].known = ctl[p].known /\ ctl'[p].pad = ctl[p].pad

LEMMA ComparedStays ==
  ASSUME Compared, Reviewing(write') => Reviewing(write), PadKept, Kept
  PROVE  Compared'
<1> SUFFICES ASSUME Reviewing(write'), NEW p \in Port PROVE Read(p)'
  BY DEF Compared
<1>1. Read(p)
  BY DEF Compared
<1> QED
  BY <1>1 DEF Read, PadKept, Kept

LEMMA LessReviews ==
  ASSUME NEW w, NEW x, Less(w, x), Reviewing(x)
  PROVE  Reviewing(w)
BY DEF Less, Reviewing, AtStage

\* Nothing is reviewed while a write runs.
LEMMA RunsUnreviewed ==
  ASSUME AloneInv, HasWrite(cmds) \/ HasWritten(evts) \/ write.running # Nothing
  PROVE  ~Reviewing(write)
<1>1. write.running # Nothing
  BY DEF AloneInv, OneWrite
<1> QED
  BY <1>1 DEF AloneInv, Alone, Reviewing, AtStage

LEMMA Appended ==
  ASSUME NEW S, NEW q \in Seq(S), NEW c \in S
  PROVE  Len(q) + 1 \in DOMAIN (q \o <<c>>) /\ (q \o <<c>>)[Len(q) + 1] = c
<1> DEFINE t == <<c>>
<1>1. t \in Seq(S) /\ Len(t) = 1 /\ t[1] = c /\ Len(q) \in Nat
  OBVIOUS
<1> HIDE DEF t
<1>2. Len(q \o t) = Len(q) + 1 /\ q \o t \in Seq(S) /\ (q \o t)[Len(q) + 1] = t[1]
  BY <1>1, ConcatProperties
<1>3. Len(q) + 1 \in DOMAIN (q \o t) /\ (q \o t)[Len(q) + 1] = c
  BY <1>1, <1>2
<1> QED
  BY <1>3 DEF t

\* A step that sends a write leaves no review.
LEMMA SentRuns ==
  ASSUME AloneInv', cmds \in Seq(Command), NEW c, c.op = "write", Sends(<<c>>)
  PROVE  ~Reviewing(write')
<1> DEFINE S == Command \cup {c}
           n == Len(cmds)
<1>1. cmds \in Seq(S) /\ c \in S
  <2>0. c \in S /\ Command \subseteq S
    OBVIOUS
  <2> HIDE DEF S
  <2>1. cmds = [i \in 1..n |-> cmds[i]] /\ (\A i \in 1..n : cmds[i] \in S) /\ n \in Nat
    BY <2>0
  <2> QED
    BY <2>0, <2>1
<1> HIDE DEF S
<1>2. n + 1 \in DOMAIN (cmds \o <<c>>) /\ (cmds \o <<c>>)[n + 1] = c
  BY <1>1, Appended
<1>3. n + 1 \in DOMAIN cmds' /\ cmds'[n + 1].op = "write"
  BY <1>2, Zenon DEF Sends
<1> HIDE DEF n
<1>4. HasWrite(cmds')
  BY <1>3, Zenon DEF HasWrite
<1>5. write'.running # Nothing
  BY <1>4 DEF AloneInv, OneWrite
<1> QED
  BY <1>5 DEF AloneInv, Alone, Reviewing, AtStage

LEMMA EntriesKept ==
  ASSUME UNCHANGED ctl
  PROVE  Kept
<1>1. ctl' = ctl
  OBVIOUS
<1> QED
  BY <1>1 DEF Kept

LEMMA PadsKept ==
  ASSUME UNCHANGED pad
  PROVE  PadKept
<1>1. pad' = pad
  OBVIOUS
<1> QED
  BY <1>1 DEF PadKept

LEMMA EntryKept ==
  ASSUME CtlTyped, NEW p \in Port, ctl[p] # Nothing, NEW c, ctl' = [ctl EXCEPT ![p] = c],
         c.known = ctl[p].known, c.pad = ctl[p].pad
  PROVE  Kept
<1>1. ctl'[p] = c /\ \A q \in Port : q # p => ctl'[q] = ctl[q]
  BY DEF CtlTyped
<1> QED
  BY <1>1 DEF Kept

LEMMA EntryLost ==
  ASSUME CtlTyped, NEW p \in Port, ctl' = [ctl EXCEPT ![p] = Nothing]
  PROVE  Kept
<1>1. ctl'[p] = Nothing /\ \A q \in Port : q # p => ctl'[q] = ctl[q]
  BY DEF CtlTyped
<1> QED
  BY <1>1 DEF Kept

LEMMA GoneKept ==
  ASSUME CtlTyped, NEW p \in Port, ctl[p] # Nothing, NEW c, Gone(p, c),
         c.known = ctl[p].known, c.pad = ctl[p].pad
  PROVE  Kept
<1>1. CASE ctl' = [ctl EXCEPT ![p] = c]
  BY <1>1, EntryKept
<1>2. CASE ctl' = [ctl EXCEPT ![p] = Nothing]
  BY <1>2, EntryLost
<1> QED
  BY <1>1, <1>2 DEF Gone, remove

-------------------------------------------------------------------------------
\* The events.
LEMMA HandleFresh ==
  ASSUME Fresh, evts \in Seq(Event), evts # <<>>, evts' = Tail(evts), UNCHANGED pad
  PROVE  Fresh'
<1> SUFFICES ASSUME NEW i \in DOMAIN evts', evts'[i].type = "read"
             PROVE  Truthful(evts, i)'
  BY DEF Fresh
<1>0. pad' = pad
  OBVIOUS
<1>1. i \in Int /\ i + 1 \in DOMAIN evts /\ evts[i + 1] = evts'[i]
  OBVIOUS
<1>2. Truthful(evts, i + 1)
  BY <1>1 DEF Fresh
<1>3. CASE \E j \in DOMAIN evts : j > i + 1 /\ evts[j].type = "written"
  <2>1. PICK j \in DOMAIN evts : j > i + 1 /\ evts[j].type = "written"
    BY <1>3
  <2>2. j - 1 \in DOMAIN evts' /\ j - 1 > i /\ evts'[j - 1] = evts[j]
    BY <1>1, <2>1
  <2> QED
    BY <2>1, <2>2, Zenon DEF Truthful
<1>4. CASE pad[evts[i + 1].port] \notin Contents \/ evts[i + 1].pad = pad[evts[i + 1].port]
  BY <1>0, <1>1, <1>4 DEF Truthful
<1> QED
  BY <1>2, <1>3, <1>4 DEF Truthful

LEMMA EmitFresh ==
  ASSUME Fresh, evts \in Seq(Event), NEW e \in Event, Emit(e), e.type = "written" \/ PadKept,
         e.type = "read" => e.pad = pad'[e.port]
  PROVE  Fresh'
<1> DEFINE n == Len(evts)
<1>1. /\ evts' = Append(evts, e) /\ n \in Nat /\ DOMAIN evts' = 1..n + 1 /\ evts'[n + 1] = e
      /\ DOMAIN evts = 1..n /\ \A i \in 1..n : evts'[i] = evts[i] /\ evts[i] \in Event
  BY DEF Emit
<1> SUFFICES ASSUME NEW i \in DOMAIN evts', evts'[i].type = "read"
             PROVE  Truthful(evts, i)'
  BY DEF Fresh
<1> HIDE DEF n
<1>2. CASE i = n + 1
  BY <1>1, <1>2 DEF Truthful
<1>3. CASE i \in 1..n
  <2>1. Truthful(evts, i) /\ evts'[i] = evts[i] /\ evts[i].port \in Port
    BY <1>1, <1>3 DEF Fresh, Event
  <2>2. CASE e.type = "written"
    <3>1. n + 1 \in DOMAIN evts' /\ n + 1 > i /\ evts'[n + 1].type = "written"
      BY <1>1, <1>3, <2>2
    <3> QED
      BY <3>1, Zenon DEF Truthful
  <2>3. CASE \E j \in DOMAIN evts : j > i /\ evts[j].type = "written"
    <3>1. PICK j \in DOMAIN evts : j > i /\ evts[j].type = "written"
      BY <2>3
    <3>2. j \in DOMAIN evts' /\ evts'[j] = evts[j]
      BY <1>1, <3>1
    <3> QED
      BY <3>1, <3>2, Zenon DEF Truthful
  <2>4. CASE PadKept /\ (pad[evts[i].port] \notin Contents \/ evts[i].pad = pad[evts[i].port])
    BY <2>1, <2>4 DEF Truthful, PadKept
  <2> QED
    BY <2>1, <2>2, <2>3, <2>4 DEF Truthful
<1> QED
  BY <1>1, <1>2, <1>3

LEMMA SameFresh ==
  ASSUME Fresh, evts \in Seq(Event), UNCHANGED evts, PadKept
  PROVE  Fresh'
<1> SUFFICES ASSUME NEW i \in DOMAIN evts', evts'[i].type = "read"
             PROVE  Truthful(evts, i)'
  BY DEF Fresh
<1>1. evts' = evts /\ i \in DOMAIN evts /\ evts[i].type = "read"
  OBVIOUS
<1>2. Truthful(evts, i) /\ evts[i].port \in Port
  BY <1>1 DEF Fresh, Event
<1>3. CASE \E j \in DOMAIN evts : j > i /\ evts[j].type = "written"
  BY <1>1, <1>3, Zenon DEF Truthful
<1>4. CASE pad[evts[i].port] \notin Contents \/ evts[i].pad = pad[evts[i].port]
  BY <1>1, <1>2, <1>4 DEF Truthful, PadKept
<1> QED
  BY <1>2, <1>3, <1>4 DEF Truthful

LEMMA NextUnreviewed ==
  ASSUME AloneInv', Reviewing(write')
  PROVE  write'.running = Nothing /\ ~HasWritten(evts')
<1>1. write'.running = Nothing
  BY DEF AloneInv, Alone, Reviewing, AtStage
<1> QED
  BY <1>1 DEF AloneInv, OneWrite

\* A read that comes shows what the pad holds.
LEMMA ReadCompared ==
  ASSUME Taking, AloneInv', Fresh, UNCHANGED pad, HandleRead
  PROVE  Compared'
<1> SUFFICES ASSUME Reviewing(write'), NEW p \in Port PROVE Read(p)'
  BY DEF Compared
<1>0. CtlTyped /\ E \in Event /\ E.port \in Port /\ (ctl[E.port] # Nothing => ctl[E.port] \in Controller)
      /\ SinglePort /\ evts \in Seq(Event) /\ evts # <<>> /\ evts' = Tail(evts) /\ pad' = pad
  BY TakingParts DEF Taking
<1>1. ~HasWritten(evts')
  BY NextUnreviewed
<1>2. E.type = "read" /\ E.pad \in Contents
  BY <1>0 DEF HandleRead, Takes, Event
<1>3. p = E.port
  <2>1. \A q, r \in Port : q = r
    BY <1>0 DEF SinglePort
  <2> QED
    BY <1>0, <2>1
<1>4. pad[p] \notin Contents \/ E.pad = pad[p]
  <2>1. 1 \in DOMAIN evts /\ evts[1] = E
    BY <1>0 DEF E
  <2>2. Truthful(evts, 1)
    BY <1>2, <2>1 DEF Fresh
  <2>3. ~\E j \in DOMAIN evts : j > 1 /\ evts[j].type = "written"
    <3> SUFFICES ASSUME NEW j \in DOMAIN evts, j > 1, evts[j].type = "written" PROVE FALSE
      OBVIOUS
    <3>1. j - 1 \in DOMAIN evts' /\ evts'[j - 1] = evts[j]
      BY <1>0
    <3> QED
      BY <1>1, <3>1, Zenon DEF HasWritten
  <2> QED
    BY <1>3, <2>1, <2>2, <2>3 DEF Truthful
<1>5. CASE ctl[p] = Nothing
  <2>1. ctl' = ctl
    BY <1>3, <1>5 DEF HandleRead
  <2> QED
    BY <1>5, <2>1 DEF Read
<1>6. CASE ctl[p] # Nothing
  <2> DEFINE t == take_read(ctl[p], E.pad)
             c == [t EXCEPT !.reading = FALSE, !.read_error = FALSE, !.known = TRUE]
  <2>1. t \in Controller /\ t.pad = E.pad
    BY <1>0, <1>2, <1>3, <1>6, TakesRead
  <2>2. ctl' = [ctl EXCEPT ![p] = c]
    BY <1>3, <1>6 DEF HandleRead, read_finished
  <2> HIDE DEF t
  <2>3. c.pad = E.pad
    BY <2>1 DEF Controller
  <2> HIDE DEF c
  <2>4. ctl'[p] = c
    BY <1>0, <2>2 DEF CtlTyped
  <2> QED
    BY <1>0, <1>4, <2>3, <2>4 DEF Read
<1> QED
  BY <1>5, <1>6

\* The other events leave what a controller holds, or the review goes.
LEMMA EventKept ==
  ASSUME Taking, HandlePresent \/ HandleGone \/ HandleUnread \/ HandleForeign \/ HandleStepless
                 \/ HandleRelocked \/ HandleNotRelocked
  PROVE  Kept /\ (Reviewing(write') => Reviewing(write))
<1> DEFINE p == E.port
<1>0. CtlTyped /\ p \in Port /\ (ctl[p] # Nothing => ctl[p] \in Controller) /\ write \in WriteState
  BY TakingParts
<1>1. CASE HandlePresent
  <2>1. CASE ctl[p] = Nothing
    <3> DEFINE c == [NoController EXCEPT !.reading = TRUE]
    <3>1. ctl' = [ctl EXCEPT ![p] = c]
      BY <1>0, <1>1, <2>1 DEF HandlePresent, CtlTyped
    <3>2. ~c.known
      BY DEF NoController
    <3> HIDE DEF c, p
    <3>3. ctl'[p] = c /\ \A q \in Port : q # p => ctl'[q] = ctl[q]
      BY <1>0, <3>1 DEF CtlTyped
    <3>4. Kept
      BY <3>2, <3>3 DEF Kept
    <3> QED
      BY <1>1, <3>4 DEF HandlePresent
  <2>2. CASE ctl[p] # Nothing
    <3> DEFINE c == [ctl[p] EXCEPT !.there = TRUE, !.reading = TRUE, !.read_error = FALSE]
    <3>1. ctl' = [ctl EXCEPT ![p] = c]
      BY <1>0, <1>1, <2>2 DEF HandlePresent, CtlTyped
    <3>2. c.known = ctl[p].known /\ c.pad = ctl[p].pad
      BY <1>0, <2>2 DEF Controller
    <3> HIDE DEF c, p
    <3>3. Kept
      BY <1>0, <2>2, <3>1, <3>2, EntryKept
    <3> QED
      BY <1>1, <3>3 DEF HandlePresent
  <2> QED
    BY <2>1, <2>2
<1>2. CASE HandleGone \/ HandleForeign
  <2>1. Reviewing(write') => Reviewing(write)
    <3>1. CASE HandleGone
      BY <3>1 DEF HandleGone
    <3>2. CASE HandleForeign
      <4>1. write' = review_read(Then, write, p, FALSE)
        BY <3>2 DEF HandleForeign
      <4>2. Less(write, write')
        BY <1>0, <4>1, ReadDrops
      <4> QED
        BY <4>2, LessReviews
    <3> QED
      BY <1>2, <3>1, <3>2
  <2>2. CASE ctl[p] = Nothing
    <3>1. UNCHANGED ctl
      BY <1>2, <2>2 DEF HandleGone, HandleForeign
    <3> QED
      BY <2>1, <3>1, EntriesKept
  <2>3. CASE ctl[p] # Nothing
    <3> DEFINE c == [ctl[p] EXCEPT !.there = FALSE, !.reading = FALSE, !.read_error = FALSE]
               d == [ctl[p] EXCEPT !.there = FALSE, !.reading = FALSE]
    <3>1. /\ c.known = ctl[p].known /\ c.pad = ctl[p].pad
          /\ d.known = ctl[p].known /\ d.pad = ctl[p].pad
      BY <1>0, <2>3 DEF Controller
    <3>2. Gone(p, c) \/ Gone(p, d)
      BY <1>2, <2>3 DEF HandleGone, HandleForeign
    <3> HIDE DEF c, d, p
    <3>3. Kept
      BY <1>0, <2>3, <3>1, <3>2, GoneKept
    <3> QED
      BY <2>1, <3>3
  <2> QED
    BY <2>2, <2>3
<1>3. CASE HandleUnread \/ HandleStepless
  <2>1. Reviewing(write') => Reviewing(write)
    <3>1. CASE HandleStepless
      BY <3>1 DEF HandleStepless
    <3>2. CASE HandleUnread
      <4>1. write' = review_read(Then, write, p, FALSE)
        BY <3>2 DEF HandleUnread
      <4>2. Less(write, write')
        BY <1>0, <4>1, ReadDrops
      <4> QED
        BY <4>2, LessReviews
    <3> QED
      BY <1>3, <3>1, <3>2
  <2>2. CASE ctl[p] = Nothing
    <3>1. UNCHANGED ctl
      BY <1>3, <2>2 DEF HandleUnread, HandleStepless
    <3> QED
      BY <2>1, <3>1, EntriesKept
  <2>3. CASE ctl[p] # Nothing
    <3>1. PICK error \in BOOLEAN :
            ctl' = [ctl EXCEPT ![p].reading = FALSE, ![p].read_error = error]
      <4>1. ctl[p].read_error \in BOOLEAN
        BY <1>0, <2>3 DEF Controller
      <4>2. CASE HandleStepless
        BY <2>3, <4>2 DEF HandleStepless
      <4>3. CASE HandleUnread
        <5>1. PICK error \in BOOLEAN :
                ctl' = [ctl EXCEPT ![p].reading = FALSE, ![p].read_error = @ \/ error]
          BY <2>3, <4>3 DEF HandleUnread
        <5> DEFINE b == ctl[p].read_error \/ error
        <5>2. ctl' = [ctl EXCEPT ![p].reading = FALSE, ![p].read_error = b] /\ b \in BOOLEAN
          BY <1>0, <2>3, <4>1, <5>1 DEF CtlTyped, Controller
        <5> HIDE DEF b
        <5> QED
          BY <5>2
      <4> QED
        BY <1>3, <4>2, <4>3
    <3> DEFINE c == [ctl[p] EXCEPT !.reading = FALSE, !.read_error = error]
    <3>2. ctl' = [ctl EXCEPT ![p] = c]
      BY <1>0, <2>3, <3>1 DEF CtlTyped, Controller
    <3>3. c.known = ctl[p].known /\ c.pad = ctl[p].pad
      BY <1>0, <2>3 DEF Controller
    <3> HIDE DEF c, p
    <3>4. Kept
      BY <1>0, <2>3, <3>2, <3>3, EntryKept
    <3> QED
      BY <2>1, <3>4
  <2> QED
    BY <2>2, <2>3
<1>4. CASE HandleRelocked \/ HandleNotRelocked
  <2>1. Reviewing(write') => Reviewing(write)
    BY <1>4 DEF HandleRelocked, HandleNotRelocked
  <2>2. CASE UNCHANGED ctl
    BY <2>1, <2>2, EntriesKept
  <2>3. CASE ctl' = [ctl EXCEPT ![p] = Nothing]
    BY <1>0, <2>1, <2>3, EntryLost
  <2> QED
    BY <1>4, <2>2, <2>3 DEF HandleRelocked, HandleNotRelocked, remove
<1> QED
  BY <1>1, <1>2, <1>3, <1>4

LEMMA HandleCompared ==
  ASSUME WindowInv, WindowInv', AloneInv, AloneInv', SinglePort, Compared, Fresh, Handle
  PROVE  Compared' /\ Fresh'
<1>0. UNCHANGED pad
  BY DEF Handle, bus
<1>1. Taking
  BY DEF Taking, Handle, Takes, HandlePresent, HandleGone, HandleRead, HandleUnread, HandleForeign,
         HandleStepless, HandleWritten, HandleRelocked, HandleNotRelocked
<1>2. Fresh'
  BY <1>0, <1>1, TakingParts, HandleFresh DEF Taking
<1>3. CASE HandleRead
  BY <1>0, <1>1, <1>2, <1>3, ReadCompared
<1>4. CASE HandleWritten
  <2>1. Ended(write, write')
    BY <1>1, <1>4, WrittenCarried
  <2>2. ~Reviewing(write')
    BY <2>1 DEF Ended, Reviewing, AtStage
  <2>3. Compared'
    BY <2>2 DEF Compared
  <2> QED
    BY <1>2, <2>3
<1>5. CASE HandlePresent \/ HandleGone \/ HandleUnread \/ HandleForeign \/ HandleStepless
           \/ HandleRelocked \/ HandleNotRelocked
  <2>1. Kept /\ (Reviewing(write') => Reviewing(write))
    BY <1>1, <1>5, EventKept
  <2>2. Compared'
    BY <1>0, <2>1, PadsKept, ComparedStays
  <2> QED
    BY <1>2, <2>2
<1> QED
  BY <1>3, <1>4, <1>5 DEF Handle

\* The worker writes a pad only where a write runs.
LEMMA WorkerCompared ==
  ASSUME WindowInv, AloneInv, Compared, Fresh, Worker
  PROVE  Compared' /\ Fresh'
<1>0. UNCHANGED <<ctl, write>> /\ cmds \in Seq(Command) /\ evts \in Seq(Event) /\ PadsTyped
  BY DEF Worker, WindowInv, QueuesTyped
<1>1. ASSUME PadKept PROVE Compared'
  BY <1>0, <1>1, EntriesKept, ComparedStays
<1>2. CASE WorkRead
  <2>1. cmds # <<>> /\ cmds' = Tail(cmds) /\ UNCHANGED pad
    BY <1>2 DEF WorkRead, Serves
  <2>2. C.port \in Port
    BY <1>0, <2>1, ServesKeep
  <2>3. PadKept
    BY <2>1, PadsKept
  <2>4. PICK e \in Event : Emit(e) /\ (e.type = "read" => e.pad = pad'[e.port])
    <3>1. CASE Disconnected(C.port)
      <4> DEFINE e == [type |-> "presence", port |-> C.port, there |-> FALSE]
      <4>1. e \in Event /\ e.type = "presence" /\ Emit(e)
        BY <2>2, <3>1, EventTyped DEF Disconnected
      <4> HIDE DEF e
      <4> QED
        BY <4>1
    <3>2. CASE pad[C.port] \in Contents
               /\ Emit([type |-> "read", port |-> C.port, pad |-> pad[C.port]])
      <4> DEFINE e == [type |-> "read", port |-> C.port, pad |-> pad[C.port]]
      <4>1. e \in Event /\ e.port = C.port /\ e.pad = pad[C.port] /\ Emit(e)
        BY <2>2, <3>2, EventTyped
      <4> HIDE DEF e
      <4> QED
        BY <2>1, <4>1
    <3>3. CASE Emit([type |-> "foreign", port |-> C.port])
      <4> DEFINE e == [type |-> "foreign", port |-> C.port]
      <4>1. e \in Event /\ e.type = "foreign" /\ Emit(e)
        BY <2>2, <3>3, EventTyped
      <4> HIDE DEF e
      <4> QED
        BY <4>1
    <3>4. CASE Emit([type |-> "unread", port |-> C.port])
      <4> DEFINE e == [type |-> "unread", port |-> C.port]
      <4>1. e \in Event /\ e.type = "unread" /\ Emit(e)
        BY <2>2, <3>4, EventTyped
      <4> HIDE DEF e
      <4> QED
        BY <4>1
    <3> QED
      BY <1>2, <3>1, <3>2, <3>3, <3>4, Zenon DEF WorkRead
  <2>5. Fresh'
    BY <1>0, <2>3, <2>4, EmitFresh
  <2> QED
    BY <1>1, <2>3, <2>5
<1>3. CASE WorkSteps
  <2>1. cmds # <<>> /\ C.op = "steps"
    BY <1>3 DEF WorkSteps, Serves
  <2>2. 1 \in DOMAIN cmds /\ cmds[1].op = "steps"
    BY <1>0, <2>1 DEF C
  <2>3. StepsIn(cmds)
    BY <2>2, Zenon DEF StepsIn
  <2> QED
    BY <2>3 DEF AloneInv
<1>4. CASE WorkWrite
  <2>1. write.running # Nothing /\ \E e \in Event : e.type = "written" /\ Emit(e)
    BY <1>0, <1>4, WriteServed
  <2>2. PICK e \in Event : e.type = "written" /\ Emit(e)
    BY <2>1
  <2>3. Fresh'
    BY <1>0, <2>2, EmitFresh
  <2>4. ~Reviewing(write')
    BY <1>0, <2>1, RunsUnreviewed
  <2>5. Compared'
    BY <2>4 DEF Compared
  <2> QED
    BY <2>3, <2>5
<1>5. CASE WorkRelock
  <2>1. cmds # <<>> /\ cmds' = Tail(cmds)
    BY <1>5 DEF WorkRelock, Serves
  <2>2. C.port \in Port
    BY <1>0, <2>1, ServesKeep
  <2>3. PICK ok \in BOOLEAN : /\ Emit([type |-> "relock", port |-> C.port, ok |-> ok])
                              /\ pad' = IF ok THEN [pad EXCEPT ![C.port] = Nothing] ELSE pad
    BY <1>5 DEF WorkRelock
  <2> DEFINE e == [type |-> "relock", port |-> C.port, ok |-> ok]
  <2>4. e \in Event /\ e.type = "relock" /\ Emit(e)
    BY <2>2, <2>3, EventTyped
  <2> HIDE DEF e
  <2>5. PadKept
    <3>1. CASE ~ok
      BY <2>3, <3>1, PadsKept
    <3>2. CASE ok
      <4>1. pad' = [pad EXCEPT ![C.port] = Nothing] /\ pad \in [Port -> Contents \cup {Nothing, Foreign}]
        BY <1>0, <2>3, <3>2 DEF PadsTyped
      <4>2. \A p \in Port : pad'[p] = pad[p] \/ pad'[p] = Nothing
        BY <4>1
      <4>3. Nothing \notin Contents
        BY NothingIsNoRecord
      <4> QED
        BY <4>2, <4>3 DEF PadKept
    <3> QED
      BY <3>1, <3>2
  <2>6. Fresh'
    BY <1>0, <2>4, <2>5, EmitFresh
  <2> QED
    BY <1>1, <2>5, <2>6
<1>6. CASE \E p \in Port : Poll(p)
  <2>1. PICK p \in Port : Poll(p)
    BY <1>6
  <2> DEFINE e == [type |-> "presence", port |-> p, there |-> pad[p] # Nothing]
  <2>2. e \in Event /\ e.type = "presence" /\ Emit(e) /\ UNCHANGED pad
    BY <2>1, EventTyped DEF Poll
  <2> HIDE DEF e
  <2>3. PadKept
    BY <2>2, PadsKept
  <2>4. Fresh'
    BY <1>0, <2>2, <2>3, EmitFresh
  <2> QED
    BY <1>1, <2>3, <2>4
<1> QED
  BY <1>2, <1>3, <1>4, <1>5, <1>6 DEF Worker

-------------------------------------------------------------------------------
\* The user.
LEMMA ActiveKept ==
  ASSUME Acting, active(Now) # Nothing, NEW c, ctl' = [ctl EXCEPT ![active(Now)] = c],
         c.known = ctl[active(Now)].known, c.pad = ctl[active(Now)].pad
  PROVE  Kept
<1> DEFINE p == active(Now)
<1>1. p \in Port /\ ctl[p] # Nothing /\ CtlTyped
  BY ActingParts, ActivePart
<1>2. ctl' = [ctl EXCEPT ![p] = c] /\ c.known = ctl[p].known /\ c.pad = ctl[p].pad
  OBVIOUS
<1> HIDE DEF p
<1> QED
  BY <1>1, <1>2, EntryKept

LEMMA EditKept ==
  ASSUME Acting, active(Now) # Nothing, NEW s, NEW v,
         ctl' = [ctl EXCEPT ![active(Now)].edited[s] = v]
  PROVE  Kept
<1> DEFINE p == active(Now)
           c == [ctl[p] EXCEPT !.edited[s] = v]
<1>1. p \in Port /\ ctl[p] \in Controller /\ CtlTyped
  BY ActingParts, ActivePart
<1>2. ctl' = [ctl EXCEPT ![p] = c] /\ c.known = ctl[p].known /\ c.pad = ctl[p].pad
  BY <1>1 DEF CtlTyped, Controller
<1> HIDE DEF c
<1> QED
  BY <1>2, ActiveKept

LEMMA ReadsKept ==
  ASSUME Acting, NEW p \in Port, ctl[p] # Nothing, Reads(p)
  PROVE  Kept
<1> DEFINE c == [ctl[p] EXCEPT !.reading = TRUE]
<1>1. ctl[p] \in Controller /\ CtlTyped
  BY ActingParts DEF CtlTyped
<1>2. ctl' = [ctl EXCEPT ![p] = c] /\ c.known = ctl[p].known /\ c.pad = ctl[p].pad
  BY <1>1 DEF Reads, CtlTyped, Controller
<1> HIDE DEF c
<1> QED
  BY <1>1, <1>2, EntryKept

LEMMA ImportKept ==
  ASSUME Acting, NEW s, NEW v, apply_import(s, v)
  PROVE  Kept /\ Less(write, write')
<1>1. CASE active(Now) = Nothing
  BY <1>1, ActingParts, EntriesKept, SameWrite DEF apply_import
<1>2. CASE active(Now) # Nothing
  BY <1>2, ActingParts, EditKept, LessSelecting DEF apply_import
<1> QED
  BY <1>1, <1>2

LEMMA BatchKept ==
  ASSUME Acting, can_write_all, begin_batch
  PROVE  Kept /\ (Reviewing(write') => Reviewing(write))
<1> DEFINE b == [port |-> active(Now), stage |-> "reading", jobs |-> <<>>, at |-> 0]
<1>1. active(Now) \in Port /\ ctl[active(Now)] # Nothing /\ write \in WriteState
  BY IdleIsEmpty, ActingParts DEF can_write_all
<1>2. write' = [write EXCEPT !.batch = b] /\ b.stage = "reading" /\ Reads(active(Now))
  BY DEF begin_batch
<1> HIDE DEF b
<1>3. write'.review = write.review /\ write'.batch = b
  BY <1>1, <1>2 DEF WriteState
<1>4. Reviewing(write') => Reviewing(write)
  BY <1>2, <1>3 DEF Reviewing, AtStage
<1> QED
  BY <1>1, <1>2, <1>4, ReadsKept

LEMMA ChangedKept ==
  ASSUME Acting, AloneInv', NEW keep, apply_changed(keep)
  PROVE  Kept /\ (Reviewing(write') => Reviewing(write))
<1> DEFINE p == active(Now)
           c == [ctl[p] EXCEPT !.changed = {},
                               !.edited = [s \in Slot |->
                                 IF s \in changed_slots(Now) \ keep THEN Nothing ELSE @[s]]]
           u == settle_review(Then, write)
           w == settle_batch(Then, u)
<1>1. p # Nothing
  BY DEF apply_changed, Answers, Shows, changed_slots
<1>2. p \in Port /\ ctl[p] \in Controller /\ CtlTyped /\ GoodWrite(write) /\ write \in WriteState
      /\ cmds \in Seq(Command)
  BY <1>1, ActingParts, ActivePart
<1>3. Kept
  <2>1. ctl' = [ctl EXCEPT ![p] = c] /\ c.known = ctl[p].known /\ c.pad = ctl[p].pad
    BY <1>2 DEF apply_changed, CtlTyped, Controller
  <2> HIDE DEF c
  <2> QED
    BY <1>1, <2>1, ActiveKept
<1>4. Less(write, w)
  <2>1. GoodWrite(u) /\ Less(write, u)
    BY <1>2, SettlesReview, Drops
  <2> HIDE DEF u
  <2>2. Less(u, w)
    BY <2>1, Drops DEF GoodWrite
  <2> QED
    BY <2>1, <2>2, LessTwice
<1>5. write' = skip_empty_review(Then, w) /\ Sends(SkippedWrite(Then, w))
  BY DEF apply_changed
<1> HIDE DEF w
<1>6. CASE SkipsReview(Then, w) \/ SkipsBatch(Then, w)
  <2>1. Sends(<<WriteOf(skip_empty_review(Then, w))>>)
    BY <1>5, <1>6 DEF SkippedWrite
  <2>2. ~Reviewing(write')
    <3>1. PICK d : d = WriteOf(skip_empty_review(Then, w))
      OBVIOUS
    <3>2. d.op = "write" /\ Sends(<<d>>)
      BY <2>1, <3>1 DEF WriteOf
    <3> QED
      BY <1>2, <3>2, SentRuns
  <2> QED
    BY <1>3, <2>2
<1>7. CASE ~SkipsReview(Then, w) /\ ~SkipsBatch(Then, w)
  <2>1. write' = w
    BY <1>5, <1>7 DEF skip_empty_review
  <2> QED
    BY <1>3, <1>4, <2>1, LessReviews
<1> QED
  BY <1>6, <1>7

LEMMA MoveAnswerKept ==
  ASSUME Acting, answer_move
  PROVE  Kept
<1>1. CASE UNCHANGED ctl
  BY <1>1, EntriesKept
<1>2. CASE ~UNCHANGED ctl
  <2>1. PICK p \in move_candidates :
          ctl' = [q \in Port |->
             IF q = p THEN Nothing
             ELSE IF q = pending_move /\ ctl[pending_move] # Nothing
                  THEN Taken(ctl[pending_move], ctl[p]) ELSE ctl[q]]
    BY <1>2 DEF answer_move
  <2>2. p \in Port
    BY <2>1 DEF move_candidates, unplugged_with_edits, listed
  <2>3. ctl'[p] = Nothing
    BY <2>1, <2>2
  <2>4. \A q \in Port : q = p
    BY <2>2 DEF Acting, SinglePort
  <2> QED
    BY <2>3, <2>4 DEF Kept
<1> QED
  BY <1>1, <1>2

LEMMA WriteAnswerKept ==
  ASSUME Acting, AloneInv', AnswerWrite
  PROVE  Reviewing(write') => Reviewing(write)
<1>0. write \in WriteState /\ cmds \in Seq(Command)
  BY ActingParts
<1>1. ASSUME NEW w, Confirms(w) PROVE ~Reviewing(write')
  <2>1. PICK d : d = WriteOf(w)
    OBVIOUS
  <2>2. d.op = "write" /\ Sends(<<d>>)
    BY <1>1, <2>1 DEF WriteOf, Confirms
  <2> QED
    BY <1>0, <2>2, SentRuns
<1>2. ASSUME NEW w, Declines(w), Less(write, w) PROVE Reviewing(write') => Reviewing(write)
  BY <1>2, LessReviews DEF Declines
<1>3. /\ Less(write, [write EXCEPT !.review = Nothing])
      /\ Less(write, [write EXCEPT !.clearing = Nothing])
      /\ Less(write, [write EXCEPT !.failed = Nothing]) /\ Less(write, end_batch)
  BY <1>0, Drops DEF end_batch
<1>4. (\E w : Confirms(w)) \/ \E w : Declines(w) /\ Less(write, w)
  BY <1>3, Zenon DEF AnswerWrite
<1> QED
  BY <1>1, <1>2, <1>4

LEMMA UserKept ==
  ASSUME WindowInv, AloneInv, AloneInv', SinglePort, User
  PROVE  Kept /\ (Reviewing(write') => Reviewing(write))
<1>1. Acting
  BY DEF Acting, User
<1>2. write \in WriteState /\ (Less(write, write') /\ Reviewing(write') => Reviewing(write))
  BY <1>1, ActingParts, LessReviews
<1>3. CASE (\E v \in Value : Edit(v)) \/ discard
  <2>1. PICK s, v :
          active(Now) # Nothing /\ ctl' = [ctl EXCEPT ![active(Now)].edited[s] = v]
    <3>1. discard => active(Now) # Nothing
      BY DEF discard, edited_slots
    <3> QED
      BY <1>3, <3>1, Zenon DEF Edit, discard
  <2>2. UNCHANGED write
    BY <1>3 DEF Edit, discard
  <2> QED
    BY <1>1, <2>1, <2>2, EditKept
<1>4. CASE begin_review
  <2>1. active(Now) \in Port /\ ctl[active(Now)] # Nothing /\ Reads(active(Now))
    BY <1>1, <1>4, IdleIsEmpty DEF begin_review
  <2>2. write'.review = write.review /\ write'.batch = write.batch
    BY <1>2, <1>4 DEF begin_review, WriteState
  <2> QED
    BY <1>1, <2>1, <2>2, ReadsKept DEF Reviewing, AtStage
<1>5. CASE can_write_all /\ begin_batch
  BY <1>1, <1>5, BatchKept
<1>6. CASE begin_clear
  <2>1. write'.review = write.review /\ write'.batch = write.batch /\ UNCHANGED ctl
    BY <1>2, <1>6 DEF begin_clear, WriteState
  <2> QED
    BY <2>1, EntriesKept DEF Reviewing, AtStage
<1>7. CASE TryAgain
  <2>1. PICK p \in Failing : Reads(p)
    BY <1>7 DEF TryAgain
  <2>2. p \in Port /\ ctl[p] # Nothing
    <3>1. CASE active(Now) # Nothing /\ Of(Now).read_error
      BY <1>1, <2>1, <3>1, ActingParts, ActivePart DEF Failing
    <3>2. CASE ~(active(Now) # Nothing /\ Of(Now).read_error)
      BY <2>1, <3>2 DEF Failing
    <3> QED
      BY <3>1, <3>2
  <2>3. UNCHANGED write
    BY <1>7 DEF TryAgain
  <2> QED
    BY <1>1, <2>1, <2>2, <2>3, ReadsKept
<1>8. CASE \/ \E s \in Slot : select(s)
           \/ \E p \in Port : pick_controller(p)
           \/ relock_clicked \/ import_file \/ close_requested
  BY <1>1, <1>2, <1>8, SelectLess, EntriesKept
<1>9. CASE UNCHANGED <<ctl, write>>
  BY <1>9, EntriesKept
<1>10. CASE \E s, v : apply_import(s, v)
  BY <1>1, <1>2, <1>10, ImportKept
<1>11. CASE \E keep \in SUBSET Slot : apply_changed(keep)
  BY <1>1, <1>11, ChangedKept
<1>12. CASE answer_move
  BY <1>1, <1>12, MoveAnswerKept DEF answer_move
<1>13. CASE AnswerWrite
  <2>1. UNCHANGED ctl
    BY <1>13 DEF AnswerWrite
  <2> QED
    BY <1>1, <1>13, <2>1, WriteAnswerKept, EntriesKept
<1>14. CASE FileLands \/ AnswerImport \/ AnswerRelock \/ AnswerClose
  <2>1. \/ can_write_all /\ begin_batch
        \/ UNCHANGED <<ctl, write>>
        \/ \E s, v : apply_import(s, v)
    BY <1>14, Zenon DEF FileLands, AnswerImport, AnswerRelock, AnswerClose, can_write_before_close
  <2> QED
    BY <1>5, <1>9, <1>10, <2>1
<1> QED
  BY <1>3, <1>4, <1>5, <1>6, <1>7, <1>8, <1>11, <1>12, <1>13, <1>14, Zenon DEF User, WriteAll

LEMMA StepCompared ==
  ASSUME SinglePort, ~StepsFail, ~Moved, WindowInv, WindowInv', AloneInv, Compared, Fresh, [Next]_vars
  PROVE  AloneInv' /\ Compared' /\ Fresh'
<1>0. AloneInv' /\ evts \in Seq(Event)
  BY StepAlone DEF WindowInv, QueuesTyped
<1>1. CASE Handle
  BY <1>0, <1>1, HandleCompared
<1>2. CASE Worker
  BY <1>0, <1>2, WorkerCompared
<1>3. CASE \E p \in Port : Move(p)
  BY <1>3 DEF Move
<1>4. CASE User
  <2>1. UNCHANGED evts /\ PadKept
    BY <1>4, PadsKept DEF User, bus
  <2>2. Kept /\ (Reviewing(write') => Reviewing(write))
    BY <1>0, <1>4, UserKept
  <2> QED
    BY <1>0, <2>1, <2>2, ComparedStays, SameFresh
<1>5. CASE UNCHANGED vars
  <2>1. UNCHANGED <<evts, ctl, write>> /\ PadKept
    BY <1>5, PadsKept DEF vars, bus
  <2> QED
    BY <1>0, <2>1, EntriesKept, ComparedStays, SameFresh
<1> QED
  BY <1>1, <1>2, <1>3, <1>4, <1>5 DEF Next

LEMMA StartsCompared ==
  ASSUME Init
  PROVE  Compared /\ Fresh
<1>1. evts = <<>> /\ write = Idle
  BY DEF Init
<1>2. DOMAIN evts = {}
  BY <1>1
<1>3. ~Reviewing(write)
  BY <1>1 DEF Idle, Reviewing, AtStage
<1> QED
  BY <1>2, <1>3 DEF Compared, Fresh

\* What shows for review is of the controller that shows.
LEMMA ComparedShows ==
  ASSUME ViewInv, Compared
  PROVE  ReviewIsTrue
<1> DEFINE p == active(Now)
<1>1. SUFFICES ASSUME Shows("review") \/ Shows("batch_review"), pad[p] \in Contents
               PROVE  Of(Now).pad = pad[p]
  BY DEF ReviewIsTrue
<1>2. Reviewing(write) /\ edited_slots(Now) # {}
  <2>1. CASE Shows("review")
    BY <2>1 DEF Shows, review_open, Reviewing
  <2>2. CASE Shows("batch_review")
    BY <2>2 DEF Shows, batch_review_open, Reviewing
  <2> QED
    BY <1>1, <2>1, <2>2
<1>3. p # Nothing
  BY <1>2 DEF edited_slots
<1>4. p \in Port /\ ctl[p] # Nothing /\ ctl[p].known /\ Of(Now) = ctl[p]
  BY <1>3, ActivePart
<1>5. Read(p)
  BY <1>2, <1>4 DEF Compared
<1> QED
  BY <1>1, <1>4, <1>5 DEF Read

\* With one port, pads written by the window only and macros whose steps read, a review that
\* shows compares the edits with what the pad really holds (begin_review, begin_batch).
THEOREM ReviewIsTrueHolds ==
  ASSUME SinglePort, ~StepsFail, ~Moved
  PROVE  Spec => []ReviewIsTrue
<1> DEFINE Inv == WindowInv /\ WaitsInv
           True == AloneInv /\ Compared /\ Fresh
<1>1. Init => True
  BY StartsAlone, StartsCompared
<1>2. Inv /\ Inv' /\ True /\ [Next]_vars => True'
  BY StepCompared
<1>3. Inv /\ True => ReviewIsTrue
  BY ComparedShows DEF WindowInv
<1>4. Spec => []Inv
  BY AlwaysInv
<1> HIDE DEF Inv, True
<1> QED
  BY <1>1, <1>2, <1>3, <1>4, PTL DEF Spec

===============================================================================
