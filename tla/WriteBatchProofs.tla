--------------------------- MODULE WriteBatchProofs ---------------------------
(***************************************************************************)
(* What WriteBatch promises for every number of modes, pages and replugs.  *)
(*                                                                         *)
(* First the types, then an inductive invariant from which the safety      *)
(* properties of the runs follow.                                          *)
(***************************************************************************)
EXTENDS WriteBatch, FiniteSetTheorems, SequenceTheorems, TLAPS

USE WriteBatchAssumption

(***************************************************************************)
(* Types.  Every call that names Cur needs at to be an index of order.     *)
(***************************************************************************)
AtIsIndex ==
  /\ pc \in {"plan", "begin"} => at = 1
  /\ pc \notin {"plan", "done"} => at \in 1..Len(order)

Typed == TypeOK /\ AtIsIndex

\* The planned orders are non-empty sequences of modes.
LEMMA OrdersType ==
  ASSUME NEW s \in Orders
  PROVE  s \in Seq(Mode) /\ 1 \in 1..Len(s)
<1>1. Cardinality(Mode) \in Nat
  BY FS_CardinalityType
<1>2. PICK n \in 1..Cardinality(Mode) : s \in [1..n -> Mode]
  BY DEF Orders
<1>3. n \in Nat /\ n >= 1
  BY <1>1, <1>2
<1>4. s \in Seq(Mode) /\ Len(s) = n
  BY <1>2, <1>3
<1> QED
  BY <1>3, <1>4

\* The bank that is being written is one of the modes.
LEMMA CurType ==
  ASSUME Typed, pc \notin {"plan", "done"}
  PROVE  Cur \in Mode /\ at \in 1..Len(order)
BY DEF Typed, TypeOK, PlanOK, Cur, AtIsIndex

LEMMA UnchangedTyped ==
  /\ PlanOK /\ UNCHANGED plan => PlanOK'
  /\ WorkOK /\ UNCHANGED work => WorkOK'
  /\ ReportOK /\ UNCHANGED report => ReportOK'
  /\ FlashOK /\ UNCHANGED flash => FlashOK'
  /\ WireOK /\ UNCHANGED wire => WireOK'
<1>1. PlanOK /\ UNCHANGED plan => PlanOK'
  BY DEF PlanOK, plan
<1>2. WorkOK /\ UNCHANGED work => WorkOK'
  BY DEF WorkOK, work
<1>3. ReportOK /\ UNCHANGED report => ReportOK'
  BY DEF ReportOK, report
<1>4. FlashOK /\ UNCHANGED flash => FlashOK'
  BY DEF FlashOK, flash
<1>5. WireOK /\ UNCHANGED wire => WireOK'
  BY DEF WireOK, wire
<1> QED
  BY <1>1, <1>2, <1>3, <1>4, <1>5

LEMMA InitTyped == Init => Typed
<1> SUFFICES ASSUME Init PROVE Typed
  OBVIOUS
<1> USE DEF Init
<1>1. pc \in Stage /\ AtIsIndex
  BY DEF Stage, AtIsIndex
<1>2. PlanOK
  BY DEF PlanOK
<1>3. WorkOK
  BY DEF WorkOK
<1>4. ReportOK
  BY DEF ReportOK, Verdict
<1>5. FlashOK
  <2>1. page \in [Mode -> [PageNo -> {"old", "new", "broken"}]]
    OBVIOUS
  <2> QED
    BY <2>1 DEF FlashOK
<1>6. WireOK
  <2>1. replugs \in 0..MaxReplugs /\ selected \in Mode
    OBVIOUS
  <2>2. session \in {"none", "held", "stale"} /\ flipped \in BOOLEAN
    OBVIOUS
  <2> QED
    BY <2>1, <2>2 DEF WireOK
<1> QED
  BY <1>1, <1>2, <1>3, <1>4, <1>5, <1>6 DEF Typed, TypeOK

-------------------------------------------------------------------------------
(***************************************************************************)
(* The device calls keep the types of the pad and of the session.          *)
(***************************************************************************)
LEMMA ProfileTyped ==
  ASSUME FlashOK, WireOK, NEW m \in Mode, NEW img \in {"old", "new"},
         NEW z \in SUBSET PageNo,
         write_full_profile(m, img, z) \/ write_full_profile_fails(m, img, z)
  PROVE  FlashOK' /\ WireOK'
<1> USE DEF FlashOK, WireOK
<1>1. WireOK'
  BY DEF write_full_profile, write_full_profile_fails, Answers, Fails
<1>2. Land(m, img, z) => bank' \in [Mode -> {"old", "new", "alike", "torn"}]
                         /\ gone' \in [Mode -> SUBSET PageNo] /\ applied' \subseteq Mode
  BY DEF Land
<1>3. Tear => bank' \in [Mode -> {"old", "new", "alike", "torn"}]
              /\ gone' \in [Mode -> SUBSET PageNo] /\ applied' \subseteq Mode
  BY DEF Tear
<1>4. Land(m, "alike", z) => bank' \in [Mode -> {"old", "new", "alike", "torn"}]
                             /\ gone' \in [Mode -> SUBSET PageNo] /\ applied' \subseteq Mode
  BY DEF Land
<1>5. UNCHANGED page
  BY DEF write_full_profile, write_full_profile_fails
<1> QED
  BY <1>1, <1>2, <1>3, <1>4, <1>5 DEF write_full_profile, write_full_profile_fails

LEMMA ApplyTyped ==
  ASSUME FlashOK, WireOK, send_apply \/ send_apply_fails
  PROVE  FlashOK' /\ WireOK'
BY DEF FlashOK, WireOK, send_apply, send_apply_fails, Answers, Fails

LEMMA StreamTyped ==
  ASSUME FlashOK, WireOK, NEW m \in Mode, NEW i, NEW steps \in {"old", "new"},
         write_macro_stream(m, i, steps) \/ write_macro_stream_fails(m, i, steps)
  PROVE  FlashOK' /\ WireOK'
<1> USE DEF FlashOK, WireOK
<1>1. ASSUME NEW v \in {"old", "new", "broken"}, SetPage(m, i, v)
      PROVE  page' \in [Mode -> [PageNo -> {"old", "new", "broken"}]] /\ applied' \subseteq Mode
  <2>1. [page[m] EXCEPT ![i] = v] \in [PageNo -> {"old", "new", "broken"}]
    BY <1>1
  <2> QED
    BY <1>1, <2>1 DEF SetPage
<1> QED
  BY <1>1 DEF write_macro_stream, write_macro_stream_fails, Answers, Fails

LEMMA ReadTyped ==
  ASSUME FlashOK, WireOK, read_all_profiles \/ read_all_profiles_fails
  PROVE  FlashOK' /\ WireOK'
BY DEF FlashOK, WireOK, flash, read_all_profiles, read_all_profiles_fails, Fails, Here

-------------------------------------------------------------------------------
(***************************************************************************)
(* What the control helpers leave behind: the plan, the work and the       *)
(* report keep their types, and at stays an index.                         *)
(***************************************************************************)
ControlOK == pc \in Stage /\ PlanOK /\ WorkOK /\ ReportOK /\ AtIsIndex

LEMMA ControlSplit == Typed <=> ControlOK /\ FlashOK /\ WireOK
BY DEF Typed, TypeOK, ControlOK

LEMMA FailedResultType ==
  ASSUME Typed, NEW v \in Verdict
  PROVE  FailedResult(v) \in [Mode -> Verdict]
BY DEF Typed, TypeOK, ReportOK, FailedResult, Verdict, Failure, Refused

LEMMA GoTyped ==
  ASSUME Typed, pc \notin {"plan", "done"}, NEW s \in Stage \ {"plan", "begin"}, Go(s)
  PROVE  ControlOK'
BY UnchangedTyped DEF Typed, TypeOK, ControlOK, AtIsIndex, Go, plan, work

LEMMA FailTyped ==
  ASSUME Typed, pc \notin {"plan", "done"}, NEW v \in Verdict, Fail(v)
  PROVE  ControlOK'
<1>1. PlanOK' /\ WorkOK'
  BY UnchangedTyped DEF Typed, TypeOK, Fail
<1>2. ReportOK'
  BY FailedResultType DEF Typed, TypeOK, Fail, ReportOK
<1>3. pc' \in Stage /\ AtIsIndex'
  BY DEF Typed, AtIsIndex, Fail, Stage, plan, work
<1> QED
  BY <1>1, <1>2, <1>3 DEF ControlOK

LEMMA SucceedTyped ==
  ASSUME Typed, pc \notin {"plan", "done"}, Succeed
  PROVE  ControlOK'
<1>1. PlanOK'
  BY UnchangedTyped DEF Typed, TypeOK, Succeed
<1>2. WorkOK'
  BY DEF Typed, TypeOK, WorkOK, Succeed
<1>3. ReportOK'
  BY DEF Typed, TypeOK, ReportOK, Succeed, Verdict
<1>4. pc' \in Stage /\ AtIsIndex'
  <2>1. at \in 1..Len(order) /\ Len(order) \in Nat /\ order' = order
    BY DEF Typed, TypeOK, PlanOK, AtIsIndex, Succeed, plan
  <2>2. at' \in 1..Len(order)
    BY <2>1 DEF Succeed
  <2>3. pc' \in Stage \ {"plan", "begin"}
    BY DEF Succeed, Start, Stage
  <2> QED
    BY <2>1, <2>2, <2>3 DEF AtIsIndex
<1> QED
  BY <1>1, <1>2, <1>3, <1>4 DEF ControlOK

LEMMA BankDoneTyped ==
  ASSUME Typed, pc \notin {"plan", "done"}, BankDone
  PROVE  ControlOK'
<1>1. CASE puts[Cur] > 0
  <2>1. PlanOK' /\ ReportOK'
    BY <1>1, UnchangedTyped DEF Typed, TypeOK, BankDone
  <2>2. WorkOK'
    BY <1>1 DEF Typed, TypeOK, WorkOK, BankDone
  <2>3. pc' \in Stage /\ AtIsIndex'
    BY <1>1 DEF Typed, AtIsIndex, BankDone, Stage, plan
  <2> QED
    BY <2>1, <2>2, <2>3 DEF ControlOK
<1>2. CASE ~(puts[Cur] > 0)
  BY <1>2, SucceedTyped DEF BankDone
<1> QED
  BY <1>1, <1>2

LEMMA RollbackTyped ==
  ASSUME Typed, pc \notin {"plan", "done"},
         NEW c \in {"write", "readback", "pages"}, NEW t \in SUBSET PageNo, Rollback(c, t)
  PROVE  ControlOK'
<1>1. CASE Cur \in active \/ c = "pages"
  <2>1. PlanOK' /\ ReportOK'
    BY <1>1, UnchangedTyped DEF Typed, TypeOK, Rollback
  <2>2. WorkOK'
    BY <1>1 DEF Typed, TypeOK, WorkOK, Rollback
  <2>3. pc' \in Stage /\ AtIsIndex'
    BY <1>1 DEF Typed, AtIsIndex, Rollback, Stage, plan
  <2> QED
    BY <2>1, <2>2, <2>3 DEF ControlOK
<1>2. CASE ~(Cur \in active \/ c = "pages")
  BY <1>2, FailTyped DEF Rollback, Verdict, Failure, Broken
<1> QED
  BY <1>1, <1>2

LEMMA TouchedType ==
  ASSUME Typed, pc \notin {"plan", "done"}
  PROVE  Touched \in SUBSET PageNo
BY CurType DEF Typed, TypeOK, PlanOK, Touched

LEMMA SaveTyped ==
  ASSUME ReportOK, NEW want \in SUBSET (Mode \X (0..MaxPages)), Save(want)
  PROVE  /\ files' \subseteq Mode \X (0..MaxPages)
         /\ unsaved' \subseteq Mode \X (0..MaxPages)
BY DEF ReportOK, Save

-------------------------------------------------------------------------------
\* A report whose result becomes the failure v, with no other change.
LEMMA ReportFailed ==
  ASSUME Typed, NEW v \in Verdict, result' = FailedResult(v),
         UNCHANGED <<files, unsaved, advice>>
  PROVE  ReportOK'
BY FailedResultType DEF Typed, TypeOK, ReportOK

LEMMA NextTyped == Typed /\ [Next]_vars => Typed'
<1> SUFFICES ASSUME Typed, [Next]_vars PROVE Typed'
  OBVIOUS
<1>a. FlashOK /\ WireOK /\ PlanOK /\ WorkOK /\ ReportOK /\ AtIsIndex
  BY DEF Typed, TypeOK
<1>0. CASE UNCHANGED vars
  BY <1>0, <1>a, UnchangedTyped DEF Typed, TypeOK, AtIsIndex, vars, plan, work
<1>1. CASE Plan
  <2>1. PICK s \in Orders : /\ order' = s
                            /\ active' \in SUBSET {s[k] : k \in DOMAIN s}
                            /\ edited' \in SUBSET {s[k] : k \in DOMAIN s}
                            /\ puts' \in [Mode -> 0..MaxPages]
                            /\ olds' \in [Mode -> SUBSET PageNo]
    BY <1>1 DEF Plan
  <2>2. s \in Seq(Mode) /\ 1 \in 1..Len(s)
    BY OrdersType
  <2>3. \A k \in DOMAIN s : s[k] \in Mode
    BY <2>2
  <2>4. PlanOK'
    BY <2>1, <2>2, <2>3 DEF PlanOK
  <2>5. at' = 1
    BY <1>1, <1>a DEF Plan, AtIsIndex, work
  <2> QED
    BY <1>1, <1>a, <2>1, <2>2, <2>4, <2>5, UnchangedTyped DEF Typed, TypeOK, AtIsIndex, Plan, Stage
<1>2. CASE PlanRefused
  <2>1. ReportOK'
    BY <1>2, <1>a DEF PlanRefused, ReportOK, Verdict, Failure, Refused
  <2> QED
    BY <1>2, <1>a, <2>1, UnchangedTyped DEF Typed, TypeOK, AtIsIndex, PlanRefused, Stage
<1>3. CASE begin_write
  <2>1. ControlOK'
    BY <1>3, GoTyped DEF begin_write, Start, Stage
  <2>2. FlashOK'
    BY <1>3, <1>a, UnchangedTyped DEF begin_write
  <2>3. WireOK'
    BY <1>3, <1>a DEF begin_write, WireOK
  <2> QED
    BY <2>1, <2>2, <2>3, ControlSplit DEF Typed, TypeOK, ControlOK
<1>4. CASE begin_write_fails
  <2>1. ReportOK'
    <3>1. result' \in [Mode -> Verdict] /\ advice' \in BOOLEAN
      BY <1>4, <1>a DEF begin_write_fails, ReportOK, RefuseAll, Verdict, Failure, Refused
    <3> QED
      BY <1>4, <1>a, <3>1 DEF begin_write_fails, ReportOK
  <2>2. WireOK'
    BY <1>4, <1>a DEF begin_write_fails, WireOK
  <2> QED
    BY <1>4, <1>a, <2>1, <2>2, UnchangedTyped DEF Typed, TypeOK, AtIsIndex, begin_write_fails, Stage
<1>5. CASE SaveFirst
  <2>1. ControlOK'
    BY <1>5, GoTyped, FailTyped DEF SaveFirst, Stage, Verdict, Failure, Refused
  <2> QED
    BY <1>5, <1>a, <2>1, UnchangedTyped DEF SaveFirst, Typed, TypeOK, ControlOK
<1>6. CASE Select
  <2>1. ControlOK'
    BY <1>6, GoTyped, FailTyped DEF Select, Stage, Verdict, Failure, Broken
  <2>2. WireOK'
    BY <1>6, <1>a, CurType DEF Select, WireOK, Answers, Fails
  <2> QED
    BY <1>6, <1>a, <2>1, <2>2, UnchangedTyped DEF Select, Typed, TypeOK, ControlOK
<1>7. CASE Write
  <2>1. ControlOK'
    BY <1>7, GoTyped, RollbackTyped DEF Write, Stage
  <2>2. FlashOK' /\ WireOK'
    BY <1>7, <1>a, CurType, ProfileTyped DEF Write
  <2> QED
    BY <2>1, <2>2 DEF Typed, TypeOK, ControlOK
<1>8. CASE Apply
  <2>1. ControlOK'
    BY <1>8, GoTyped, BankDoneTyped, FailTyped DEF Apply, Stage, Verdict, Failure, Broken
  <2>2. FlashOK' /\ WireOK'
    BY <1>8, <1>a, ApplyTyped DEF Apply
  <2> QED
    BY <2>1, <2>2 DEF Typed, TypeOK, ControlOK
<1>9. CASE Check
  <2>1. ControlOK'
    BY <1>9, BankDoneTyped, RollbackTyped, FailTyped DEF Check, Stage, Verdict, Failure, Broken
  <2>2. FlashOK' /\ WireOK'
    BY <1>9, <1>a, ReadTyped DEF Check
  <2> QED
    BY <2>1, <2>2 DEF Typed, TypeOK, ControlOK
<1>10. CASE WritePage
  <2>1. FlashOK' /\ WireOK'
    BY <1>10, <1>a, CurType, StreamTyped DEF WritePage
  <2>2. CASE Rollback("pages", Touched)
    BY <1>10, <2>1, <2>2, TouchedType, RollbackTyped DEF WritePage, Typed, TypeOK, ControlOK
  <2>3. CASE /\ pg' = pg + 1
             /\ pc' = IF pg < puts[Cur] THEN "page" ELSE "last_apply"
             /\ UNCHANGED <<plan, at, cause, todo, lost, report>>
    <3>1. PlanOK' /\ ReportOK'
      BY <1>a, <2>3, UnchangedTyped
    <3>2. WorkOK' /\ AtIsIndex' /\ pc' \in Stage
      BY <1>a, <1>10, <2>3 DEF WorkOK, AtIsIndex, plan, Stage, WritePage
    <3> QED
      BY <2>1, <3>1, <3>2 DEF Typed, TypeOK
  <2> QED
    BY <1>10, <2>2, <2>3 DEF WritePage
<1>11. CASE LastApply
  <2>1. ControlOK'
    BY <1>11, SucceedTyped, FailTyped DEF LastApply, Verdict, Failure, Broken
  <2>2. FlashOK' /\ WireOK'
    BY <1>11, <1>a, ApplyTyped DEF LastApply
  <2> QED
    BY <2>1, <2>2 DEF Typed, TypeOK, ControlOK
<1>12. CASE RollbackWrite
  <2>1. ControlOK'
    BY <1>12, GoTyped DEF RollbackWrite, Stage
  <2>2. FlashOK' /\ WireOK'
    BY <1>12, <1>a, CurType, ProfileTyped DEF RollbackWrite
  <2> QED
    BY <2>1, <2>2 DEF Typed, TypeOK, ControlOK
<1>13. CASE RollbackApply
  <2>1. ControlOK'
    BY <1>13, GoTyped, FailTyped DEF RollbackApply, Stage, Verdict, Failure, RolledBack
  <2>2. FlashOK' /\ WireOK'
    BY <1>13, <1>a, ApplyTyped DEF RollbackApply
  <2> QED
    BY <2>1, <2>2 DEF Typed, TypeOK, ControlOK
<1>14. CASE RollbackSave
  <2>1. {<<Cur, 0>>} \in SUBSET (Mode \X (0..MaxPages))
    BY <1>14, CurType DEF RollbackSave
  <2>2. ReportOK'
    <3>1. result' \in [Mode -> Verdict] /\ advice' = advice
      BY <1>14, FailedResultType DEF RollbackSave, Verdict, Failure, RollbackFailed
    <3> QED
      BY <1>14, <1>a, <2>1, <3>1, SaveTyped DEF RollbackSave, ReportOK
  <2>3. WorkOK' /\ AtIsIndex' /\ pc' \in Stage
    BY <1>14, <1>a DEF RollbackSave, WorkOK, AtIsIndex, plan, Stage
  <2> QED
    BY <1>14, <1>a, <2>2, <2>3, UnchangedTyped DEF RollbackSave, Typed, TypeOK
<1>15. CASE Restore
  <2>1. FlashOK' /\ WireOK'
    BY <1>15, <1>a, CurType, StreamTyped DEF Restore
  <2>2. WorkOK' /\ AtIsIndex' /\ pc' \in Stage
    BY <1>15, <1>a DEF Restore, Restored, WorkOK, AtIsIndex, plan, Stage
  <2> QED
    BY <1>15, <1>a, <2>1, <2>2, UnchangedTyped DEF Restore, Typed, TypeOK
<1>16. CASE RestoreApply
  <2>1. FlashOK' /\ WireOK'
    BY <1>16, <1>a, ApplyTyped DEF RestoreApply
  <2>2. CASE Fail("rolled_back")
    BY <1>16, <2>1, <2>2, FailTyped
       DEF RestoreApply, Verdict, Failure, RolledBack, Typed, TypeOK, ControlOK
  <2>3. CASE /\ pc' = "empty" /\ lost' = Touched
             /\ UNCHANGED <<plan, at, pg, cause, todo, report>>
    <3>1. WorkOK' /\ AtIsIndex' /\ pc' \in Stage
      BY <1>16, <1>a, <2>3, TouchedType DEF RestoreApply, WorkOK, AtIsIndex, plan, Stage
    <3> QED
      BY <1>a, <2>1, <2>3, <3>1, UnchangedTyped DEF Typed, TypeOK
  <2> QED
    BY <1>16, <2>2, <2>3 DEF RestoreApply
<1>17. CASE Empty
  <2>1. FlashOK' /\ WireOK'
    BY <1>17, <1>a, CurType, ProfileTyped DEF Empty, WorkOK
  <2>2. CASE Go("empty_apply")
    BY <1>17, <2>1, <2>2, GoTyped DEF Empty, Stage, Typed, TypeOK, ControlOK
  <2>3. CASE /\ result' = FailedResult("not_emptied") /\ pc' = "save_macros"
             /\ UNCHANGED <<plan, work, files, unsaved, advice>>
    <3>1. ReportOK'
      BY <2>3, ReportFailed DEF Verdict, Failure, RollbackFailed
    <3> QED
      BY <1>17, <1>a, <2>1, <2>3, <3>1, UnchangedTyped
         DEF Empty, Typed, TypeOK, AtIsIndex, Stage, plan, work
  <2> QED
    BY <1>17, <2>2, <2>3 DEF Empty
<1>18. CASE EmptyApply
  <2>1. FlashOK' /\ WireOK'
    BY <1>18, <1>a, ApplyTyped DEF EmptyApply
  <2>2. ReportOK'
    BY <1>18, ReportFailed DEF EmptyApply, Verdict, Failure, RollbackFailed
  <2> QED
    BY <1>18, <1>a, <2>1, <2>2, UnchangedTyped
       DEF EmptyApply, Typed, TypeOK, AtIsIndex, Stage, plan, work
<1>19. CASE SaveMacros
  <2>1. {Cur} \X lost \in SUBSET (Mode \X (0..MaxPages))
    <3>1. Cur \in Mode /\ lost \subseteq 0..MaxPages
      BY <1>19, <1>a, CurType DEF SaveMacros, WorkOK, PageNo
    <3> QED
      BY <3>1
  <2>2. ReportOK'
    BY <1>19, <1>a, <2>1, SaveTyped DEF SaveMacros, ReportOK
  <2> QED
    BY <1>19, <1>a, <2>2, UnchangedTyped
       DEF SaveMacros, Typed, TypeOK, AtIsIndex, Stage, plan, work
<1>20. CASE ReadBack
  <2>1. FlashOK' /\ WireOK'
    BY <1>20, <1>a, UnchangedTyped, ReadTyped DEF ReadBack
  <2>2. result' \in [Mode -> Verdict]
    BY <1>20, <1>a DEF ReadBack, ReportOK, Verdict, Failure, Broken
  <2> QED
    BY <1>20, <1>a, <2>1, <2>2, UnchangedTyped
       DEF ReadBack, Typed, TypeOK, ReportOK, AtIsIndex, Stage, plan, work
<1>21. CASE end_write
  <2>1. WireOK'
    BY <1>21, <1>a DEF end_write, WireOK
  <2>2. ReportOK'
    BY <1>21, <1>a DEF end_write, ReportOK
  <2> QED
    BY <1>21, <1>a, <2>1, <2>2, UnchangedTyped DEF end_write, Typed, TypeOK, AtIsIndex, Stage
<1>22. CASE Replug
  <2>1. WireOK'
    <3>1. replugs' \in 0..MaxReplugs
      BY <1>22, <1>a DEF Replug, WireOK
    <3>2. session' \in {"none", "held", "stale"} /\ selected' \in Mode /\ flipped' \in BOOLEAN
      BY <1>22, <1>a DEF Replug, WireOK
    <3> QED
      BY <3>1, <3>2 DEF WireOK
  <2> QED
    BY <1>22, <1>a, <2>1, UnchangedTyped
       DEF Replug, Typed, TypeOK, AtIsIndex, plan, work
<1> QED
  BY <1>0, <1>1, <1>2, <1>3, <1>4, <1>5, <1>6, <1>7, <1>8, <1>9, <1>10, <1>11, <1>12, <1>13, <1>14, <1>15, <1>16, <1>17, <1>18, <1>19, <1>20, <1>21, <1>22 DEF Next, Step, Finished

\* Every variable keeps its type, for every number of modes, pages and replugs.
THEOREM TypeCorrect == Spec => []TypeOK
<1>1. Typed => TypeOK
  BY DEF Typed
<1> QED
  BY <1>1, InitTyped, NextTyped, PTL DEF Spec

-------------------------------------------------------------------------------
(***************************************************************************)
(* The calls of a bank reach that bank alone, when Addressed.              *)
(***************************************************************************)
USE DEF AsSent

\* The bank of m is not touched by the step.
Same(m) == /\ bank'[m] = bank[m] /\ gone'[m] = gone[m] /\ page'[m] = page[m]
           /\ m \in applied' <=> m \in applied

OthersSame == \A m \in Mode \ {Cur} : Same(m)

\* The pad can be reached after the step only if it still has Cur selected.
StillSelected == Reach' => selected' = Cur

LEMMA OneBank ==
  ASSUME Typed, pc \notin {"plan", "done"}, Mode = {Slide}
  PROVE  selected = Slide /\ Cur = Slide
BY CurType DEF Typed, TypeOK, WireOK

LEMMA FailsKeepsSelected ==
  ASSUME Typed, pc \in Sending, Addressed, ReplugEndsWriting, SelectedWhileReached,
         Fails, UNCHANGED selected
  PROVE  StillSelected /\ ReplugEndsWriting'
<1>1. CASE Mode = {Slide}
  BY <1>1, OneBank DEF Sending, StillSelected, Fails, ReplugEndsWriting
<1>2. CASE Mode # {Slide}
  <2>1. session = "held" \/ session = "none" \/ session = "stale"
    BY DEF Typed, TypeOK, WireOK
  <2>2. MaxReplugs = 0 => session # "stale"
    BY DEF ReplugEndsWriting
  <2>3. Reach' => Reach
    BY <1>2, <2>1, <2>2 DEF Reach, Fails, Addressed, ReplugEndsWriting
  <2> QED
    BY <2>3 DEF Fails, StillSelected, SelectedWhileReached, ReplugEndsWriting
<1> QED
  BY <1>1, <1>2

LEMMA AnswersKeepsSelected ==
  ASSUME pc \in Sending, ReplugEndsWriting, SelectedWhileReached, Answers, UNCHANGED selected
  PROVE  selected = Cur /\ StillSelected /\ ReplugEndsWriting'
BY DEF Answers, Reach, StillSelected, SelectedWhileReached, ReplugEndsWriting

LEMMA ProfileConfined ==
  ASSUME Typed, pc \in Sending, Addressed, ReplugEndsWriting, SelectedWhileReached,
         NEW img, NEW z,
         write_full_profile(Cur, img, z) \/ write_full_profile_fails(Cur, img, z)
  PROVE  OthersSame /\ StillSelected /\ ReplugEndsWriting'
<1> DEFINE Sends(x, y) == Land(Cur, x, y) \/ Land(Cur, "alike", y) \/ Tear
<1>1. UNCHANGED <<page, selected>>
  BY DEF write_full_profile, write_full_profile_fails
<1>2. StillSelected /\ ReplugEndsWriting'
  BY <1>1, FailsKeepsSelected, AnswersKeepsSelected
     DEF write_full_profile, write_full_profile_fails
<1>3. UNCHANGED <<bank, gone, applied>> \/ (Reach /\ Sends(img, z))
  <2>1. CASE write_full_profile(Cur, img, z)
    <3>1. Sends(img, z)
      BY <2>1 DEF write_full_profile
    <3>2. Reach
      BY <2>1 DEF write_full_profile, Answers
    <3> QED
      BY <3>1, <3>2
  <2>2. CASE write_full_profile_fails(Cur, img, z)
    BY <2>2 DEF write_full_profile_fails
  <2> QED
    BY <2>1, <2>2
<1>4. CASE UNCHANGED <<bank, gone, applied>>
  BY <1>1, <1>2, <1>4 DEF OthersSame, Same
<1>5. CASE Reach /\ Sends(img, z)
  <2>1. selected = Cur
    BY <1>5 DEF SelectedWhileReached
  <2>2. /\ bank \in [Mode -> {"old", "new", "alike", "torn"}]
        /\ gone \in [Mode -> SUBSET PageNo]
    BY DEF Typed, TypeOK, FlashOK
  <2>3. \A m \in Mode \ {Cur} : /\ bank'[m] = bank[m] /\ gone'[m] = gone[m]
                                /\ m \in applied' <=> m \in applied
    BY <1>5, <2>1, <2>2 DEF Land, Tear
  <2> QED
    BY <1>1, <1>2, <2>3 DEF OthersSame, Same
<1> QED
  BY <1>2, <1>3, <1>4, <1>5

LEMMA ApplyConfined ==
  ASSUME Typed, pc \in Sending, Addressed, ReplugEndsWriting, SelectedWhileReached,
         send_apply \/ send_apply_fails
  PROVE  OthersSame /\ StillSelected /\ ReplugEndsWriting'
<1>1. UNCHANGED <<bank, gone, page, selected>>
  BY DEF send_apply, send_apply_fails
<1>2. StillSelected /\ ReplugEndsWriting'
  BY <1>1, FailsKeepsSelected, AnswersKeepsSelected DEF send_apply, send_apply_fails
<1>3. applied' = applied \/ (Reach /\ applied' = applied \cup {selected})
  <2>1. send_apply => Reach /\ applied' = applied \cup {selected}
    BY DEF send_apply, Answers
  <2> QED
    BY <2>1 DEF send_apply_fails
<1>4. \A m \in Mode \ {Cur} : m \in applied' <=> m \in applied
  BY <1>3 DEF SelectedWhileReached
<1> QED
  BY <1>1, <1>2, <1>4 DEF OthersSame, Same

LEMMA StreamConfined ==
  ASSUME Typed, pc \in Sending, Addressed, ReplugEndsWriting, SelectedWhileReached,
         NEW i, NEW steps,
         write_macro_stream(Cur, i, steps) \/ write_macro_stream_fails(Cur, i, steps)
  PROVE  OthersSame /\ StillSelected /\ ReplugEndsWriting'
<1>1. UNCHANGED <<bank, gone, selected>>
  BY DEF write_macro_stream, write_macro_stream_fails
<1>2. StillSelected /\ ReplugEndsWriting'
  BY <1>1, FailsKeepsSelected, AnswersKeepsSelected
     DEF write_macro_stream, write_macro_stream_fails
<1>3. page \in [Mode -> [PageNo -> {"old", "new", "broken"}]]
  BY DEF Typed, TypeOK, FlashOK
<1>4. UNCHANGED <<page, applied>> \/ SetPage(Cur, i, steps) \/ SetPage(Cur, i, "broken")
  BY DEF write_macro_stream, write_macro_stream_fails
<1>5. \A m \in Mode \ {Cur} : page'[m] = page[m] /\ (m \in applied' <=> m \in applied)
  BY <1>3, <1>4 DEF SetPage
<1> QED
  BY <1>1, <1>2, <1>5 DEF OthersSame, Same

-------------------------------------------------------------------------------
(***************************************************************************)
(* What a step does to the part of WriteInv that is about the results.     *)
(***************************************************************************)
Results == PlanFacts /\ Progress /\ RefusedAsRead /\ SuccessSoFar

LEMMA AsReadKept ==
  ASSUME NEW m \in Mode, Same(m), UNCHANGED plan, AsRead(m)
  PROVE  AsRead(m)'
BY DEF AsRead, Same, plan

\* The banks after the current one are others.
LEMMA LaterIsOther ==
  ASSUME Typed, PlanFacts, pc \notin {"plan", "done"}, NEW k \in at + 1..Len(order)
  PROVE  /\ order[k] \in Mode \ {Cur}
         /\ k \in at..Len(order) /\ k \in 1..Len(order)
<1>1. order \in Seq(Mode) /\ at \in 1..Len(order) /\ Len(order) \in Nat
  BY CurType DEF Typed, TypeOK, PlanOK
<1>2. k \in 1..Len(order) /\ k \in at..Len(order) /\ k # at
  BY <1>1
<1>3. order[k] # order[at]
  BY <1>1, <1>2 DEF PlanFacts
<1> QED
  BY <1>1, <1>2, <1>3 DEF Cur

LEMMA BatchIsModes ==
  ASSUME PlanOK, NEW m \in Batch
  PROVE  m \in Mode
BY DEF PlanOK, Batch

\* An untried bank has no result, so a success or a refusal is another bank's.
LEMMA CurUntried ==
  ASSUME Typed, Progress, pc \in Sending \cup Ahead
  PROVE  result[Cur] = "untried"
<1>1. pc \notin {"plan", "done"}
  BY DEF Sending, Ahead
<1>2. at \in at..Len(order)
  BY <1>1, CurType DEF Typed, TypeOK, PlanOK
<1>3. result[order[at]] = "untried"
  BY <1>2 DEF Progress
<1> QED
  BY <1>3 DEF Cur

LEMMA PlanFactsKept == PlanFacts /\ UNCHANGED plan => PlanFacts'
BY DEF PlanFacts, plan

LEMMA StayResults ==
  ASSUME Typed, WriteInv, pc \in Sending, pc' \in Sending, UNCHANGED <<plan, at, result>>,
         OthersSame
  PROVE  Results'
<1>1. pc \notin {"plan", "done", "end"} /\ pc' \notin {"plan", "done", "end"} \cup Ahead
  BY DEF Sending, Ahead
<1>2. PlanFacts' /\ Batch' = Batch /\ Cur' = Cur
  BY PlanFactsKept DEF WriteInv, plan, Batch, Cur
<1>3. result[Cur] = "untried"
  BY CurUntried DEF WriteInv
<1>4. ASSUME NEW m \in Batch, m # Cur
      PROVE  Same(m) /\ m \in Mode
  BY <1>4, BatchIsModes DEF OthersSame, Typed, TypeOK
<1>5. Progress'
  <2>1. ASSUME NEW k \in at + 1..Len(order)
        PROVE  AsRead(order[k])'
    <3>1. order[k] \in Mode \ {Cur} /\ AsRead(order[k])
      BY <1>1, LaterIsOther DEF WriteInv, Progress
    <3>2. Same(order[k])
      BY <3>1 DEF OthersSame
    <3>3. order'[k] = order[k]
      BY DEF plan
    <3> QED
      BY <3>1, <3>2, <3>3 DEF AsRead, Same, plan
  <2>2. \A k \in at..Len(order) : result'[order'[k]] = "untried"
    BY DEF WriteInv, Progress, plan
  <2>3. at' = at /\ order' = order
    BY DEF plan
  <2> QED
    BY <1>1, <2>1, <2>2, <2>3 DEF Progress
<1>6. RefusedAsRead'
  BY <1>2, <1>3, <1>4, AsReadKept DEF WriteInv, RefusedAsRead, Refused
<1>7. SuccessSoFar'
  BY <1>1, <1>2, <1>3, <1>4 DEF WriteInv, SuccessSoFar, Same, Sent, plan
<1> QED
  BY <1>2, <1>5, <1>6, <1>7 DEF Results

LEMMA FailResults ==
  ASSUME Typed, WriteInv, pc \in Sending \cup Ahead, pc' \in {"read_back", "save_macros"},
         NEW v \in Verdict, v # "success", v \in Refused => AsRead(Cur)',
         result' = FailedResult(v), UNCHANGED <<plan, at>>, OthersSame
  PROVE  Results'
<1>1. /\ pc \notin {"plan", "done", "end"}
      /\ pc' \notin {"plan", "done", "end"} \cup Ahead \cup Sending
  BY DEF Sending, Ahead
<1>2. PlanFacts' /\ Batch' = Batch /\ Cur \in Mode /\ Cur' = Cur
  BY <1>1, PlanFactsKept, CurType DEF WriteInv, plan, Batch, Cur
<1>3. Progress'
  BY <1>1 DEF Progress
<1>4. ASSUME NEW m \in Batch, m # Cur
      PROVE  Same(m) /\ m \in Mode
  BY <1>4, BatchIsModes DEF OthersSame, Typed, TypeOK
<1>5. ASSUME NEW m \in Later
      PROVE  m # Cur /\ m \in Mode /\ AsRead(m)
  <2>1. PICK k \in at + 1..Len(order) : m = order[k]
    BY DEF Later
  <2> QED
    BY <1>1, <2>1, LaterIsOther DEF WriteInv, Progress
<1>6. \A m \in Mode : result'[m] = IF m = Cur THEN v
                                   ELSE IF m \in Later THEN "not_written" ELSE result[m]
  BY DEF FailedResult
<1>7. RefusedAsRead'
  <2> SUFFICES ASSUME NEW m \in Batch, result'[m] \in Refused
               PROVE  AsRead(m)'
    BY <1>2 DEF RefusedAsRead
  <2>1. CASE m = Cur
    <3>1. v \in Refused
      BY <1>2, <1>6, <2>1
    <3> QED
      BY <1>2, <2>1, <3>1 DEF AsRead
  <2>2. CASE m # Cur
    <3>1. AsRead(m)
      BY <1>4, <1>5, <1>6, <2>2 DEF WriteInv, RefusedAsRead
    <3> QED
      BY <1>4, <2>2, <3>1, AsReadKept
  <2> QED
    BY <2>1, <2>2
<1>8. SuccessSoFar'
  <2> SUFFICES ASSUME NEW m \in Batch, result'[m] = "success"
               PROVE  /\ bank'[m] \in {"new", "alike"} /\ m \in applied'
                      /\ \A i \in 1..puts'[m] : Sent(m, i)'
    BY <1>1, <1>2 DEF SuccessSoFar
  <2>1. m # Cur /\ result[m] = "success"
    BY <1>2, <1>4, <1>6
  <2> QED
    BY <1>1, <1>4, <2>1 DEF WriteInv, SuccessSoFar, Same, Sent, plan
<1> QED
  BY <1>2, <1>3, <1>7, <1>8 DEF Results

LEMMA SucceedResults ==
  ASSUME Typed, WriteInv, pc \in Sending, Succeed, OthersSame,
         bank'[Cur] \in {"new", "alike"}, Cur \in applied', \A i \in 1..puts[Cur] : page'[Cur][i] = "new" \/ Silent
  PROVE  Results' /\ pc' \notin Sending
<1>1. pc \notin {"plan", "done", "end"}
  BY DEF Sending
<1>2. pc' \notin {"plan", "begin", "end", "done"} \cup Sending
  BY DEF Succeed, Start, Sending
<1>3. PlanFacts' /\ Batch' = Batch /\ Cur \in Mode /\ order' = order /\ plan' = plan
  BY <1>1, PlanFactsKept, CurType DEF WriteInv, plan, Batch, Succeed
<1>4. ASSUME NEW m \in Batch, m # Cur
      PROVE  Same(m) /\ m \in Mode
  BY <1>4, BatchIsModes DEF OthersSame, Typed, TypeOK
<1>5. result' = [result EXCEPT ![Cur] = "success"] /\ result \in [Mode -> Verdict]
  BY DEF Succeed, Typed, TypeOK, ReportOK
<1>6. Progress'
  <2>1. CASE at < Len(order)
    <3>1. at' = at + 1
      BY <2>1 DEF Succeed
    <3>2. ASSUME NEW k \in at + 1..Len(order)
          PROVE  result'[order[k]] = "untried" /\ AsRead(order[k])'
      <4>1. order[k] \in Mode \ {Cur} /\ AsRead(order[k]) /\ result[order[k]] = "untried"
        BY <1>1, LaterIsOther DEF WriteInv, Progress
      <4>2. Same(order[k])
        BY <4>1 DEF OthersSame
      <4>3. result'[order[k]] = "untried"
        BY <1>5, <4>1
      <4>4. order'[k] = order[k]
        BY <1>3
      <4> QED
        BY <1>3, <4>1, <4>2, <4>3, <4>4 DEF AsRead, Same, plan
    <3>3. \A k \in at'..Len(order') : result'[order'[k]] = "untried" /\ AsRead(order[k])'
      BY <1>3, <3>1, <3>2
    <3> QED
      BY <1>2, <1>3, <3>3 DEF Progress
  <2>2. CASE ~(at < Len(order))
    BY <1>2, <2>2 DEF Progress, Succeed, Ahead
  <2> QED
    BY <2>1, <2>2
<1>7. RefusedAsRead'
  BY <1>3, <1>4, <1>5, AsReadKept DEF WriteInv, RefusedAsRead, Refused
<1>8. SuccessSoFar'
  <2> SUFFICES ASSUME NEW m \in Batch, result'[m] = "success"
               PROVE  /\ bank'[m] \in {"new", "alike"} /\ m \in applied'
                      /\ \A i \in 1..puts'[m] : Sent(m, i)'
    BY <1>2, <1>3 DEF SuccessSoFar
  <2>1. CASE m = Cur
    BY <1>3, <2>1 DEF plan, Sent
  <2>2. CASE m # Cur
    <3>1. result[m] = "success"
      BY <1>3, <1>4, <1>5, <2>2
    <3> QED
      BY <1>1, <1>3, <1>4, <2>2, <3>1 DEF WriteInv, SuccessSoFar, Same, Sent, plan
  <2> QED
    BY <2>1, <2>2
<1> QED
  BY <1>2, <1>3, <1>6, <1>7, <1>8 DEF Results

-------------------------------------------------------------------------------
(***************************************************************************)
(* WriteInv is inductive.                                                  *)
(***************************************************************************)
LEMMA InitInv == Init => WriteInv
<1> SUFFICES ASSUME Init PROVE WriteInv
  OBVIOUS
<1>1. ReplugEndsWriting /\ FreshStart /\ SelectedWhileReached /\ CurrentSoFar
  BY DEF Init, ReplugEndsWriting, FreshStart, SelectedWhileReached, CurrentSoFar, Sending
<1>2. PlanFacts
  BY DEF Init, PlanFacts
<1>3. Batch = {}
  BY DEF Init, Batch
<1>4. Progress
  BY DEF Init, Progress, AsRead, Ahead, Sending
<1> QED
  BY <1>1, <1>2, <1>3, <1>4 DEF WriteInv, RefusedAsRead, SuccessSoFar

\* The step stays in the calls of the same bank.
LEMMA StayInv ==
  ASSUME Typed, WriteInv, pc \in Sending, pc' \in Sending, UNCHANGED <<plan, at, result>>,
         OthersSame, StillSelected, ReplugEndsWriting', CurrentSoFar'
  PROVE  WriteInv'
<1>1. Results'
  BY StayResults
<1>2. SelectedWhileReached' /\ FreshStart'
  BY DEF SelectedWhileReached, StillSelected, Cur, plan, FreshStart, Sending
<1> QED
  BY <1>1, <1>2 DEF WriteInv, Results

\* The step gives the bank its failure.
LEMMA FailInv ==
  ASSUME Typed, WriteInv, pc \in Sending \cup Ahead, pc' \in {"read_back", "save_macros"},
         NEW v \in Verdict, v # "success", v \in Refused => AsRead(Cur)',
         result' = FailedResult(v), UNCHANGED <<plan, at>>, OthersSame, ReplugEndsWriting'
  PROVE  WriteInv'
<1>1. Results'
  BY FailResults
<1>2. SelectedWhileReached' /\ CurrentSoFar' /\ FreshStart'
  BY DEF SelectedWhileReached, CurrentSoFar, Sending, FreshStart
<1> QED
  BY <1>1, <1>2 DEF WriteInv, Results

\* The step ends the bank well.
LEMMA SucceedInv ==
  ASSUME Typed, WriteInv, pc \in Sending, Succeed, OthersSame, ReplugEndsWriting',
         bank'[Cur] \in {"new", "alike"}, Cur \in applied',
         \A i \in 1..puts[Cur] : page'[Cur][i] = "new" \/ Silent
  PROVE  WriteInv'
<1>1. Results' /\ pc' \notin Sending
  BY SucceedResults
<1>2. SelectedWhileReached' /\ CurrentSoFar' /\ FreshStart'
  BY <1>1 DEF SelectedWhileReached, CurrentSoFar, Sending, FreshStart, Succeed, Start
<1> QED
  BY <1>1, <1>2 DEF WriteInv, Results

LEMMA BankDoneInv ==
  ASSUME Typed, WriteInv, pc \in Sending, BankDone, OthersSame, StillSelected,
         ReplugEndsWriting', bank'[Cur] \in {"new", "alike"}, Cur \in applied'
  PROVE  WriteInv'
<1>1. CASE puts[Cur] > 0
  <2>1. /\ pc' = "page" /\ pg' = 1 /\ UNCHANGED <<plan, at, result>>
        /\ puts' = puts /\ Cur' = Cur
    BY <1>1 DEF BankDone, report, plan, Cur
  <2>2. puts[Cur] \in Nat
    BY CurType DEF Typed, TypeOK, PlanOK, Sending
  <2>3. CurrentSoFar'
    BY <1>1, <2>1, <2>2 DEF CurrentSoFar
  <2>4. pc' \in Sending
    BY <2>1 DEF Sending
  <2> QED
    BY <2>1, <2>3, <2>4, StayInv
<1>2. CASE ~(puts[Cur] > 0)
  <2>1. puts[Cur] \in Nat
    BY CurType DEF Typed, TypeOK, PlanOK, Sending
  <2>2. 1..puts[Cur] = {}
    BY <1>2, <2>1
  <2> QED
    BY <1>2, <2>2, SucceedInv DEF BankDone
<1> QED
  BY <1>1, <1>2

LEMMA RollbackInv ==
  ASSUME Typed, WriteInv, pc \in Sending, NEW c, NEW t, Rollback(c, t), OthersSame,
         StillSelected, ReplugEndsWriting'
  PROVE  WriteInv'
<1>1. CASE Cur \in active \/ c = "pages"
  <2>1. pc' = "rb_write" /\ UNCHANGED <<plan, at, result>>
    BY <1>1 DEF Rollback, report
  <2>2. CurrentSoFar' /\ pc' \in Sending
    BY <2>1 DEF CurrentSoFar, Sending
  <2> QED
    BY <2>1, <2>2, StayInv
<1>2. CASE ~(Cur \in active \/ c = "pages")
  BY <1>2, FailInv DEF Rollback, Fail, work, Verdict, Failure, Broken, Refused
<1> QED
  BY <1>1, <1>2

LEMMA GoInv ==
  ASSUME Typed, WriteInv, pc \in Sending, NEW st \in Sending, Go(st), OthersSame,
         StillSelected, ReplugEndsWriting', CurrentSoFar'
  PROVE  WriteInv'
BY StayInv DEF Go, work, report

LEMMA FailVInv ==
  ASSUME Typed, WriteInv, pc \in Sending, NEW v \in Verdict \ (Refused \cup {"success"}),
         Fail(v), OthersSame, ReplugEndsWriting'
  PROVE  WriteInv'
BY FailInv DEF Fail, work

\* The steps before the first call of a bank.
LEMMA PlanInv ==
  ASSUME Typed, Typed', WriteInv, Plan
  PROVE  WriteInv'
<1>1. pc = "plan" /\ pc' = "begin" /\ UNCHANGED <<work, report, flash, wire>>
  BY DEF Plan
<1>2. ReplugEndsWriting' /\ SelectedWhileReached' /\ CurrentSoFar' /\ FreshStart'
  BY <1>1 DEF WriteInv, ReplugEndsWriting, SelectedWhileReached, CurrentSoFar, FreshStart,
              Sending, wire
<1>3. PlanFacts'
  <2>1. PICK s \in Orders : order' = s
    BY DEF Plan
  <2>2. order' \in Seq(Mode)
    BY DEF Typed, TypeOK, PlanOK
  <2>3. \A i, j \in 1..Len(order') : order'[i] = order'[j] => i = j
    BY <2>1, <2>2 DEF Orders
  <2>4. \A m \in Mode : puts'[m] > 0 => m \in edited' /\ ~ReadsBack
    BY DEF Plan
  <2> QED
    BY <2>3, <2>4 DEF PlanFacts
<1>4. \A m \in Mode : result'[m] = "untried" /\ AsRead(m)'
  <2>1. \A m \in Mode : /\ result[m] = "untried" /\ AsRead(m)
                        /\ \A i \in PageNo : page[m][i] = "old"
    BY <1>1 DEF WriteInv, Progress
  <2>2. \A m \in Mode : olds'[m] \subseteq PageNo
    BY DEF Typed, TypeOK, PlanOK
  <2> QED
    BY <1>1, <2>1, <2>2 DEF AsRead, flash, report
<1>5. \A k \in at'..Len(order') : order'[k] \in Mode
  BY <1>1 DEF Typed, TypeOK, PlanOK, AtIsIndex
<1>6. \A m \in Batch' : m \in Mode
  BY DEF Batch, Typed, TypeOK, PlanOK
<1>7. Progress'
  BY <1>1, <1>4, <1>5 DEF Progress, Sending, AsRead
<1>8. RefusedAsRead' /\ SuccessSoFar'
  BY <1>4, <1>6 DEF RefusedAsRead, SuccessSoFar, Refused
<1> QED
  BY <1>2, <1>3, <1>7, <1>8 DEF WriteInv

LEMMA PlanRefusedInv ==
  ASSUME Typed, WriteInv, PlanRefused
  PROVE  WriteInv'
<1>1. pc = "plan" /\ pc' = "done" /\ UNCHANGED <<plan, work, flash, wire>>
  BY DEF PlanRefused
<1>2. ReplugEndsWriting' /\ FreshStart' /\ SelectedWhileReached' /\ CurrentSoFar' /\ Progress'
  BY <1>1 DEF WriteInv, ReplugEndsWriting, FreshStart, SelectedWhileReached, CurrentSoFar, Progress,
              Sending, Ahead, wire
<1>3. \A m \in Mode : AsRead(m)' /\ result'[m] = "refused"
  BY <1>1 DEF WriteInv, Progress, AsRead, flash, plan, PlanRefused
<1>4. \A m \in Batch' : m \in Mode
  BY <1>1 DEF Batch, Typed, TypeOK, PlanOK, plan
<1>5. RefusedAsRead' /\ SuccessSoFar'
  BY <1>3, <1>4 DEF RefusedAsRead, SuccessSoFar
<1> QED
  BY <1>1, <1>2, <1>5, PlanFactsKept DEF WriteInv

\* Nothing of the pad's banks changed.
LEMMA FlashKept ==
  ASSUME UNCHANGED flash, UNCHANGED plan
  PROVE  /\ \A m : Same(m)
         /\ \A m : AsRead(m)' <=> AsRead(m)
         /\ \A m, i : Sent(m, i)' <=> Sent(m, i)
BY DEF Same, AsRead, Sent, flash, plan

LEMMA BeginInv ==
  ASSUME Typed, WriteInv, begin_write
  PROVE  WriteInv'
<1>1. /\ pc = "begin" /\ pc' \in Ahead /\ pc' \notin Sending
      /\ pc' \notin {"plan", "begin", "end", "done"}
      /\ UNCHANGED <<plan, at, result, flash>> /\ session' = "held"
  BY DEF begin_write, Go, Start, Ahead, Sending, work, report
<1>2. ReplugEndsWriting' /\ SelectedWhileReached' /\ CurrentSoFar' /\ FreshStart'
  BY <1>1 DEF ReplugEndsWriting, SelectedWhileReached, CurrentSoFar, Sending, FreshStart, Ahead
<1>3. order' = order /\ Batch' = Batch /\ \A m : AsRead(m)' <=> AsRead(m)
  BY <1>1, FlashKept DEF plan, Batch
<1>4. Progress'
  BY <1>1, <1>3 DEF WriteInv, Progress, Ahead, AsRead
<1>5. RefusedAsRead'
  BY <1>1, <1>3 DEF WriteInv, RefusedAsRead
<1>6. SuccessSoFar'
  BY <1>1, <1>3, FlashKept DEF WriteInv, SuccessSoFar, flash, plan
<1> QED
  BY <1>1, <1>2, <1>4, <1>5, <1>6, PlanFactsKept DEF WriteInv

LEMMA BeginFailsInv ==
  ASSUME Typed, WriteInv, begin_write_fails
  PROVE  WriteInv'
<1>1. /\ pc = "begin" /\ pc' = "done" /\ result' = RefuseAll
      /\ UNCHANGED <<plan, flash, session>>
  BY DEF begin_write_fails
<1>2. session' = "none"
  BY <1>1 DEF WriteInv, FreshStart
<1>3. order' = order /\ Batch' = Batch /\ \A m : AsRead(m)' <=> AsRead(m)
  BY <1>1, FlashKept DEF plan, Batch
<1>4. \A m \in Batch : m \in Mode /\ AsRead(m)
  <2>1. at = 1
    BY <1>1 DEF Typed, AtIsIndex
  <2> QED
    BY <1>1, <2>1 DEF WriteInv, Progress, Ahead, Batch, Typed, TypeOK, PlanOK
<1>5. \A m \in Batch : result'[m] = "refused"
  BY <1>1, <1>4 DEF RefuseAll
<1>6. RefusedAsRead' /\ SuccessSoFar'
  BY <1>3, <1>4, <1>5 DEF RefusedAsRead, SuccessSoFar
<1>7. SelectedWhileReached' /\ CurrentSoFar' /\ Progress'
  BY <1>1 DEF SelectedWhileReached, CurrentSoFar, Progress, Sending, Ahead
<1>8. ReplugEndsWriting' /\ FreshStart'
  BY <1>1, <1>2 DEF ReplugEndsWriting, FreshStart
<1> QED
  BY <1>1, <1>6, <1>7, <1>8, PlanFactsKept DEF WriteInv

\* A call that answers, fails or leaves the session alone keeps a replug's effect.
LEMMA ReplugKept ==
  ASSUME ReplugEndsWriting, Fails \/ Answers \/ UNCHANGED wire
  PROVE  ReplugEndsWriting'
BY DEF ReplugEndsWriting, Fails, Answers, wire

LEMMA SaveFirstInv ==
  ASSUME Typed, WriteInv, SaveFirst
  PROVE  WriteInv'
<1>1. pc = "save_first" /\ pc \in Ahead /\ UNCHANGED <<flash, wire, plan, at>>
  BY DEF SaveFirst, Ahead, Go, Fail, work
<1>2. ReplugEndsWriting'
  BY <1>1, ReplugKept DEF WriteInv
<1>3. \A m : Same(m) /\ (AsRead(m)' <=> AsRead(m))
  BY <1>1, FlashKept
<1>4. at \in at..Len(order) /\ Cur' = Cur
  BY <1>1, CurType DEF Typed, TypeOK, PlanOK, Cur, plan
<1>5. AsRead(Cur)
  BY <1>1, <1>4 DEF WriteInv, Progress, Cur
<1>6. CASE Go("select")
  <2>1. pc' = "select" /\ UNCHANGED <<plan, at, result, flash, wire>>
    BY <1>1, <1>6 DEF Go, report
  <2>2. FreshStart' /\ SelectedWhileReached' /\ CurrentSoFar'
    BY <2>1 DEF FreshStart, SelectedWhileReached, CurrentSoFar, Sending
  <2>3. order' = order /\ Batch' = Batch
    BY <2>1 DEF plan, Batch
  <2>4. Progress'
    <3>1. /\ \A k \in at..Len(order) : result[order[k]] = "untried"
          /\ \A k \in at..Len(order) : AsRead(order[k])
      BY <1>1 DEF WriteInv, Progress
    <3>2. at' = at /\ order' = order /\ result' = result
      BY <1>1, <2>1, <2>3
    <3>3. \A k \in at'..Len(order') : result'[order'[k]] = "untried"
      BY <3>1, <3>2
    <3>4. (\A k \in at..Len(order) : AsRead(order[k]))'
      BY <3>1, <3>2, <1>3
    <3>5. pc' # "plan" /\ pc' \notin Sending
      BY <2>1 DEF Sending
    <3> QED
      BY <3>3, <3>4, <3>5 DEF Progress
  <2>5. RefusedAsRead'
    BY <1>3, <2>1, <2>3 DEF WriteInv, RefusedAsRead
  <2>6. SuccessSoFar'
    BY <1>1, <2>1, <2>3, FlashKept DEF WriteInv, SuccessSoFar, flash, plan
  <2> QED
    BY <1>2, <2>1, <2>2, <2>4, <2>5, <2>6, PlanFactsKept DEF WriteInv
<1>7. CASE Fail("unsaved_first")
  <2>1. AsRead(Cur)'
    BY <1>3, <1>4, <1>5 DEF AsRead
  <2> QED
    BY <1>1, <1>2, <1>3, <1>7, <2>1, FailInv DEF Fail, OthersSame, Verdict, Failure, Refused
<1> QED
  BY <1>6, <1>7 DEF SaveFirst

LEMMA SelectInv ==
  ASSUME Typed, WriteInv, Select
  PROVE  WriteInv'
<1>1. pc = "select" /\ pc \in Ahead /\ UNCHANGED <<flash, plan, at>>
  BY DEF Select, Ahead, Go, Fail, work
<1>2. ReplugEndsWriting'
  BY ReplugKept DEF WriteInv, Select
<1>3. \A m : Same(m) /\ (AsRead(m)' <=> AsRead(m))
  BY <1>1, FlashKept
<1>4. CASE selected' = Cur /\ Go("write")
  <2>1. pc' = "write" /\ UNCHANGED <<plan, at, result, flash>>
    BY <1>1, <1>4 DEF Go, report
  <2>2. order' = order /\ Batch' = Batch /\ Cur' = Cur
    BY <2>1 DEF plan, Batch, Cur
  <2>3. FreshStart' /\ SelectedWhileReached' /\ CurrentSoFar'
    BY <1>4, <2>1, <2>2 DEF FreshStart, SelectedWhileReached, CurrentSoFar
  <2>4. \A k \in at..Len(order) : result[order[k]] = "untried" /\ AsRead(order[k])
    BY <1>1 DEF WriteInv, Progress
  <2>5. \A k \in at + 1..Len(order) : k \in at..Len(order)
    BY <1>1, CurType DEF Typed, TypeOK, PlanOK
  <2>6. Progress'
    <3>1. pc' \notin Ahead /\ pc' # "plan"
      BY <2>1 DEF Ahead
    <3>2. ASSUME NEW k \in at + 1..Len(order)
          PROVE  AsRead(order[k])'
      BY <1>3, <2>2, <2>4, <2>5 DEF AsRead
    <3>3. at' = at /\ \A k \in at..Len(order) : result'[order'[k]] = "untried"
      BY <2>1, <2>2, <2>4
    <3> QED
      BY <2>2, <3>1, <3>2, <3>3 DEF Progress
  <2>7. RefusedAsRead'
    BY <1>3, <2>1, <2>2 DEF WriteInv, RefusedAsRead
  <2>8. SuccessSoFar'
    BY <1>1, <2>1, <2>2, FlashKept DEF WriteInv, SuccessSoFar, flash, plan
  <2> QED
    BY <1>2, <2>1, <2>3, <2>6, <2>7, <2>8, PlanFactsKept DEF WriteInv
<1>5. CASE Fail("select_failed")
  BY <1>1, <1>2, <1>3, <1>5, FailInv DEF Fail, OthersSame, Verdict, Failure, Broken, Refused
<1> QED
  BY <1>4, <1>5 DEF Select

-------------------------------------------------------------------------------
(***************************************************************************)
(* The calls of a bank.                                                    *)
(***************************************************************************)
LEMMA CallFacts ==
  ASSUME Typed, WriteInv, pc \in Sending
  PROVE  /\ ReplugEndsWriting /\ SelectedWhileReached /\ Cur \in Mode
         /\ Cur \in DOMAIN bank /\ Cur \in DOMAIN page /\ puts[Cur] \in 0..MaxPages
BY CurType DEF WriteInv, Sending, Typed, TypeOK, PlanOK, FlashOK

LEMMA WriteStepInv ==
  ASSUME Typed, WriteInv, Addressed, Write
  PROVE  WriteInv'
<1>1. pc = "write" /\ pc \in Sending
  BY DEF Write, Sending
<1>2. OthersSame /\ StillSelected /\ ReplugEndsWriting'
  BY <1>1, CallFacts, ProfileConfined DEF Write
<1>3. CASE write_full_profile(Cur, "new", {}) /\ Go("apply")
  <2>1. pc' = "apply" /\ Cur' = Cur
    BY <1>3 DEF Go, Cur, plan, work
  <2>2. ReadsBack \/ bank'[Cur] \in {"new", "alike"}
    <3>1. CASE ReadsBack
      BY <3>1
    <3>2. CASE ~ReadsBack
      <4>1. Land(Cur, "new", {}) /\ Reach
        BY <1>3, <3>2 DEF write_full_profile, Answers
      <4>2. selected = Cur
        BY <1>1, <4>1 DEF WriteInv, SelectedWhileReached
      <4> QED
        BY <1>1, <4>1, <4>2, CallFacts DEF Land
    <3> QED
      BY <3>1, <3>2
  <2>3. CurrentSoFar' /\ "apply" \in Sending
    BY <2>1, <2>2 DEF CurrentSoFar, Sending
  <2> QED
    BY <1>1, <1>2, <1>3, <2>3, GoInv
<1>4. CASE write_full_profile_fails(Cur, "new", {}) /\ Rollback("write", {})
  BY <1>1, <1>2, <1>4, RollbackInv
<1> QED
  BY <1>3, <1>4 DEF Write

LEMMA ApplyInv ==
  ASSUME Typed, WriteInv, Addressed, Apply
  PROVE  WriteInv'
<1>1. pc = "apply" /\ pc \in Sending
  BY DEF Apply, Sending
<1>2. OthersSame /\ StillSelected /\ ReplugEndsWriting'
  BY <1>1, CallFacts, ApplyConfined DEF Apply
<1>3. CASE send_apply /\ (IF ReadsBack THEN Go("check") ELSE BankDone)
  <2>1. bank' = bank /\ selected = Cur /\ Cur \in applied'
    BY <1>1, <1>3 DEF send_apply, Answers, WriteInv, SelectedWhileReached
  <2>2. CASE ReadsBack
    <3>1. pc' = "check" /\ Cur' = Cur /\ Go("check")
      BY <1>3, <2>2 DEF Go, Cur, plan, work
    <3>2. CurrentSoFar' /\ "check" \in Sending
      BY <2>1, <2>2, <3>1 DEF CurrentSoFar, Sending
    <3> QED
      BY <1>1, <1>2, <3>1, <3>2, GoInv
  <2>3. CASE ~ReadsBack
    <3>1. bank'[Cur] \in {"new", "alike"}
      BY <1>1, <2>1, <2>3 DEF WriteInv, CurrentSoFar
    <3> QED
      BY <1>1, <1>2, <1>3, <2>1, <2>3, <3>1, BankDoneInv
  <2> QED
    BY <2>2, <2>3
<1>4. CASE send_apply_fails /\ Fail("apply_failed")
  BY <1>1, <1>2, <1>4, FailVInv DEF Verdict, Failure, Broken, Refused
<1> QED
  BY <1>3, <1>4 DEF Apply

LEMMA CheckInv ==
  ASSUME Typed, Typed', WriteInv, Addressed, Check
  PROVE  WriteInv'
<1>1. pc = "check" /\ pc \in Sending
  BY DEF Check, Sending
<1>2. Cur \in applied /\ ReadsBack /\ Mode = {Slide}
  BY <1>1 DEF WriteInv, CurrentSoFar, Addressed
<1>3. UNCHANGED flash
  BY DEF Check, read_all_profiles, read_all_profiles_fails
<1>4. OthersSame
  BY <1>3 DEF OthersSame, Same, flash
<1>5. StillSelected
  <2>1. selected' = Slide
    BY <1>2 DEF Typed, TypeOK, WireOK
  <2>2. Cur = Slide
    BY <1>1, <1>2, OneBank
  <2> QED
    BY <2>1, <2>2 DEF StillSelected
<1>6. ReplugEndsWriting'
  BY DEF Check, read_all_profiles, read_all_profiles_fails, WriteInv, ReplugEndsWriting, Fails
<1>7. CASE read_all_profiles /\ (IF AsSent(Cur) THEN BankDone ELSE Rollback("readback", {}))
  <2>1. CASE AsSent(Cur)
    <3>1. bank'[Cur] \in {"new", "alike"} /\ Cur \in applied'
      BY <1>2, <1>3, <2>1 DEF flash
    <3> QED
      BY <1>1, <1>4, <1>5, <1>6, <1>7, <2>1, <3>1, BankDoneInv
  <2>2. CASE ~AsSent(Cur)
    BY <1>1, <1>4, <1>5, <1>6, <1>7, <2>2, RollbackInv
  <2> QED
    BY <2>1, <2>2
<1>8. CASE read_all_profiles_fails /\ Fail("readback_failed")
  BY <1>1, <1>4, <1>6, <1>8, FailVInv DEF Verdict, Failure, Broken, Refused
<1> QED
  BY <1>7, <1>8 DEF Check

LEMMA WritePageInv ==
  ASSUME Typed, WriteInv, Addressed, WritePage
  PROVE  WriteInv'
<1>1. pc = "page" /\ pc \in Sending
  BY DEF WritePage, Sending
<1>2. OthersSame /\ StillSelected /\ ReplugEndsWriting'
  BY <1>1, CallFacts, StreamConfined DEF WritePage
<1>3. /\ AsSent(Cur) /\ pg \in 1..puts[Cur]
      /\ \A i \in 1..pg - 1 : Sent(Cur, i)
  BY <1>1 DEF WriteInv, CurrentSoFar
<1>4. CASE /\ write_macro_stream(Cur, pg, "new")
           /\ pg' = pg + 1
           /\ pc' = IF pg < puts[Cur] THEN "page" ELSE "last_apply"
           /\ UNCHANGED <<plan, at, cause, todo, lost, report>>
  <2>1. UNCHANGED <<plan, at, result>> /\ Cur' = Cur /\ pc' \in Sending
        /\ puts' = puts /\ bank' = bank
    BY <1>4 DEF Cur, plan, report, Sending, write_macro_stream
  <2>2. /\ puts[Cur] \in 0..MaxPages /\ Cur \in Mode /\ pg \in PageNo
        /\ page \in [Mode -> [PageNo -> {"old", "new", "broken"}]]
    BY <1>1, <1>3, CallFacts DEF PageNo, Typed, TypeOK, FlashOK
  <2>3. \A i \in 1..pg : page'[Cur][i] = "new" \/ Silent
    <3>1. SetPage(Cur, pg, "new") \/ Silent
      BY <1>4 DEF write_macro_stream
    <3>2. CASE SetPage(Cur, pg, "new")
      <4>1. page'[Cur] = [page[Cur] EXCEPT ![pg] = "new"]
        BY <2>2, <3>2 DEF SetPage
      <4>2. \A i \in 1..pg : i \in PageNo /\ (i = pg \/ i \in 1..pg - 1)
        BY <2>2 DEF PageNo
      <4> QED
        BY <1>3, <2>2, <4>1, <4>2 DEF Sent
    <3> QED
      BY <3>1, <3>2
  <2>4. CASE pg < puts[Cur]
    <3>1. pc' = "page" /\ pg' \in 1..puts[Cur] /\ pg' - 1 = pg
      BY <1>4, <2>2, <2>4 DEF PageNo
    <3>2. CurrentSoFar'
      BY <1>3, <2>1, <2>3, <3>1 DEF CurrentSoFar, Sent
    <3> QED
      BY <1>1, <1>2, <2>1, <3>2, StayInv
  <2>5. CASE ~(pg < puts[Cur])
    <3>1. pc' = "last_apply" /\ pg = puts[Cur]
      BY <1>3, <1>4, <2>2, <2>5 DEF PageNo
    <3>2. CurrentSoFar'
      BY <1>3, <2>1, <2>3, <3>1 DEF CurrentSoFar, Sent
    <3> QED
      BY <1>1, <1>2, <2>1, <3>2, StayInv
  <2> QED
    BY <2>4, <2>5
<1>5. CASE write_macro_stream_fails(Cur, pg, "new") /\ Rollback("pages", Touched)
  BY <1>1, <1>2, <1>5, RollbackInv
<1> QED
  BY <1>4, <1>5 DEF WritePage

LEMMA LastApplyInv ==
  ASSUME Typed, WriteInv, Addressed, LastApply
  PROVE  WriteInv'
<1>1. pc = "last_apply" /\ pc \in Sending
  BY DEF LastApply, Sending
<1>2. OthersSame /\ StillSelected /\ ReplugEndsWriting'
  BY <1>1, CallFacts, ApplyConfined DEF LastApply
<1>3. AsSent(Cur) /\ \A i \in 1..puts[Cur] : Sent(Cur, i)
  BY <1>1 DEF WriteInv, CurrentSoFar
<1>4. CASE send_apply /\ Succeed
  <2>1. bank' = bank /\ page' = page /\ Cur \in applied'
    BY <1>1, <1>4 DEF send_apply, Answers, WriteInv, SelectedWhileReached
  <2> QED
    BY <1>1, <1>2, <1>3, <1>4, <2>1, SucceedInv DEF Sent
<1>5. CASE send_apply_fails /\ Fail("apply_failed")
  BY <1>1, <1>2, <1>5, FailVInv DEF Verdict, Failure, Broken, Refused
<1> QED
  BY <1>4, <1>5 DEF LastApply

\* CurrentSoFar says nothing of the stages of a rollback.
LEMMA RollbackStage ==
  pc' \in {"rb_write", "rb_apply", "rb_save", "restore", "restore_apply", "empty", "empty_apply"}
    => CurrentSoFar' /\ pc' \in Sending
BY DEF CurrentSoFar, Sending

LEMMA RollbackWriteInv ==
  ASSUME Typed, WriteInv, Addressed, RollbackWrite
  PROVE  WriteInv'
<1>1. pc \in Sending
  BY DEF RollbackWrite, Sending
<1>2. OthersSame /\ StillSelected /\ ReplugEndsWriting'
  BY <1>1, CallFacts, ProfileConfined DEF RollbackWrite
<1>3. pc' \in {"rb_apply", "rb_save"} /\ UNCHANGED <<plan, at, result>>
  BY DEF RollbackWrite, Go, work, report
<1> QED
  BY <1>1, <1>2, <1>3, RollbackStage, StayInv

LEMMA RollbackApplyInv ==
  ASSUME Typed, WriteInv, Addressed, RollbackApply
  PROVE  WriteInv'
<1>1. pc \in Sending
  BY DEF RollbackApply, Sending
<1>2. OthersSame /\ StillSelected /\ ReplugEndsWriting'
  BY <1>1, CallFacts, ApplyConfined DEF RollbackApply
<1>3. CASE Fail("rolled_back")
  BY <1>1, <1>2, <1>3, FailVInv DEF Verdict, Failure, RolledBack, Refused
<1>4. CASE Go("restore") \/ Go("rb_save")
  <2>1. pc' \in {"restore", "rb_save"} /\ UNCHANGED <<plan, at, result>>
    BY <1>4 DEF Go, work, report
  <2> QED
    BY <1>1, <1>2, <2>1, RollbackStage, StayInv
<1> QED
  BY <1>3, <1>4 DEF RollbackApply

LEMMA RollbackSaveInv ==
  ASSUME Typed, WriteInv, RollbackSave
  PROVE  WriteInv'
<1>1. pc \in Sending
  BY DEF RollbackSave, Sending
<1>2. OthersSame /\ ReplugEndsWriting'
  BY ReplugKept, FlashKept DEF RollbackSave, OthersSame, WriteInv
<1>3. /\ result' = FailedResult("rollback_failed") /\ UNCHANGED <<plan, at>>
      /\ pc' \in {"read_back", "save_macros"}
  BY DEF RollbackSave
<1> QED
  BY <1>1, <1>2, <1>3, FailInv DEF Verdict, Failure, RollbackFailed, Refused

LEMMA RestoreInv ==
  ASSUME Typed, WriteInv, Addressed, Restore
  PROVE  WriteInv'
<1>1. pc \in Sending
  BY DEF Restore, Sending
<1>2. OthersSame /\ StillSelected /\ ReplugEndsWriting'
  BY <1>1, CallFacts, StreamConfined DEF Restore
<1>3. pc' \in {"restore", "restore_apply", "empty"} /\ UNCHANGED <<plan, at, result>>
  BY DEF Restore, Restored, report
<1> QED
  BY <1>1, <1>2, <1>3, RollbackStage, StayInv

LEMMA RestoreApplyInv ==
  ASSUME Typed, WriteInv, Addressed, RestoreApply
  PROVE  WriteInv'
<1>1. pc \in Sending
  BY DEF RestoreApply, Sending
<1>2. OthersSame /\ StillSelected /\ ReplugEndsWriting'
  BY <1>1, CallFacts, ApplyConfined DEF RestoreApply
<1>3. CASE Fail("rolled_back")
  BY <1>1, <1>2, <1>3, FailVInv DEF Verdict, Failure, RolledBack, Refused
<1>4. CASE pc' = "empty" /\ UNCHANGED <<plan, at, report>>
  BY <1>1, <1>2, <1>4, RollbackStage, StayInv DEF report
<1> QED
  BY <1>3, <1>4 DEF RestoreApply

LEMMA EmptyInv ==
  ASSUME Typed, WriteInv, Addressed, Empty
  PROVE  WriteInv'
<1>1. pc \in Sending
  BY DEF Empty, Sending
<1>2. OthersSame /\ StillSelected /\ ReplugEndsWriting'
  BY <1>1, CallFacts, ProfileConfined DEF Empty
<1>3. CASE Go("empty_apply")
  BY <1>1, <1>2, <1>3, RollbackStage, StayInv DEF Go, work, report
<1>4. CASE /\ result' = FailedResult("not_emptied") /\ pc' = "save_macros"
           /\ UNCHANGED <<plan, work>>
  BY <1>1, <1>2, <1>4, FailInv DEF Verdict, Failure, RollbackFailed, Refused, work
<1> QED
  BY <1>3, <1>4 DEF Empty

LEMMA EmptyApplyInv ==
  ASSUME Typed, WriteInv, Addressed, EmptyApply
  PROVE  WriteInv'
<1>1. pc \in Sending
  BY DEF EmptyApply, Sending
<1>2. OthersSame /\ ReplugEndsWriting'
  BY <1>1, CallFacts, ApplyConfined DEF EmptyApply
<1>3. \/ result' = FailedResult("emptied")
      \/ result' = FailedResult("not_emptied")
  BY DEF EmptyApply
<1>4. pc' = "save_macros" /\ UNCHANGED <<plan, at>>
  BY DEF EmptyApply, work
<1> QED
  BY <1>1, <1>2, <1>3, <1>4, FailInv DEF Verdict, Failure, RollbackFailed, Refused

-------------------------------------------------------------------------------
(***************************************************************************)
(* After the last bank.                                                    *)
(***************************************************************************)
\* A step that leaves the pad's banks and the results alone, outside the bank stages.
LEMMA QuietInv ==
  ASSUME Typed, WriteInv, pc' \notin Ahead \cup Sending \cup {"plan"},
         pc \in {"end", "done"} <=> pc' \in {"end", "done"},
         UNCHANGED <<plan, result, flash>>, ReplugEndsWriting'
  PROVE  WriteInv'
<1>1. Batch' = Batch /\ \A m : AsRead(m)' <=> AsRead(m)
  BY FlashKept DEF Batch, plan
<1>2. SelectedWhileReached' /\ CurrentSoFar' /\ Progress' /\ FreshStart'
  BY DEF SelectedWhileReached, CurrentSoFar, Progress, FreshStart, Sending, Ahead
<1>3. RefusedAsRead'
  BY <1>1 DEF WriteInv, RefusedAsRead
<1>4. SuccessSoFar'
  BY <1>1, FlashKept DEF WriteInv, SuccessSoFar, flash, plan
<1> QED
  BY <1>2, <1>3, <1>4, PlanFactsKept DEF WriteInv

LEMMA SaveMacrosInv ==
  ASSUME Typed, WriteInv, SaveMacros
  PROVE  WriteInv'
<1>1. ReplugEndsWriting'
  BY ReplugKept DEF WriteInv, SaveMacros
<1> QED
  BY <1>1, QuietInv DEF SaveMacros, Ahead, Sending

LEMMA EndInv ==
  ASSUME Typed, WriteInv, end_write
  PROVE  WriteInv'
<1>1. ReplugEndsWriting'
  BY DEF end_write, ReplugEndsWriting
<1> QED
  BY <1>1, QuietInv DEF end_write, Ahead, Sending

LEMMA ReadBackInv ==
  ASSUME Typed, WriteInv, ReadBack
  PROVE  WriteInv'
<1>1. pc = "read_back" /\ pc' = "end" /\ UNCHANGED <<plan, flash>>
  BY DEF ReadBack, read_all_profiles, read_all_profiles_fails
<1>2. ReplugEndsWriting'
  BY ReplugKept DEF ReadBack, read_all_profiles, read_all_profiles_fails, WriteInv,
                    ReplugEndsWriting, Fails
<1>3. Batch' = Batch /\ \A m : AsRead(m)' <=> AsRead(m)
  BY <1>1, FlashKept DEF Batch, plan
<1>4. SelectedWhileReached' /\ CurrentSoFar' /\ Progress' /\ FreshStart'
  BY <1>1 DEF SelectedWhileReached, CurrentSoFar, Progress, FreshStart, Sending, Ahead
<1>5. \A m \in Batch : m \in Mode
  BY DEF Batch, Typed, TypeOK, PlanOK
<1>6. \A m \in Mode : \/ result'[m] = result[m]
                      \/ result'[m] \in {"readback_differs", "readback_failed"}
  BY DEF ReadBack
<1>7. RefusedAsRead'
  BY <1>3, <1>5, <1>6 DEF WriteInv, RefusedAsRead, Refused
<1>8. ASSUME NEW m \in Batch, result'[m] = "success"
      PROVE  result[m] = "success" /\ \A i \in 1..puts[m] : page[m][i] = "new"
  <2>1. result[m] = "success" /\ m \in Mode
    BY <1>5, <1>6, <1>8
  <2>2. CASE m \in Checked
    <3>1. \A i \in 1..puts[m] : page[m][i] = "new"
      BY <1>8, <2>1, <2>2 DEF ReadBack
    <3> QED
      BY <2>1, <3>1
  <2>3. CASE m \notin Checked
    <3>1. m \notin edited
      BY <2>1, <2>3 DEF Checked
    <3>2. puts[m] \in Nat /\ ~(puts[m] > 0)
      BY <2>1, <3>1 DEF WriteInv, PlanFacts, Typed, TypeOK, PlanOK
    <3>3. 1..puts[m] = {}
      BY <3>2
    <3> QED
      BY <2>1, <3>3
  <2> QED
    BY <2>2, <2>3
<1>9. SuccessSoFar'
  <2> SUFFICES ASSUME NEW m \in Batch, result'[m] = "success"
               PROVE  /\ bank'[m] \in {"new", "alike"} /\ m \in applied'
                      /\ \A i \in 1..puts'[m] : page'[m][i] = "new"
    BY <1>1, <1>3 DEF SuccessSoFar
  <2>1. result[m] = "success" /\ \A i \in 1..puts[m] : page[m][i] = "new"
    BY <1>8
  <2> QED
    BY <1>1, <2>1 DEF WriteInv, SuccessSoFar, flash, plan
<1> QED
  BY <1>1, <1>2, <1>4, <1>7, <1>9, PlanFactsKept DEF WriteInv

LEMMA ReplugInv ==
  ASSUME Typed, Typed', WriteInv, Addressed, Replug
  PROVE  WriteInv'
<1>1. /\ pc \notin {"plan", "done"} /\ replugs < MaxReplugs /\ MaxReplugs > 0
      /\ UNCHANGED <<pc, plan, work, result, flash>> /\ ~flipped' /\ selected' = Slide
      /\ session' = IF session = "held" THEN "stale" ELSE session
  BY DEF Replug, Typed, TypeOK, WireOK, report
<1>2. ReplugEndsWriting'
  BY <1>1 DEF ReplugEndsWriting
<1>3. FreshStart'
  BY <1>1 DEF FreshStart, WriteInv
<1>4. Cur' = Cur /\ Batch' = Batch /\ order' = order /\ at' = at
  BY <1>1 DEF Cur, Batch, plan, work
<1>5. SelectedWhileReached'
  <2>1. CASE Mode = {Slide}
    BY <1>1, <1>4, <2>1, OneBank DEF SelectedWhileReached
  <2>2. CASE Mode # {Slide}
    <3>1. NeedsFlip
      BY <1>1, <2>2 DEF Addressed
    <3>2. ~Reach'
      BY <1>1, <3>1 DEF Reach
    <3> QED
      BY <3>2 DEF SelectedWhileReached
  <2> QED
    BY <2>1, <2>2
<1>6. \A m : AsRead(m)' <=> AsRead(m)
  BY <1>1, FlashKept
<1>7. Progress'
  BY <1>1, <1>4, <1>6 DEF WriteInv, Progress, AsRead, flash, plan
<1>8. RefusedAsRead'
  BY <1>1, <1>4, <1>6 DEF WriteInv, RefusedAsRead
<1>9. SuccessSoFar'
  BY <1>1, <1>4, FlashKept DEF WriteInv, SuccessSoFar, flash, plan
<1>10. CurrentSoFar'
  BY <1>1, <1>4, FlashKept DEF WriteInv, CurrentSoFar, flash, plan, work, Sent
<1> QED
  BY <1>1, <1>2, <1>3, <1>5, <1>7, <1>8, <1>9, <1>10, PlanFactsKept DEF WriteInv

LEMMA NextInv == Typed /\ Typed' /\ Addressed /\ WriteInv /\ [Next]_vars => WriteInv'
<1> SUFFICES ASSUME Typed, Typed', Addressed, WriteInv, [Next]_vars PROVE WriteInv'
  OBVIOUS
<1>1. CASE UNCHANGED vars
  <2>1. /\ UNCHANGED <<pc, plan, work, result, flash, wire>>
        /\ Cur' = Cur /\ Batch' = Batch /\ Reach' = Reach /\ at' = at /\ order' = order
    BY <1>1 DEF vars, plan, work, report, wire, Cur, Batch, Reach
  <2>2. ReplugEndsWriting' /\ FreshStart' /\ SelectedWhileReached'
    BY <2>1 DEF WriteInv, ReplugEndsWriting, FreshStart, SelectedWhileReached, wire
  <2>3. Progress'
    <3>1. \A m : AsRead(m)' <=> AsRead(m)
      BY <2>1, FlashKept
    <3>2. page' = page
      BY <2>1 DEF flash
    <3>3. Progress
      BY DEF WriteInv
    <3>4. (pc = "plan" => \A m \in Mode : /\ result[m] = "untried" /\ AsRead(m)
                                         /\ \A i \in PageNo : page[m][i] = "old")'
      BY <2>1, <3>1, <3>2, <3>3 DEF Progress
    <3>5. (pc \in Ahead \cup Sending => \A k \in at..Len(order) : result[order[k]] = "untried")'
      BY <2>1, <3>3 DEF Progress
    <3>6. (pc \in Ahead => \A k \in at..Len(order) : AsRead(order[k]))'
      BY <2>1, <3>1, <3>3 DEF Progress
    <3>7. (pc \in Sending => \A k \in at + 1..Len(order) : AsRead(order[k]))'
      BY <2>1, <3>1, <3>3 DEF Progress
    <3> QED
      BY <3>4, <3>5, <3>6, <3>7 DEF Progress
  <2>4. RefusedAsRead'
    BY <2>1, FlashKept DEF WriteInv, RefusedAsRead
  <2>5. SuccessSoFar'
    BY <2>1, FlashKept DEF WriteInv, SuccessSoFar, flash, plan
  <2>6. CurrentSoFar'
    BY <2>1, FlashKept DEF WriteInv, CurrentSoFar, flash, plan, work, Sent
  <2> QED
    BY <2>1, <2>2, <2>3, <2>4, <2>5, <2>6, PlanFactsKept DEF WriteInv
<1>2. CASE Plan \/ PlanRefused \/ begin_write \/ begin_write_fails \/ SaveFirst \/ Select
  BY <1>2, PlanInv, PlanRefusedInv, BeginInv, BeginFailsInv, SaveFirstInv, SelectInv
<1>3. CASE Write \/ Apply \/ Check \/ WritePage \/ LastApply
  BY <1>3, WriteStepInv, ApplyInv, CheckInv, WritePageInv, LastApplyInv
<1>4. CASE RollbackWrite \/ RollbackApply \/ RollbackSave \/ Restore \/ RestoreApply
  BY <1>4, RollbackWriteInv, RollbackApplyInv, RollbackSaveInv, RestoreInv, RestoreApplyInv
<1>5. CASE Empty \/ EmptyApply \/ SaveMacros \/ ReadBack \/ end_write
  BY <1>5, EmptyInv, EmptyApplyInv, SaveMacrosInv, ReadBackInv, EndInv
<1>6. CASE Replug
  BY <1>6, ReplugInv
<1> QED
  BY <1>1, <1>2, <1>3, <1>4, <1>5, <1>6 DEF Next, Step, Finished

-------------------------------------------------------------------------------
(***************************************************************************)
(* The theorems.                                                           *)
(***************************************************************************)
LEMMA InvCorrect == Addressed => (Spec => [](Typed /\ WriteInv))
<1> SUFFICES ASSUME Addressed PROVE Spec => [](Typed /\ WriteInv)
  OBVIOUS
<1>1. Init => Typed /\ WriteInv
  BY InitTyped, InitInv
<1>2. Typed /\ WriteInv /\ [Next]_vars => (Typed /\ WriteInv)'
  BY NextTyped, NextInv
<1> QED
  BY <1>1, <1>2, PTL DEF Spec

\* A job that reports success has its whole bank and every step page on the pad and
\* applied, whatever failed on the way, even when the pad corrupts what it acknowledges.
THEOREM SuccessHolds == Addressed => (Spec => []SuccessIsWhole)
<1>1. Typed /\ WriteInv => SuccessIsWhole
  BY DEF WriteInv, SuccessSoFar, SuccessIsWhole, Whole, Done
<1> QED
  BY <1>1, InvCorrect, PTL

\* A bank whose result says that nothing was sent for it is as it was read.
THEOREM UnwrittenHolds == Addressed => (Spec => []UnwrittenIsUntouched)
<1>1. Typed /\ WriteInv => UnwrittenIsUntouched
  BY DEF WriteInv, RefusedAsRead, UnwrittenIsUntouched
<1> QED
  BY <1>1, InvCorrect, PTL

\* A step changes no bank, or it is a call of the bank that is being written.
LEMMA StepConfined ==
  ASSUME Typed, WriteInv, Addressed, [Next]_vars
  PROVE  UNCHANGED <<bank, gone, page>> \/ (pc \in Sending /\ OthersSame)
<1>1. CASE UNCHANGED vars \/ Plan \/ PlanRefused \/ begin_write \/ begin_write_fails \/ SaveFirst
  BY <1>1 DEF vars, flash, Plan, PlanRefused, begin_write, begin_write_fails, SaveFirst
<1>2. CASE Select \/ RollbackSave \/ SaveMacros \/ end_write \/ Replug
  BY <1>2 DEF flash, Select, RollbackSave, SaveMacros, end_write, Replug
<1>3. CASE Check \/ ReadBack
  BY <1>3 DEF flash, Check, ReadBack, read_all_profiles, read_all_profiles_fails
<1>4. CASE Write \/ RollbackWrite \/ Empty
  <2>1. pc \in Sending
    BY <1>4 DEF Write, RollbackWrite, Empty, Sending
  <2> QED
    BY <1>4, <2>1, CallFacts, ProfileConfined DEF Write, RollbackWrite, Empty
<1>5. CASE Apply \/ LastApply \/ RollbackApply \/ RestoreApply \/ EmptyApply
  <2>1. pc \in Sending
    BY <1>5 DEF Apply, LastApply, RollbackApply, RestoreApply, EmptyApply, Sending
  <2> QED
    BY <1>5, <2>1, CallFacts, ApplyConfined
       DEF Apply, LastApply, RollbackApply, RestoreApply, EmptyApply
<1>6. CASE WritePage \/ Restore
  <2>1. pc \in Sending
    BY <1>6 DEF WritePage, Restore, Sending
  <2> QED
    BY <1>6, <2>1, CallFacts, StreamConfined DEF WritePage, Restore
<1> QED
  BY <1>1, <1>2, <1>3, <1>4, <1>5, <1>6 DEF Next, Step, Finished

\* A call only changes the bank it is for.
THEOREM OnlyTheCurrentBankHolds == Addressed => (Spec => OnlyTheCurrentBank)
<1> SUFFICES ASSUME Addressed PROVE Spec => OnlyTheCurrentBank
  OBVIOUS
<1>1. Typed /\ WriteInv /\ [Next]_vars =>
        [\A m \in Mode : (bank'[m] # bank[m] \/ page'[m] # page[m]) => m = Cur]_vars
  <2> SUFFICES ASSUME Typed, WriteInv, [Next]_vars, NEW m \in Mode, m # Cur
               PROVE  bank'[m] = bank[m] /\ page'[m] = page[m]
    OBVIOUS
  <2> QED
    BY StepConfined DEF OthersSame, Same
<1>2. Spec => [](Typed /\ WriteInv)
  BY InvCorrect
<1> QED
  BY <1>1, <1>2, PTL DEF Spec, OnlyTheCurrentBank

\* No step after a bank's result, another bank's rollback included, writes it again.
THEOREM SettledStaysPutHolds == Addressed => (Spec => SettledStaysPut)
<1> SUFFICES ASSUME Addressed PROVE Spec => SettledStaysPut
  OBVIOUS
<1>1. Typed /\ WriteInv /\ [Next]_vars =>
        [\A m \in Mode : result[m] # "untried" =>
           bank'[m] = bank[m] /\ gone'[m] = gone[m] /\ page'[m] = page[m]]_vars
  <2> SUFFICES ASSUME Typed, WriteInv, [Next]_vars, NEW m \in Mode, result[m] # "untried"
               PROVE  bank'[m] = bank[m] /\ gone'[m] = gone[m] /\ page'[m] = page[m]
    OBVIOUS
  <2>1. pc \in Sending => result[Cur] = "untried"
    BY CurUntried DEF WriteInv
  <2> QED
    BY <2>1, StepConfined DEF OthersSame, Same
<1>2. Spec => [](Typed /\ WriteInv)
  BY InvCorrect
<1> QED
  BY <1>1, <1>2, PTL DEF Spec, SettledStaysPut

-------------------------------------------------------------------------------
(***************************************************************************)
(* The flip.  Only three steps end the run, and each answers for it.       *)
(***************************************************************************)
LEMMA WhoEnds ==
  ASSUME [Next]_vars, pc' = "done"
  PROVE  PlanRefused \/ begin_write_fails \/ end_write \/ UNCHANGED vars
<1>1. ~(Plan \/ begin_write \/ SaveFirst \/ Select \/ Write)
  BY DEF Plan, begin_write, SaveFirst, Select, Write, Go, Fail, Rollback, Start
<1>2. ~(Apply \/ Check \/ WritePage \/ LastApply)
  BY DEF Apply, Check, WritePage, LastApply, Go, Fail, Rollback, BankDone, Succeed, Start
<1>3. ~(RollbackWrite \/ RollbackApply \/ RollbackSave \/ Restore \/ RestoreApply)
  BY DEF RollbackWrite, RollbackApply, RollbackSave, Restore, Restored, RestoreApply, Go, Fail
<1>4. ~(Empty \/ EmptyApply \/ SaveMacros \/ ReadBack)
  BY DEF Empty, EmptyApply, SaveMacros, ReadBack, Go
<1>5. ~Replug
  BY DEF Replug
<1> QED
  BY <1>1, <1>2, <1>3, <1>4, <1>5 DEF Next, Step, Finished

LEMMA FlipInductive ==
  Typed /\ FlipIsUndoneOrReported /\ [Next]_vars => FlipIsUndoneOrReported'
<1> SUFFICES ASSUME Typed, FlipIsUndoneOrReported, [Next]_vars, pc' = "done", flipped'
             PROVE  advice' \/ \A m \in Batch' : result'[m] = "refused"
  BY DEF FlipIsUndoneOrReported, Done
<1>1. CASE PlanRefused
  <2>1. \A m \in Batch' : m \in Mode
    BY <1>1 DEF PlanRefused, Batch, plan, Typed, TypeOK, PlanOK
  <2> QED
    BY <1>1, <2>1 DEF PlanRefused
<1>2. CASE begin_write_fails
  <2>1. Batch' = Batch /\ \A m \in Batch : m \in Mode
    BY <1>2 DEF begin_write_fails, Batch, plan, Typed, TypeOK, PlanOK
  <2> QED
    BY <1>2, <2>1 DEF begin_write_fails, RefuseAll
<1>3. CASE end_write
  BY <1>3 DEF end_write
<1>4. CASE UNCHANGED vars
  BY <1>4 DEF FlipIsUndoneOrReported, Done, Batch, vars, plan, report, wire
<1> QED
  BY <1>1, <1>2, <1>3, <1>4, WhoEnds

\* A flipped pad goes home, or the results say to unplug it, or nothing was written.
THEOREM FlipHolds == Spec => []FlipIsUndoneOrReported
<1>1. Init => FlipIsUndoneOrReported
  BY DEF Init, FlipIsUndoneOrReported, Done
<1> QED
  BY <1>1, InitTyped, NextTyped, FlipInductive, PTL DEF Spec

-------------------------------------------------------------------------------
(***************************************************************************)
(* No macro is lost unseen: MacroInv is inductive for a pad that stores    *)
(* what it acknowledges, and for a model that reads its writes back.       *)
(***************************************************************************)
\* The macros of the banks other than the current one are left alone.
OthersMacros == \A m \in Mode \ {Cur} : gone'[m] = gone[m] /\ page'[m] = page[m]

LEMMA ProfileMacros ==
  ASSUME Typed, NEW img, NEW z, Cur \in Mode,
         write_full_profile(Cur, img, z) \/ write_full_profile_fails(Cur, img, z)
  PROVE  /\ OthersMacros /\ page' = page
         /\ gone'[Cur] = gone[Cur] \/ gone'[Cur] = z
<1>1. gone \in [Mode -> SUBSET PageNo]
  BY DEF Typed, TypeOK, FlashOK
<1>2. page' = page /\ (UNCHANGED gone \/ Land(Cur, img, z) \/ Land(Cur, "alike", z) \/ Tear)
  BY DEF write_full_profile, write_full_profile_fails
<1> QED
  BY <1>1, <1>2 DEF Land, Tear, OthersMacros

LEMMA StreamMacros ==
  ASSUME Typed, NEW i, NEW steps, Cur \in Mode,
         write_macro_stream(Cur, i, steps) \/ write_macro_stream_fails(Cur, i, steps)
  PROVE  /\ OthersMacros /\ gone' = gone
         /\ \A j \in PageNo : j # i => page'[Cur][j] = page[Cur][j]
<1>1. page \in [Mode -> [PageNo -> {"old", "new", "broken"}]]
  BY DEF Typed, TypeOK, FlashOK
<1>2. /\ gone' = gone
      /\ UNCHANGED page \/ SetPage(Cur, i, steps) \/ SetPage(Cur, i, "broken")
  BY DEF write_macro_stream, write_macro_stream_fails
<1> QED
  BY <1>1, <1>2 DEF SetPage, OthersMacros

LEMMA ApplyMacros ==
  ASSUME send_apply \/ send_apply_fails
  PROVE  gone' = gone /\ page' = page
BY DEF send_apply, send_apply_fails

LEMMA ReadMacros ==
  ASSUME read_all_profiles \/ read_all_profiles_fails
  PROVE  gone' = gone /\ page' = page
BY DEF read_all_profiles, read_all_profiles_fails, flash

LEMMA OldPages ==
  ASSUME Typed, NEW m \in Mode
  PROVE  olds[m] \subseteq PageNo
BY DEF Typed, TypeOK, PlanOK

LEMMA PlanKept ==
  ASSUME UNCHANGED plan, PlanFacts, OldFacts
  PROVE  PlanFacts' /\ OldFacts' /\ Batch' = Batch /\ order' = order /\ olds' = olds
BY PlanFactsKept DEF plan, OldFacts, Batch

\* An intact bank owes nobody an explanation, and a result that stays or stays
\* excused explains as much as before.
LEMMA IntactIsSecure == \A m : Intact(m) => Secure(m)
BY DEF Intact, Secure

\* What a step of the current bank keeps of the others.
LEMMA BankStep ==
  ASSUME Typed, MacroInv, pc \in Ahead \cup Sending, UNCHANGED <<plan, at>>, OthersMacros,
         UNCHANGED result \/ (\E v : result' = FailedResult(v)),
         files \subseteq files', unsaved \subseteq unsaved', pc' # "plan"
  PROVE  /\ PlanFacts' /\ OldFacts' /\ OthersKept' /\ Cur' = Cur
         /\ \A m \in Batch' : m # Cur => Secure(m)'
<1>1. pc \notin {"plan", "done"} /\ pc \in Busy
  BY DEF Ahead, Sending, Busy
<1>2. PlanFacts' /\ OldFacts' /\ Batch' = Batch /\ order' = order /\ olds' = olds /\ Cur' = Cur
  BY PlanKept DEF MacroInv, Cur
<1>3. \A k \in at + 1..Len(order) : order[k] \in Mode \ {Cur} /\ Intact(order[k])
  <2>1. \A k \in at + 1..Len(order) : Intact(order[k])
    BY <1>1 DEF MacroInv, OthersKept
  <2>2. PlanFacts
    BY DEF MacroInv
  <2> QED
    BY <1>1, <2>1, <2>2, LaterIsOther
<1>4. \A m \in Mode \ {Cur} : Intact(m) => Intact(m)'
  BY <1>2 DEF OthersMacros, Intact
<1>5. OthersKept'
  <2>1. \A k \in at + 1..Len(order) : Intact(order[k])'
    BY <1>2, <1>3, <1>4 DEF Intact
  <2> QED
    BY <1>2, <2>1 DEF OthersKept, Intact
<1>6. ASSUME NEW m \in Batch, m # Cur
      PROVE  Secure(m)'
  <2>1. m \in Mode \ {Cur} /\ Secure(m)
    BY <1>1, <1>6, BatchIsModes DEF MacroInv, Accounted, Typed, TypeOK
  <2>2. CASE m \in Later
    <3>1. Intact(m)'
      BY <1>3, <1>4, <2>1, <2>2 DEF Later
    <3> QED
      BY <3>1 DEF Intact, Secure
  <2>3. CASE m \notin Later
    <3>1. result'[m] = result[m]
      BY <2>1, <2>3 DEF FailedResult
    <3> QED
      BY <1>2, <2>1, <3>1 DEF OthersMacros, Secure
  <2> QED
    BY <2>2, <2>3
<1> QED
  BY <1>2, <1>5, <1>6

\* The step stays in the calls of the bank, or goes on to its last backups.
LEMMA StaysMacro ==
  ASSUME Typed, MacroInv, pc \in Ahead \cup Sending, pc' \in Busy, UNCHANGED <<plan, at>>,
         OthersMacros, UNCHANGED result \/ (\E v : result' = FailedResult(v)),
         files \subseteq files', unsaved \subseteq unsaved', CurrentKept'
  PROVE  MacroInv'
<1>1. pc' # "plan"
  BY DEF Busy, Ahead, Sending
<1> QED
  BY <1>1, BankStep DEF MacroInv, Accounted

\* The step ends the bank with a failure that needs no excuse, or is one.
LEMMA FailsMacro ==
  ASSUME Typed, MacroInv, pc \in Ahead \cup Sending, pc' = "read_back", UNCHANGED <<plan, at>>,
         OthersMacros, NEW v, result' = FailedResult(v),
         files \subseteq files', unsaved \subseteq unsaved', Intact(Cur)' \/ v \in Excused
  PROVE  MacroInv'
<1>1. pc \notin {"plan", "done"} /\ pc' \notin Busy /\ pc' # "plan" /\ pc' \notin Undoing
  BY DEF Busy, Ahead, Sending, Undoing
<1>2. /\ PlanFacts' /\ OldFacts' /\ OthersKept' /\ Cur' = Cur
      /\ \A m \in Batch' : m # Cur => Secure(m)'
  BY <1>1, BankStep
<1>3. result'[Cur] = v
  BY <1>1, CurType DEF FailedResult
<1>4. Secure(Cur)'
  <2>1. CASE Intact(Cur)'
    BY <2>1 DEF Intact, Secure
  <2>2. CASE v \in Excused
    BY <1>2, <1>3, <2>2 DEF Secure, Excused
  <2> QED
    BY <2>1, <2>2
<1>5. Accounted'
  BY <1>2, <1>4 DEF Accounted, Secure
<1>6. CurrentKept'
  BY <1>1 DEF CurrentKept
<1> QED
  BY <1>2, <1>5, <1>6 DEF MacroInv

\* The bank went out.
LEMMA SucceedMacro ==
  ASSUME Typed, MacroInv, pc \in Sending, Succeed, OthersMacros
  PROVE  MacroInv'
<1>1. pc \notin {"plan", "done"} /\ pc \in Busy /\ pc \in Ahead \cup Sending
  BY DEF Ahead, Sending, Busy
<1>2. /\ PlanFacts' /\ OldFacts' /\ Batch' = Batch /\ order' = order /\ olds' = olds
      /\ Cur \in Mode
  BY <1>1, CurType, PlanKept DEF MacroInv, Succeed
<1>3. \A k \in at + 1..Len(order) : order[k] \in Mode \ {Cur} /\ Intact(order[k])
  <2>1. \A k \in at + 1..Len(order) : Intact(order[k])
    BY <1>1 DEF MacroInv, OthersKept
  <2>2. PlanFacts
    BY DEF MacroInv
  <2> QED
    BY <1>1, <2>1, <2>2, LaterIsOther
<1>4. \A k \in at + 1..Len(order) : Intact(order[k])'
  <2>1. \A m \in Mode \ {Cur} : Intact(m) => Intact(m)'
    BY <1>2 DEF OthersMacros, Intact
  <2> QED
    BY <1>2, <1>3, <2>1 DEF Intact
<1>5. result' = [result EXCEPT ![Cur] = "success"] /\ result \in [Mode -> Verdict]
      /\ UNCHANGED <<files, unsaved>>
  BY DEF Succeed, Typed, TypeOK, ReportOK
<1>6. ASSUME NEW m \in Batch
      PROVE  Secure(m)'
  <2>1. CASE m = Cur
    BY <1>2, <1>5, <2>1 DEF Secure, Excused
  <2>2. CASE m # Cur
    <3>1. m \in Mode \ {Cur} /\ Secure(m) /\ result'[m] = result[m]
      BY <1>1, <1>5, <2>2, BatchIsModes DEF MacroInv, Accounted, Typed, TypeOK
    <3> QED
      BY <1>2, <1>5, <3>1 DEF OthersMacros, Secure
  <2> QED
    BY <2>1, <2>2
<1>7. Accounted'
  BY <1>2, <1>6 DEF Accounted
<1>8. CASE at < Len(order)
  <2>1. at' = at + 1 /\ pc' = Start /\ at \in Nat /\ Len(order) \in Nat
    BY <1>1, <1>8, CurType DEF Succeed, Typed, TypeOK, PlanOK
  <2>2. /\ \A k \in at' + 1..Len(order') : k \in at + 1..Len(order)
        /\ at' \in at + 1..Len(order)
    BY <1>2, <1>8, <2>1
  <2>3. Intact(Cur)'
    BY <1>2, <1>4, <2>2 DEF Cur, Intact
  <2>4. pc' \in Ahead /\ pc' \notin Undoing /\ pc' # "plan" /\ pc' \notin {"empty_apply", "save_macros"}
    BY <2>1 DEF Start, Ahead, Undoing
  <2>5. OthersKept'
    BY <1>2, <1>4, <2>2, <2>4 DEF OthersKept, Intact
  <2>6. CurrentKept'
    BY <2>3, <2>4 DEF CurrentKept, Intact
  <2> QED
    BY <1>2, <1>7, <2>5, <2>6 DEF MacroInv
<1>9. CASE ~(at < Len(order))
  <2>1. pc' = "read_back"
    BY <1>9 DEF Succeed
  <2>2. pc' \notin Busy \cup Undoing \cup Ahead \cup Sending /\ pc' # "plan"
    BY <2>1 DEF Busy, Undoing, Ahead, Sending
  <2>3. OthersKept' /\ CurrentKept'
    BY <2>2 DEF OthersKept, CurrentKept
  <2> QED
    BY <1>2, <1>7, <2>3 DEF MacroInv
<1> QED
  BY <1>8, <1>9

LEMMA CurIntact ==
  ASSUME MacroInv, pc \in Ahead \cup {"write", "apply", "check", "restore_apply"}
  PROVE  Intact(Cur)
<1>1. pc \in Busy /\ Astray = {} /\ pc \notin {"empty_apply", "save_macros"}
  BY DEF Busy, Ahead, Sending, Astray, Undoing
<1> QED
  BY <1>1 DEF MacroInv, CurrentKept, Intact

\* The current bank has no descriptor zeroed before its emptying.
LEMMA CurWhole ==
  ASSUME MacroInv, pc \in (Ahead \cup Sending) \ {"empty_apply"}
  PROVE  gone[Cur] = {} /\ pc \in Busy
BY DEF Busy, Ahead, Sending, MacroInv, CurrentKept

LEMMA CurKept ==
  ASSUME UNCHANGED plan, UNCHANGED at
  PROVE  Cur' = Cur /\ olds' = olds /\ puts' = puts /\ active' = active
BY DEF plan, Cur

LEMMA GoesMacro ==
  ASSUME Typed, MacroInv, pc \in Ahead \cup Sending, NEW st \in Busy, Go(st),
         OthersMacros, CurrentKept'
  PROVE  MacroInv'
BY StaysMacro DEF Go, work, report

LEMMA FailVMacro ==
  ASSUME Typed, MacroInv, pc \in Ahead \cup Sending, NEW v, Fail(v), OthersMacros,
         Intact(Cur)' \/ v \in Excused
  PROVE  MacroInv'
BY FailsMacro DEF Fail, work

LEMMA BankDoneMacro ==
  ASSUME Typed, MacroInv, pc \in Sending, BankDone, OthersMacros,
         gone'[Cur] = {}, \A i \in olds[Cur] : page'[Cur][i] = "old"
  PROVE  MacroInv'
<1>1. CASE puts[Cur] > 0
  <2>1. /\ pc' = "page" /\ pg' = 1 /\ UNCHANGED <<plan, at, report, lost>>
    BY <1>1 DEF BankDone
  <2>2. pc' \in Busy \ (Undoing \cup {"empty_apply", "save_macros"}) /\ Astray' = {}
    BY <2>1 DEF Busy, Sending, Undoing, Astray
  <2>3. CurrentKept'
    BY <2>1, <2>2, CurKept DEF CurrentKept
  <2> QED
    BY <2>1, <2>2, <2>3, StaysMacro DEF report
<1>2. CASE ~(puts[Cur] > 0)
  BY <1>2, SucceedMacro DEF BankDone
<1> QED
  BY <1>1, <1>2

LEMMA RollbackMacro ==
  ASSUME Typed, MacroInv, pc \in Sending, NEW c, NEW t, Rollback(c, t), OthersMacros,
         c # "pages" => t = {}, gone'[Cur] = {},
         \A i \in olds[Cur] \ t : page'[Cur][i] = "old"
  PROVE  MacroInv'
<1>1. CASE Cur \in active \/ c = "pages"
  <2>1. pc' = "rb_write" /\ todo' = t /\ lost' = {} /\ UNCHANGED <<plan, at, report>>
    BY <1>1 DEF Rollback
  <2>2. pc' \in Busy /\ Astray' = t /\ Cur' = Cur /\ olds' = olds
    BY <2>1, CurKept DEF Busy, Sending, Undoing, Astray
  <2>3. CurrentKept'
    BY <2>1, <2>2 DEF CurrentKept
  <2> QED
    BY <2>1, <2>2, <2>3, StaysMacro DEF report
<1>2. CASE ~(Cur \in active \/ c = "pages")
  <2>1. Fail("no_rollback") /\ t = {}
    BY <1>2 DEF Rollback
  <2>2. Intact(Cur)'
    BY <2>1, CurKept DEF Fail, work, Intact
  <2> QED
    BY <2>1, <2>2, FailVMacro
<1> QED
  BY <1>1, <1>2

-------------------------------------------------------------------------------
LEMMA PlanMacro ==
  ASSUME Typed, Typed', MacroInv, Plan
  PROVE  MacroInv'
<1>1. /\ pc = "plan" /\ pc' = "begin" /\ UNCHANGED <<report, flash>>
      /\ \A m \in Mode : gone[m] = {} /\ \A i \in PageNo : page[m][i] = "old"
  BY DEF Plan, MacroInv, OthersKept
<1>2. PlanFacts' /\ OldFacts'
  <2>1. PICK s \in Orders : order' = s
    BY DEF Plan
  <2>2. order' \in Seq(Mode)
    BY DEF Typed, TypeOK, PlanOK
  <2>3. \A i, j \in 1..Len(order') : order'[i] = order'[j] => i = j
    BY <2>1, <2>2 DEF Orders
  <2>4. /\ \A m \in Mode : puts'[m] > 0 => m \in edited' /\ ~ReadsBack
        /\ \A m \in Mode : olds'[m] \subseteq 1..puts'[m] /\ (olds'[m] # {} => m \in active')
    BY DEF Plan
  <2>5. PlanFacts'
    BY <2>3, <2>4 DEF PlanFacts
  <2>6. OldFacts'
    BY <2>4 DEF OldFacts
  <2> QED
    BY <2>5, <2>6
<1>3. \A m \in Mode : Intact(m)'
  <2>1. \A m \in Mode : olds'[m] \subseteq PageNo
    BY DEF Typed, TypeOK, PlanOK
  <2> QED
    BY <1>1, <2>1 DEF Intact, flash
<1>4. /\ \A k \in at' + 1..Len(order') : order'[k] \in Mode
      /\ \A m \in Batch' : m \in Mode
  <2>1. order' \in Seq(Mode) /\ at' = 1
    BY <1>1 DEF Typed, TypeOK, PlanOK, AtIsIndex
  <2>2. \A k \in 1..Len(order') : order'[k] \in Mode
    BY <2>1
  <2>3. \A k \in at' + 1..Len(order') : k \in 1..Len(order')
    BY <2>1
  <2> QED
    BY <2>2, <2>3 DEF Batch
<1>5. OthersKept'
  BY <1>1, <1>3, <1>4 DEF OthersKept, Intact
<1>6. Cur' \in Mode
  BY <1>1 DEF Typed, TypeOK, PlanOK, AtIsIndex, Cur
<1>7. pc' \notin Undoing \cup {"empty_apply", "save_macros"}
  BY <1>1 DEF Undoing
<1>8. CurrentKept'
  BY <1>3, <1>6, <1>7 DEF CurrentKept, Intact
<1>9. Accounted'
  BY <1>3, <1>4 DEF Accounted, Secure, Intact
<1> QED
  BY <1>2, <1>5, <1>8, <1>9 DEF MacroInv

\* A step that ends the run before it wrote anything.
LEMMA RefusedMacro ==
  ASSUME Typed, MacroInv, PlanRefused \/ begin_write_fails
  PROVE  MacroInv'
<1>1. pc' = "done" /\ UNCHANGED <<plan, flash, files, unsaved>>
  BY DEF PlanRefused, begin_write_fails
<1>2. /\ PlanFacts' /\ OldFacts' /\ Batch' = Batch /\ olds' = olds
      /\ \A m \in Batch : m \in Mode
  BY <1>1, PlanKept, BatchIsModes DEF MacroInv, Typed, TypeOK
<1>3. pc' \notin Busy \cup Undoing \cup Ahead \cup Sending /\ pc' # "plan"
  BY <1>1 DEF Busy, Undoing, Ahead, Sending
<1>4. \A m \in Batch : Intact(m)
  <2>1. CASE pc = "plan"
    BY <1>2, <2>1, OldPages DEF MacroInv, OthersKept, Intact
  <2>2. CASE pc = "begin"
    <3>1. at = 1 /\ pc \in Ahead /\ Len(order) \in Nat
      BY <2>2 DEF Typed, TypeOK, PlanOK, AtIsIndex, Ahead
    <3>2. Intact(Cur)
      BY <3>1, CurIntact
    <3>3. \A k \in at + 1..Len(order) : Intact(order[k])
      BY <3>1 DEF MacroInv, OthersKept
    <3> QED
      BY <3>1, <3>2, <3>3 DEF Batch, Cur
  <2> QED
    BY <2>1, <2>2 DEF PlanRefused, begin_write_fails
<1>5. Accounted'
  BY <1>1, <1>2, <1>4 DEF Accounted, Secure, Intact, flash
<1>6. CurrentKept' /\ OthersKept'
  BY <1>3 DEF CurrentKept, OthersKept
<1> QED
  BY <1>2, <1>5, <1>6 DEF MacroInv

\* The steps before the first call of a bank.
LEMMA AheadMacro ==
  ASSUME Typed, MacroInv, begin_write \/ SaveFirst \/ Select
  PROVE  MacroInv'
<1>1. pc \in Ahead /\ UNCHANGED flash
  BY DEF begin_write, SaveFirst, Select, Ahead
<1>2. Intact(Cur) /\ OthersMacros
  BY <1>1, CurIntact DEF OthersMacros, flash
<1>3. ASSUME NEW st \in {"save_first", "select", "write"}, Go(st)
      PROVE  MacroInv'
  <2>1. /\ pc' \in Busy /\ pc' \notin Undoing /\ pc' \notin {"empty_apply", "save_macros"}
        /\ UNCHANGED <<plan, at>> /\ st \in Busy
    BY <1>3 DEF Go, work, Busy, Ahead, Sending, Undoing
  <2>2. CurrentKept'
    BY <1>1, <1>2, <2>1, CurKept DEF CurrentKept, Intact, flash
  <2> QED
    BY <1>1, <1>2, <1>3, <2>1, <2>2, GoesMacro
<1>4. ASSUME NEW v, Fail(v)
      PROVE  MacroInv'
  <2>1. Intact(Cur)'
    BY <1>1, <1>2, <1>4, CurKept DEF Fail, work, Intact, flash
  <2> QED
    BY <1>1, <1>2, <1>4, <2>1, FailVMacro
<1> QED
  BY <1>3, <1>4 DEF begin_write, SaveFirst, Select, Start

LEMMA WriteMacro ==
  ASSUME Typed, MacroInv, Write
  PROVE  MacroInv'
<1>1. pc = "write" /\ pc \in Sending /\ Cur \in Mode
  BY CurType DEF Write, Sending
<1>2. Intact(Cur) /\ OthersMacros /\ page' = page /\ gone'[Cur] = {}
  BY <1>1, CurIntact, ProfileMacros DEF Write, Intact
<1>3. CASE Go("apply")
  <2>1. pc' = "apply" /\ "apply" \in Busy /\ pc' \notin Undoing \cup {"empty_apply", "save_macros"}
        /\ UNCHANGED <<plan, at>>
    BY <1>3 DEF Go, work, Busy, Sending, Undoing
  <2>2. CurrentKept'
    BY <1>2, <2>1, CurKept DEF CurrentKept, Intact
  <2> QED
    BY <1>1, <1>2, <1>3, <2>1, <2>2, GoesMacro
<1>4. CASE Rollback("write", {})
  BY <1>1, <1>2, <1>4, RollbackMacro DEF Intact
<1> QED
  BY <1>3, <1>4 DEF Write

LEMMA ApplyStepMacro ==
  ASSUME Typed, MacroInv, Apply
  PROVE  MacroInv'
<1>1. pc = "apply" /\ pc \in Sending
  BY DEF Apply, Sending
<1>2. Intact(Cur) /\ OthersMacros /\ page' = page /\ gone' = gone
  BY <1>1, CurIntact, ApplyMacros DEF Apply, OthersMacros
<1>3. CASE Go("check")
  <2>1. pc' = "check" /\ "check" \in Busy /\ pc' \notin Undoing \cup {"empty_apply", "save_macros"}
        /\ UNCHANGED <<plan, at>>
    BY <1>3 DEF Go, work, Busy, Sending, Undoing
  <2>2. CurrentKept'
    BY <1>2, <2>1, CurKept DEF CurrentKept, Intact
  <2> QED
    BY <1>1, <1>2, <1>3, <2>1, <2>2, GoesMacro
<1>4. CASE BankDone
  BY <1>1, <1>2, <1>4, BankDoneMacro DEF Intact
<1>5. CASE Fail("apply_failed")
  BY <1>1, <1>2, <1>5, FailVMacro DEF Excused
<1> QED
  BY <1>3, <1>4, <1>5 DEF Apply

LEMMA CheckMacro ==
  ASSUME Typed, MacroInv, Check
  PROVE  MacroInv'
<1>1. pc = "check" /\ pc \in Sending
  BY DEF Check, Sending
<1>2. Intact(Cur) /\ OthersMacros /\ page' = page /\ gone' = gone
  BY <1>1, CurIntact, ReadMacros DEF Check, OthersMacros
<1>3. CASE BankDone
  BY <1>1, <1>2, <1>3, BankDoneMacro DEF Intact
<1>4. CASE Rollback("readback", {})
  BY <1>1, <1>2, <1>4, RollbackMacro DEF Intact
<1>5. CASE Fail("readback_failed")
  BY <1>1, <1>2, <1>5, FailVMacro DEF Excused
<1> QED
  BY <1>3, <1>4, <1>5 DEF Check

LEMMA WritePageMacro ==
  ASSUME Typed, MacroInv, WritePage
  PROVE  MacroInv'
<1>1. pc = "page" /\ pc \in Sending /\ Cur \in Mode /\ pg \in Nat
  BY CurType DEF WritePage, Sending, Typed, TypeOK, WorkOK
<1>2. OthersMacros /\ gone' = gone /\ \A j \in PageNo : j # pg => page'[Cur][j] = page[Cur][j]
  BY <1>1, StreamMacros DEF WritePage
<1>3. Astray = 1..pg - 1 /\ gone[Cur] = {} /\ olds[Cur] \subseteq PageNo /\ pc \in Busy
  BY <1>1, CurWhole, OldPages DEF Astray, Undoing
<1>4. \A i \in olds[Cur] \ (1..pg) : page'[Cur][i] = "old"
  <2>1. \A i \in olds[Cur] \ (1..pg - 1) : page[Cur][i] = "old"
    BY <1>3 DEF MacroInv, CurrentKept
  <2>2. \A i \in olds[Cur] \ (1..pg) : i \in PageNo /\ i # pg /\ i \notin 1..pg - 1
    BY <1>1, <1>3 DEF PageNo
  <2> QED
    BY <1>2, <2>1, <2>2
<1>5. CASE /\ pg' = pg + 1
           /\ pc' = IF pg < puts[Cur] THEN "page" ELSE "last_apply"
           /\ UNCHANGED <<plan, at, cause, todo, lost, report>>
  <2>1. /\ pc' \in {"page", "last_apply"} /\ pc' \in Busy \ Undoing
        /\ pc' \notin {"empty_apply", "save_macros"}
    BY <1>5 DEF Busy, Sending, Undoing
  <2>2. olds[Cur] \ Astray' \subseteq olds[Cur] \ (1..pg)
    <3>1. CASE pc' = "page"
      <4>1. pg' - 1 = pg /\ Astray' = 1..pg' - 1
        BY <1>1, <1>5, <3>1 DEF Astray, Undoing
      <4> QED
        BY <4>1
    <3>2. CASE pc' = "last_apply"
      BY <1>3, <3>2 DEF Astray, Undoing
    <3> QED
      BY <2>1, <3>1, <3>2
  <2>3. CurrentKept'
    BY <1>2, <1>3, <1>4, <1>5, <2>1, <2>2, CurKept DEF CurrentKept
  <2> QED
    BY <1>1, <1>2, <1>5, <2>1, <2>3, StaysMacro DEF report
<1>6. CASE Rollback("pages", Touched)
  <2>1. olds[Cur] \ Touched \subseteq olds[Cur] \ (1..pg)
    BY <1>1, <1>3 DEF Touched, PageNo
  <2> QED
    BY <1>1, <1>2, <1>3, <1>4, <1>6, <2>1, RollbackMacro
<1> QED
  BY <1>5, <1>6 DEF WritePage

LEMMA LastApplyMacro ==
  ASSUME Typed, MacroInv, LastApply
  PROVE  MacroInv'
<1>1. pc \in Sending
  BY DEF LastApply, Sending
<1>2. OthersMacros
  BY ApplyMacros DEF LastApply, OthersMacros
<1>3. CASE Succeed
  BY <1>1, <1>2, <1>3, SucceedMacro
<1>4. CASE Fail("apply_failed")
  BY <1>1, <1>2, <1>4, FailVMacro DEF Excused
<1> QED
  BY <1>3, <1>4 DEF LastApply

\* The calls of the bank's own restore, which touch no page.
LEMMA UndoingMacro ==
  ASSUME Typed, MacroInv, RollbackWrite \/ RollbackApply
  PROVE  MacroInv'
<1>1. pc \in Undoing /\ pc \in Sending /\ Cur \in Mode
  BY CurType DEF RollbackWrite, RollbackApply, Undoing, Sending
<1>2. /\ Astray = todo \cup lost /\ gone[Cur] = {} /\ lost = {}
      /\ \A i \in olds[Cur] \ todo : page[Cur][i] = "old"
  <2>1. Astray = todo \cup lost /\ pc \in Busy /\ pc \notin {"empty_apply", "save_macros"}
    BY <1>1 DEF Astray, Undoing, Busy, Sending
  <2> QED
    BY <1>1, <2>1 DEF MacroInv, CurrentKept
<1>3. OthersMacros /\ page' = page /\ gone'[Cur] = {}
  BY <1>1, <1>2, ProfileMacros, ApplyMacros DEF RollbackWrite, RollbackApply, OthersMacros
<1>4. ASSUME NEW st \in {"rb_apply", "rb_save", "restore"}, Go(st)
      PROVE  MacroInv'
  <2>1. /\ st \in Busy /\ pc' \in Busy /\ pc' \notin {"empty_apply", "save_macros"}
        /\ Astray' = todo /\ lost' = {} /\ UNCHANGED <<plan, at>>
    BY <1>2, <1>4 DEF Go, work, Busy, Sending, Astray, Undoing
  <2>2. CurrentKept'
    BY <1>2, <1>3, <2>1, CurKept DEF CurrentKept
  <2> QED
    BY <1>1, <1>3, <1>4, <2>1, <2>2, GoesMacro
<1>5. ASSUME todo = {}, Fail("rolled_back")
      PROVE  MacroInv'
  <2>1. Intact(Cur)'
    BY <1>2, <1>3, <1>5, CurKept DEF Fail, work, Intact
  <2> QED
    BY <1>1, <1>3, <1>5, <2>1, FailVMacro
<1> QED
  BY <1>4, <1>5 DEF RollbackWrite, RollbackApply

LEMMA RollbackSaveMacro ==
  ASSUME Typed, MacroInv, RollbackSave
  PROVE  MacroInv'
<1>1. /\ pc = "rb_save" /\ pc \in Undoing /\ pc \in Sending /\ pc \in Busy
      /\ UNCHANGED <<plan, at, flash>> /\ Astray = todo \cup lost
  BY DEF RollbackSave, Undoing, Sending, Busy, Astray
<1>2. gone[Cur] = {} /\ \A i \in olds[Cur] \ todo : page[Cur][i] = "old"
  BY <1>1 DEF MacroInv, CurrentKept
<1>3. /\ OthersMacros /\ page' = page /\ gone' = gone
      /\ files \subseteq files' /\ unsaved \subseteq unsaved'
      /\ result' = FailedResult("rollback_failed")
  BY <1>1 DEF OthersMacros, flash, RollbackSave, Save
<1>4. CASE todo = {}
  <2>1. pc' = "read_back" /\ Intact(Cur)'
    BY <1>1, <1>2, <1>3, <1>4, CurKept DEF RollbackSave, Intact
  <2> QED
    BY <1>1, <1>3, <2>1, FailsMacro
<1>5. CASE todo # {}
  <2>1. pc' = "save_macros" /\ lost' = todo /\ pc' \in Busy /\ pc' \notin Undoing
    BY <1>5 DEF RollbackSave, Busy, Undoing
  <2>2. Astray' = todo
    BY <2>1 DEF Astray, Undoing
  <2>3. CurrentKept'
    BY <1>1, <1>2, <1>3, <2>1, <2>2, CurKept DEF CurrentKept
  <2> QED
    BY <1>1, <1>3, <2>1, <2>3, StaysMacro
<1> QED
  BY <1>4, <1>5

LEMMA RestoreMacro ==
  ASSUME Typed, MacroInv, Silent => ReadsBack, Restore
  PROVE  MacroInv'
<1>1. /\ pc = "restore" /\ pc \in Sending /\ pc \in Busy /\ Cur \in Mode
      /\ Astray = todo \cup lost /\ UNCHANGED <<plan, at, report>>
  BY CurType DEF Restore, Sending, Busy, Astray, Undoing
<1>2. gone[Cur] = {} /\ \A i \in olds[Cur] \ (todo \cup lost) : page[Cur][i] = "old"
  BY <1>1 DEF MacroInv, CurrentKept
<1>3. PICK i \in todo :
        /\ \/ write_macro_stream(Cur, i, "old") /\ lost' = lost
           \/ write_macro_stream_fails(Cur, i, "old") /\ lost' = lost \cup {i}
        /\ todo' = todo \ {i}
  BY DEF Restore
<1>4. /\ OthersMacros /\ gone' = gone
      /\ \A j \in PageNo : j # i => page'[Cur][j] = page[Cur][j]
  BY <1>1, <1>3, StreamMacros
<1>5. \A j \in olds[Cur] \ (todo' \cup lost') : page'[Cur][j] = "old"
  <2> SUFFICES ASSUME NEW j \in olds[Cur], j \notin todo', j \notin lost'
               PROVE  page'[Cur][j] = "old"
    OBVIOUS
  <2>1. j \in PageNo
    BY <1>1, OldPages
  <2>2. CASE j # i
    BY <1>2, <1>3, <1>4, <2>1, <2>2
  <2>3. CASE j = i
    <3>1. write_macro_stream(Cur, i, "old")
      BY <1>3, <2>3
    <3>2. i \in 1..puts[Cur] /\ puts[Cur] \in 0..MaxPages
      BY <1>1, <2>3 DEF MacroInv, OldFacts, Typed, TypeOK, PlanOK
    <3>3. ~Silent
      BY <1>1, <3>2 DEF MacroInv, PlanFacts
    <3>4. SetPage(Cur, i, "old") /\ page \in [Mode -> [PageNo -> {"old", "new", "broken"}]]
      BY <3>1, <3>3 DEF write_macro_stream, Typed, TypeOK, FlashOK
    <3> QED
      BY <1>1, <2>1, <2>3, <3>4 DEF SetPage
  <2> QED
    BY <2>2, <2>3
<1>6. pc' = IF todo' # {} THEN "restore" ELSE Restored
  BY DEF Restore
<1>7. /\ pc' \in {"restore", "restore_apply", "empty"} /\ pc' \in Busy \ Undoing
      /\ olds[Cur] \ Astray' \subseteq olds[Cur] \ (todo' \cup lost')
  <2>1. CASE todo' # {}
    BY <1>6, <2>1 DEF Astray, Undoing, Busy, Sending
  <2>2. CASE todo' = {} /\ lost' = {}
    BY <1>6, <2>2 DEF Restored, Astray, Undoing, Busy, Sending
  <2>3. CASE todo' = {} /\ lost' # {}
    BY <1>6, <2>3 DEF Restored, Astray, Undoing, Busy, Sending
  <2> QED
    BY <2>1, <2>2, <2>3
<1>8. CurrentKept'
  BY <1>1, <1>2, <1>4, <1>5, <1>7, CurKept DEF CurrentKept
<1> QED
  BY <1>1, <1>4, <1>7, <1>8, StaysMacro DEF report

LEMMA RestoreApplyMacro ==
  ASSUME Typed, MacroInv, RestoreApply
  PROVE  MacroInv'
<1>1. pc = "restore_apply" /\ pc \in Sending
  BY DEF RestoreApply, Sending
<1>2. OthersMacros /\ page' = page /\ gone' = gone /\ Intact(Cur)
  BY <1>1, ApplyMacros, CurIntact DEF RestoreApply, OthersMacros
<1>3. CASE Fail("rolled_back")
  <2>1. Intact(Cur)'
    BY <1>2, <1>3, CurKept DEF Fail, work, Intact
  <2> QED
    BY <1>1, <1>2, <1>3, <2>1, FailVMacro
<1>4. CASE pc' = "empty" /\ UNCHANGED <<plan, at, report>>
  <2>1. pc' \in Busy \ Undoing
    BY <1>4 DEF Busy, Sending, Undoing
  <2>2. CurrentKept'
    BY <1>2, <1>4, <2>1, CurKept DEF CurrentKept, Intact
  <2> QED
    BY <1>1, <1>2, <1>4, <2>1, <2>2, StaysMacro DEF report
<1> QED
  BY <1>3, <1>4 DEF RestoreApply

\* The emptying zeroes the descriptors of the lost pages alone.
LEMMA EmptyMacro ==
  ASSUME Typed, MacroInv, Empty \/ EmptyApply
  PROVE  MacroInv'
<1>1. /\ pc \in {"empty", "empty_apply"} /\ pc \in Sending /\ pc \in Busy /\ Cur \in Mode
      /\ Astray = lost
  BY CurType DEF Empty, EmptyApply, Sending, Busy, Astray, Undoing
<1>2. gone[Cur] \subseteq lost /\ \A i \in olds[Cur] \ lost : page[Cur][i] = "old"
  BY <1>1 DEF MacroInv, CurrentKept
<1>3. OthersMacros /\ page' = page /\ gone'[Cur] \subseteq lost
  BY <1>1, <1>2, ProfileMacros, ApplyMacros DEF Empty, EmptyApply, OthersMacros
<1>4. /\ pc' \in {"empty_apply", "save_macros"} /\ UNCHANGED <<plan, at, lost, files, unsaved>>
      /\ UNCHANGED result \/ \E v : result' = FailedResult(v)
  BY DEF Empty, EmptyApply, Go, work, report
<1>5. pc' \in Busy \ Undoing /\ Astray' = lost
  BY <1>4 DEF Busy, Sending, Astray, Undoing
<1>6. CurrentKept'
  BY <1>2, <1>3, <1>4, <1>5, CurKept DEF CurrentKept
<1> QED
  BY <1>1, <1>3, <1>4, <1>5, <1>6, StaysMacro

\* A step after the last call of the last bank, or none of the run's own.
LEMMA AfterMacro ==
  ASSUME Typed, MacroInv, pc' \notin Busy \cup {"plan"}, pc \notin Busy,
         UNCHANGED <<plan, flash, files, unsaved>>,
         \A m \in Mode : result'[m] = result[m] \/ result'[m] \in Excused
  PROVE  MacroInv'
<1>1. /\ PlanFacts' /\ OldFacts' /\ Batch' = Batch /\ olds' = olds
      /\ \A m \in Batch : m \in Mode
  BY PlanKept, BatchIsModes DEF MacroInv, Typed, TypeOK
<1>2. pc' \notin Undoing \cup Ahead \cup Sending
  BY DEF Busy, Sending, Undoing
<1>3. CurrentKept' /\ OthersKept'
  BY <1>2 DEF CurrentKept, OthersKept
<1>4. Accounted'
  BY <1>1 DEF MacroInv, Accounted, Secure, flash
<1> QED
  BY <1>1, <1>3, <1>4 DEF MacroInv

LEMMA SaveMacrosMacro ==
  ASSUME Typed, MacroInv, SaveMacros
  PROVE  MacroInv'
<1>1. /\ pc = "save_macros" /\ pc \in Busy /\ pc' = "read_back" /\ Astray = lost
      /\ UNCHANGED <<plan, at, flash, result>>
      /\ files \subseteq files' /\ unsaved \subseteq unsaved'
      /\ {Cur} \X lost \subseteq files' \cup unsaved'
  BY DEF SaveMacros, Save, Busy, Astray, Undoing, work
<1>2. gone[Cur] \subseteq lost /\ \A i \in olds[Cur] \ lost : page[Cur][i] = "old"
  BY <1>1 DEF MacroInv, CurrentKept
<1>3. /\ PlanFacts' /\ OldFacts' /\ Batch' = Batch /\ olds' = olds /\ Cur' = Cur
  BY <1>1, PlanKept, CurKept DEF MacroInv
<1>4. pc' \notin Busy \cup Undoing \cup Ahead \cup Sending \cup {"plan"}
  BY <1>1 DEF Busy, Undoing, Ahead, Sending
<1>5. CurrentKept' /\ OthersKept'
  BY <1>4 DEF CurrentKept, OthersKept
<1>6. Secure(Cur)'
  <2>1. \A i \in lost : <<Cur, i>> \in files' \cup unsaved'
    BY <1>1
  <2> QED
    BY <1>1, <1>2, <1>3, <2>1 DEF Secure, flash
<1>7. ASSUME NEW m \in Batch, m # Cur
      PROVE  Secure(m)'
  BY <1>1, <1>3, <1>7 DEF MacroInv, Accounted, Secure, flash
<1>8. Accounted'
  BY <1>3, <1>6, <1>7 DEF Accounted, Secure
<1> QED
  BY <1>3, <1>5, <1>8 DEF MacroInv

\* The cable, or nothing at all.
LEMMA ReplugMacro ==
  ASSUME MacroInv, UNCHANGED <<pc, plan, work, report, flash>>
  PROVE  MacroInv'
<1>1. PlanFacts' /\ OldFacts' /\ Batch' = Batch /\ order' = order /\ olds' = olds
  BY PlanKept DEF MacroInv
<1>2. Cur' = Cur /\ Astray' = Astray /\ UNCHANGED <<pc, at, lost, gone, page, result, files, unsaved>>
  BY DEF Cur, Astray, plan, work, report, flash
<1>3. CurrentKept'
  BY <1>1, <1>2 DEF MacroInv, CurrentKept
<1>4. OthersKept'
  BY <1>1, <1>2 DEF MacroInv, OthersKept, Intact
<1>5. Accounted'
  BY <1>1, <1>2 DEF MacroInv, Accounted, Secure
<1> QED
  BY <1>1, <1>3, <1>4, <1>5 DEF MacroInv

LEMMA InitMacro == Init => MacroInv
<1> SUFFICES ASSUME Init PROVE MacroInv
  OBVIOUS
<1>1. PlanFacts /\ OldFacts
  BY DEF Init, PlanFacts, OldFacts
<1>2. Batch = {} /\ pc = "plan"
  BY DEF Init, Batch
<1>3. pc \notin Busy \cup Undoing \cup Ahead \cup Sending
  BY <1>2 DEF Busy, Undoing, Ahead, Sending
<1>4. CurrentKept /\ OthersKept
  BY <1>3 DEF CurrentKept, OthersKept, Init
<1> QED
  BY <1>1, <1>2, <1>4 DEF MacroInv, Accounted

LEMMA NextMacro ==
  ASSUME Silent => ReadsBack, Typed, Typed', MacroInv, [Next]_vars
  PROVE  MacroInv'
<1>1. CASE Plan \/ PlanRefused \/ begin_write \/ begin_write_fails \/ SaveFirst \/ Select
  BY <1>1, PlanMacro, RefusedMacro, AheadMacro
<1>2. CASE Write \/ Apply \/ Check \/ WritePage \/ LastApply
  BY <1>2, WriteMacro, ApplyStepMacro, CheckMacro, WritePageMacro, LastApplyMacro
<1>3. CASE RollbackWrite \/ RollbackApply \/ RollbackSave \/ Restore \/ RestoreApply
  BY <1>3, UndoingMacro, RollbackSaveMacro, RestoreMacro, RestoreApplyMacro
<1>4. CASE Empty \/ EmptyApply \/ SaveMacros
  BY <1>4, EmptyMacro, SaveMacrosMacro
<1>5. CASE ReadBack
  <2>1. /\ pc = "read_back" /\ pc' = "end" /\ UNCHANGED <<plan, flash, files, unsaved>>
        /\ \A m \in Mode : result'[m] = result[m] \/ result'[m] \in Excused
    BY <1>5 DEF ReadBack, read_all_profiles, read_all_profiles_fails, Excused
  <2>2. pc \notin Busy /\ pc' \notin Busy \cup {"plan"}
    BY <2>1 DEF Busy, Ahead, Sending
  <2> QED
    BY <2>1, <2>2, AfterMacro
<1>6. CASE end_write
  <2>1. /\ pc = "end" /\ pc' = "done" /\ UNCHANGED <<plan, flash, files, unsaved, result>>
    BY <1>6 DEF end_write
  <2>2. pc \notin Busy /\ pc' \notin Busy \cup {"plan"}
    BY <2>1 DEF Busy, Ahead, Sending
  <2> QED
    BY <2>1, <2>2, AfterMacro
<1>7. CASE Replug \/ UNCHANGED vars
  BY <1>7, ReplugMacro DEF Replug, vars
<1> QED
  BY <1>1, <1>2, <1>3, <1>4, <1>5, <1>6, <1>7 DEF Next, Step, Finished

LEMMA MacroCorrect == (Silent => ReadsBack) => (Spec => [](Typed /\ MacroInv))
<1> SUFFICES ASSUME Silent => ReadsBack PROVE Spec => [](Typed /\ MacroInv)
  OBVIOUS
<1>1. Init => Typed /\ MacroInv
  BY InitTyped, InitMacro
<1>2. Typed /\ MacroInv /\ [Next]_vars => (Typed /\ MacroInv)'
  BY NextTyped, NextMacro
<1> QED
  BY <1>1, <1>2, PTL DEF Spec

\* Macro steps the pad no longer has, and that nothing replaced, are in a file, or the
\* message says that they could not be saved.  A pad that silently corrupts a restored
\* page is beyond what the code can know, unless every write is read back.
THEOREM LossHolds == (Silent => ReadsBack) => (Spec => []LossIsOnFile)
<1>1. Typed /\ MacroInv => LossIsOnFile
  <2> SUFFICES ASSUME MacroInv, pc = "done" PROVE LossIsOnFile
    BY DEF LossIsOnFile, Done
  <2>1. pc \notin Busy
    BY DEF Busy, Ahead, Sending
  <2> QED
    BY <2>1 DEF MacroInv, Accounted, Secure, Excused, LossIsOnFile
<1> QED
  BY <1>1, MacroCorrect, PTL

-------------------------------------------------------------------------------
(***************************************************************************)
(* A rollback that reports success restored the bank: BackInv is inductive *)
(* with the other two invariants, for a pad that stores what it            *)
(* acknowledges.                                                           *)
(***************************************************************************)
AllInv == Typed /\ WriteInv /\ MacroInv

\* What a result promises of bank m after the step.
Backed(m) == /\ result[m] \in {"rolled_back", "select_failed"} => AsRead(m)
             /\ result[m] = "emptied" => Emptied(m)

LEMMA BackedKept ==
  ASSUME NEW m \in Mode, UNCHANGED plan, Same(m), Backed(m),
         result'[m] = result[m] \/ result'[m] \notin {"rolled_back", "select_failed", "emptied"}
  PROVE  Backed(m)'
BY DEF Backed, AsRead, Emptied, Same, plan

LEMMA BackedAll == ResultsTrue <=> \A m \in Batch : Backed(m)
BY DEF ResultsTrue, Backed

\* A step of the current bank leaves what the others' results promise.
LEMMA BankBack ==
  ASSUME AllInv, BackInv, pc \in Ahead \cup Sending, UNCHANGED <<plan, at>>, OthersSame,
         \A m \in Mode \ {Cur} : result'[m] = result[m] \/ result'[m] = "not_written",
         Backed(Cur)'
  PROVE  ResultsTrue'
<1>1. /\ Batch' = Batch /\ pc \notin {"plan", "done"}
      /\ \A m \in Batch : m \in Mode /\ Backed(m)
  BY BatchIsModes, BackedAll DEF AllInv, BackInv, Batch, plan, Ahead, Sending, Typed, TypeOK
<1>2. ASSUME NEW m \in Batch
      PROVE  Backed(m)'
  <2>1. CASE m = Cur
    BY <2>1, CurKept DEF Backed, AsRead, Emptied
  <2>2. CASE m # Cur
    <3>1. m \in Mode \ {Cur} /\ Same(m)
      BY <1>1, <2>2 DEF OthersSame
    <3> QED
      BY <1>1, <3>1, BackedKept
  <2> QED
    BY <2>1, <2>2
<1> QED
  BY <1>1, <1>2 DEF ResultsTrue, Backed

\* A bank the step gives no result promises nothing.
LEMMA UntriedBack ==
  ASSUME AllInv, pc \in Ahead \cup Sending, result' = result, Cur' = Cur
  PROVE  Backed(Cur)'
<1>1. result[Cur] = "untried"
  BY CurUntried DEF AllInv, WriteInv
<1> QED
  BY <1>1 DEF Backed

\* The step stays in the calls of the bank.
LEMMA StaysBack ==
  ASSUME AllInv, BackInv, pc \in Ahead \cup Sending, pc' \in Ahead \cup Sending,
         UNCHANGED <<plan, at, result>>, OthersSame, BackSoFar'
  PROVE  BackInv'
<1>1. Cur' = Cur /\ order' = order
  BY DEF Cur, plan
<1>2. ResultsTrue'
  <2>1. Backed(Cur)'
    BY <1>1, UntriedBack
  <2> QED
    BY <2>1, BankBack
<1>3. Tried'
  <2>1. \A k \in 1..at - 1 : result[order[k]] # "untried"
    BY DEF BackInv, Tried
  <2>2. pc' \notin {"save_macros", "read_back", "end", "done"}
    BY DEF Ahead, Sending
  <2> QED
    BY <1>1, <2>1, <2>2 DEF Tried
<1> QED
  BY <1>2, <1>3 DEF BackInv

\* The step ends the bank with a failure, and the run's writing with it.
LEMMA FailsBack ==
  ASSUME AllInv, BackInv, pc \in Ahead \cup Sending, pc' \in {"read_back", "save_macros"},
         NEW v \in Verdict \ {"untried"}, result' = FailedResult(v), UNCHANGED <<plan, at>>,
         OthersSame, v \in {"rolled_back", "select_failed"} => AsRead(Cur)',
         v = "emptied" => Emptied(Cur)'
  PROVE  BackInv'
<1>1. /\ pc \notin {"plan", "done"} /\ pc' \notin Ahead \cup Sending /\ Cur \in Mode
      /\ pc' \notin {"rb_apply", "restore", "restore_apply", "empty_apply"}
  BY CurType DEF AllInv, Ahead, Sending
<1>2. Batch' = Batch /\ Cur' = Cur /\ order' = order
  BY DEF Batch, plan, Cur
<1>3. \A m \in Mode : result'[m] = IF m = Cur THEN v
                                   ELSE IF m \in Later THEN "not_written" ELSE result[m]
  BY DEF FailedResult
<1>4. ResultsTrue'
  <2>1. Backed(Cur)'
    BY <1>1, <1>2, <1>3 DEF Backed, AsRead, Emptied
  <2> QED
    BY <1>3, <2>1, BankBack
<1>5. ASSUME NEW m \in Batch
      PROVE  result'[m] # "untried"
  <2>1. PICK k \in 1..Len(order) : m = order[k]
    BY DEF Batch
  <2>2. at \in 1..Len(order) /\ Len(order) \in Nat /\ m \in Mode
    BY <1>1, CurType, BatchIsModes DEF AllInv, Typed, TypeOK, PlanOK
  <2>3. CASE k < at
    <3>1. k \in 1..at - 1
      BY <2>2, <2>3
    <3>2. result[m] # "untried"
      BY <2>1, <3>1 DEF BackInv, Tried
    <3> QED
      BY <1>3, <2>2, <3>2
  <2>4. CASE k = at
    BY <1>3, <2>1, <2>2, <2>4 DEF Cur
  <2>5. CASE k > at
    <3>1. k \in at + 1..Len(order)
      BY <2>2, <2>5
    <3>2. m \in Later
      BY <2>1, <3>1 DEF Later
    <3> QED
      BY <1>3, <2>2, <3>2
  <2> QED
    BY <2>2, <2>3, <2>4, <2>5
<1>6. Tried' /\ BackSoFar'
  BY <1>1, <1>2, <1>5 DEF Tried, BackSoFar
<1> QED
  BY <1>4, <1>6 DEF BackInv

\* The bank went out.
LEMMA SucceedBack ==
  ASSUME AllInv, BackInv, pc \in Sending, Succeed, OthersSame
  PROVE  BackInv'
<1>1. /\ pc \notin {"plan", "done"} /\ pc \in Ahead \cup Sending /\ Cur \in Mode
      /\ at \in 1..Len(order) /\ Len(order) \in Nat
  BY CurType DEF AllInv, Sending, Typed, TypeOK, PlanOK
<1>2. /\ Batch' = Batch /\ order' = order /\ UNCHANGED plan
      /\ \A m \in Batch : m \in Mode
  BY BatchIsModes DEF Batch, plan, Succeed, AllInv, Typed, TypeOK
<1>3. result' = [result EXCEPT ![Cur] = "success"] /\ result \in [Mode -> Verdict]
  BY DEF Succeed, AllInv, Typed, TypeOK, ReportOK
<1>4. ASSUME NEW m \in Batch
      PROVE  Backed(m)'
  <2>1. CASE m = Cur
    BY <1>2, <1>3, <2>1 DEF Backed
  <2>2. CASE m # Cur
    <3>1. Same(m) /\ m \in Mode /\ Backed(m)
      BY <1>2, <2>2, BackedAll DEF OthersSame, BackInv
    <3> QED
      BY <1>2, <1>3, <2>2, <3>1, BackedKept
  <2> QED
    BY <2>1, <2>2
<1>5. ResultsTrue'
  BY <1>2, <1>4 DEF ResultsTrue, Backed
<1>6. ASSUME NEW k \in 1..at
      PROVE  result'[order[k]] # "untried"
  <2>1. order[k] \in Mode
    BY <1>1 DEF AllInv, Typed, TypeOK, PlanOK
  <2>2. CASE order[k] = Cur
    BY <1>1, <1>3, <2>2
  <2>3. CASE order[k] # Cur
    <3>1. k \in 1..at - 1
      BY <1>1, <2>3 DEF Cur
    <3>2. result[order[k]] # "untried"
      BY <1>1, <3>1 DEF BackInv, Tried
    <3> QED
      BY <1>3, <2>1, <2>3, <3>2
  <2> QED
    BY <2>2, <2>3
<1>7. BackSoFar'
  BY DEF BackSoFar, Succeed, Start
<1>8. CASE at < Len(order)
  <2>1. at' = at + 1 /\ pc' = Start
    BY <1>8 DEF Succeed
  <2>2. \A k \in 1..at' - 1 : k \in 1..at
    BY <1>1, <2>1
  <2>3. Tried'
    BY <1>2, <1>6, <2>1, <2>2 DEF Tried, Start
  <2> QED
    BY <1>5, <1>7, <2>3 DEF BackInv
<1>9. CASE ~(at < Len(order))
  <2>1. at = Len(order) /\ pc' = "read_back" /\ pc' \notin Ahead \cup Sending
    BY <1>1, <1>9 DEF Succeed, Ahead, Sending
  <2>2. \A m \in Batch : result'[m] # "untried"
    BY <1>6, <2>1 DEF Batch
  <2>3. Tried'
    BY <1>2, <2>1, <2>2 DEF Tried
  <2> QED
    BY <1>5, <1>7, <2>3 DEF BackInv
<1> QED
  BY <1>8, <1>9

LEMMA FailVBack ==
  ASSUME AllInv, BackInv, pc \in Ahead \cup Sending, NEW v \in Verdict \ {"untried", "emptied"},
         Fail(v), OthersSame, v \in {"rolled_back", "select_failed"} => AsRead(Cur)'
  PROVE  BackInv'
BY FailsBack DEF Fail, work

-------------------------------------------------------------------------------
LEMMA StartBack ==
  ASSUME AllInv, Typed', BackInv, Plan \/ begin_write \/ begin_write_fails \/ PlanRefused
  PROVE  BackInv'
<1>1. /\ pc \in {"plan", "begin"} /\ at = 1 /\ at' = at /\ UNCHANGED flash
      /\ pc' \in Ahead \cup {"done"}
  BY DEF AllInv, Typed, AtIsIndex, Plan, begin_write, begin_write_fails, PlanRefused,
         Go, work, Start, Ahead
<1>2. \A m \in Batch' : m \in Mode
  BY DEF Batch, Typed, TypeOK, PlanOK
<1>3. BackSoFar'
  BY <1>1 DEF BackSoFar, Ahead
<1>4. ASSUME NEW m \in Batch'
      PROVE  /\ result'[m] \in {"untried", "refused"}
             /\ pc' = "done" => result'[m] = "refused"
  <2>1. CASE pc = "plan"
    BY <1>2, <2>1 DEF AllInv, WriteInv, Progress, Plan, PlanRefused, begin_write,
                      begin_write_fails, report
  <2>2. CASE pc = "begin"
    <3>1. Batch' = Batch /\ pc \in Ahead
      BY <2>2 DEF Batch, plan, Ahead, Plan, PlanRefused, begin_write, begin_write_fails, Go
    <3>2. result[m] = "untried"
      BY <1>1, <3>1 DEF AllInv, WriteInv, Progress, Batch
    <3> QED
      BY <1>2, <2>2, <3>1, <3>2 DEF begin_write, begin_write_fails, Go, report, RefuseAll, Start,
                                    Plan, PlanRefused
  <2> QED
    BY <1>1, <2>1, <2>2
<1>5. ResultsTrue'
  BY <1>4 DEF ResultsTrue
<1>6. Tried'
  BY <1>1, <1>4 DEF Tried, Ahead
<1> QED
  BY <1>3, <1>5, <1>6 DEF BackInv

LEMMA SelectBack ==
  ASSUME AllInv, BackInv, SaveFirst \/ Select
  PROVE  BackInv'
<1>1. /\ pc \in Ahead /\ pc \in Ahead \cup Sending /\ pc \notin {"plan", "done"}
      /\ UNCHANGED <<flash, plan, at>>
  BY DEF SaveFirst, Select, Ahead, Go, Fail, work
<1>2. OthersSame /\ Cur' = Cur
  BY <1>1, FlashKept, CurKept DEF OthersSame
<1>3. AsRead(Cur)'
  <2>1. at \in at..Len(order)
    BY <1>1, CurType DEF AllInv, Typed, TypeOK, PlanOK
  <2>2. AsRead(Cur)
    BY <1>1, <2>1 DEF AllInv, WriteInv, Progress, Cur
  <2> QED
    BY <1>1, <1>2, <2>2 DEF AsRead, flash, plan
<1>4. ASSUME NEW st \in {"select", "write"}, Go(st)
      PROVE  BackInv'
  <2>1. pc' \in Ahead \cup Sending /\ BackSoFar' /\ result' = result
    BY <1>4 DEF Go, report, Ahead, Sending, BackSoFar
  <2> QED
    BY <1>1, <1>2, <2>1, StaysBack
<1>5. ASSUME NEW v \in {"unsaved_first", "select_failed"}, Fail(v)
      PROVE  BackInv'
  BY <1>1, <1>2, <1>3, <1>5, FailVBack DEF Verdict, Failure, Refused, Broken
<1> QED
  BY <1>4, <1>5 DEF SaveFirst, Select

\* The calls that send the new bank and its pages.
LEMMA SendBack ==
  ASSUME AllInv, BackInv, Addressed, Write \/ Apply \/ Check \/ WritePage \/ LastApply
  PROVE  BackInv'
<1>1. pc \in Sending /\ pc \in Ahead \cup Sending /\ Cur \in Mode
  BY CurType DEF AllInv, Write, Apply, Check, WritePage, LastApply, Sending
<1>2. OthersSame
  <2>1. CASE Check
    BY <2>1 DEF Check, read_all_profiles, read_all_profiles_fails, flash, OthersSame, Same
  <2>2. CASE Write \/ Apply \/ WritePage \/ LastApply
    BY <1>1, <2>2, CallFacts, ProfileConfined, ApplyConfined, StreamConfined
       DEF AllInv, Write, Apply, WritePage, LastApply
  <2> QED
    BY <2>1, <2>2
<1>3. ASSUME pc' \in {"apply", "check", "page", "last_apply", "rb_write"},
             UNCHANGED <<plan, at, result>>
      PROVE  BackInv'
  <2>1. pc' \in Ahead \cup Sending /\ BackSoFar'
    BY <1>3 DEF Sending, BackSoFar
  <2> QED
    BY <1>1, <1>2, <1>3, <2>1, StaysBack
<1>4. ASSUME NEW v \in {"apply_failed", "readback_failed", "no_rollback"}, Fail(v)
      PROVE  BackInv'
  BY <1>1, <1>2, <1>4, FailVBack DEF Verdict, Failure, Broken
<1>5. CASE Succeed
  BY <1>1, <1>2, <1>5, SucceedBack
<1>6. CASE BankDone
  BY <1>3, <1>5, <1>6 DEF BankDone, report
<1>7. ASSUME NEW c, NEW t, Rollback(c, t)
      PROVE  BackInv'
  BY <1>3, <1>4, <1>7 DEF Rollback, report
<1> QED
  BY <1>3, <1>4, <1>5, <1>6, <1>7 DEF Write, Apply, Check, WritePage, LastApply, Go, work, report

\* A write that was answered put the image where it was meant to go.
LEMMA Landed ==
  ASSUME AllInv, pc \in Sending, ~Silent, NEW img, NEW z, write_full_profile(Cur, img, z)
  PROVE  bank'[Cur] = img /\ gone'[Cur] = z
<1>1. Cur \in Mode /\ bank \in [Mode -> {"old", "new", "alike", "torn"}] /\ gone \in [Mode -> SUBSET PageNo]
  BY CallFacts DEF AllInv, Typed, TypeOK, FlashOK
<1>2. selected = Cur /\ Land(Cur, img, z)
  BY DEF AllInv, WriteInv, SelectedWhileReached, write_full_profile, Answers
<1> QED
  BY <1>1, <1>2 DEF Land

LEMMA Applied ==
  ASSUME AllInv, pc \in Sending, send_apply
  PROVE  /\ Cur \in applied' /\ UNCHANGED <<bank, gone, page>>
BY DEF AllInv, WriteInv, SelectedWhileReached, send_apply, Answers

LEMMA RollbackBack ==
  ASSUME AllInv, BackInv, Addressed, ~Silent, RollbackWrite \/ RollbackApply \/ RollbackSave
  PROVE  BackInv'
<1>1. pc \in Undoing /\ pc \in Sending /\ pc \in Ahead \cup Sending /\ Cur \in Mode
  BY CurType DEF AllInv, RollbackWrite, RollbackApply, RollbackSave, Undoing, Sending
<1>2. OthersSame
  <2>1. CASE RollbackSave
    BY <2>1 DEF RollbackSave, flash, OthersSame, Same
  <2>2. CASE RollbackWrite \/ RollbackApply
    BY <1>1, <2>2, CallFacts, ProfileConfined, ApplyConfined
       DEF AllInv, RollbackWrite, RollbackApply
  <2> QED
    BY <2>1, <2>2
<1>3. CASE RollbackWrite
  <2>1. /\ pc' \in {"rb_apply", "rb_save"} /\ UNCHANGED <<plan, at, result>>
        /\ pc' = "rb_apply" => write_full_profile(Cur, "old", {})
    BY <1>3 DEF RollbackWrite, Go, work, report
  <2>2. BackSoFar'
    BY <1>1, <2>1, CurKept, Landed DEF BackSoFar
  <2>3. pc' \in Ahead \cup Sending
    BY <2>1 DEF Sending
  <2> QED
    BY <1>1, <1>2, <2>1, <2>2, <2>3, StaysBack
<1>4. CASE RollbackApply
  <2>1. bank[Cur] = "old" /\ bank' = bank /\ pc = "rb_apply"
    BY <1>4 DEF RollbackApply, BackInv, BackSoFar, send_apply, send_apply_fails
  <2>2. ASSUME NEW st \in {"restore", "rb_save"}, Go(st)
        PROVE  BackInv'
    <3>1. pc' = st /\ UNCHANGED <<plan, at, result>> /\ pc' \in Ahead \cup Sending
      BY <2>2 DEF Go, work, report, Sending
    <3>2. BackSoFar'
      BY <2>1, <3>1, CurKept DEF BackSoFar
    <3> QED
      BY <1>1, <1>2, <3>1, <3>2, StaysBack
  <2>3. ASSUME send_apply, todo = {}, Fail("rolled_back")
        PROVE  BackInv'
    <3>1. Cur \in applied' /\ UNCHANGED <<bank, gone, page>> /\ UNCHANGED <<plan, at>>
      BY <1>1, <2>3, Applied DEF Fail, work
    <3>2. gone[Cur] = {} /\ \A i \in olds[Cur] : page[Cur][i] = "old"
      <4>1. pc \in Busy /\ Astray = {} /\ pc \notin {"empty_apply", "save_macros"}
        BY <1>1, <2>1, <2>3 DEF Busy, Astray, Undoing, AllInv, MacroInv, CurrentKept
      <4> QED
        BY <4>1 DEF AllInv, MacroInv, CurrentKept
    <3>3. AsRead(Cur)'
      BY <2>1, <3>1, <3>2, CurKept DEF AsRead
    <3> QED
      BY <1>1, <1>2, <2>3, <3>3, FailVBack DEF Verdict, Failure, RolledBack
  <2> QED
    BY <1>4, <2>2, <2>3 DEF RollbackApply
<1>5. CASE RollbackSave
  <2>1. /\ pc' \in {"read_back", "save_macros"} /\ UNCHANGED <<plan, at>>
        /\ result' = FailedResult("rollback_failed")
    BY <1>5 DEF RollbackSave
  <2> QED
    BY <1>1, <1>2, <2>1, FailsBack DEF Verdict, Failure, RollbackFailed
<1> QED
  BY <1>3, <1>4, <1>5

LEMMA RestoreBack ==
  ASSUME AllInv, BackInv, Addressed, Restore \/ RestoreApply
  PROVE  BackInv'
<1>1. /\ pc \in {"restore", "restore_apply"} /\ pc \in Sending /\ pc \in Ahead \cup Sending
      /\ Cur \in Mode /\ bank[Cur] = "old"
  BY CurType DEF AllInv, Restore, RestoreApply, Sending, BackInv, BackSoFar
<1>2. OthersSame /\ bank' = bank
  BY <1>1, CallFacts, StreamConfined, ApplyConfined
     DEF AllInv, Restore, RestoreApply, write_macro_stream, write_macro_stream_fails,
         send_apply, send_apply_fails
<1>3. ASSUME pc' \in {"restore", "restore_apply", "empty"}, UNCHANGED <<plan, at, result>>
      PROVE  BackInv'
  <2>1. pc' \in Ahead \cup Sending /\ BackSoFar'
    BY <1>1, <1>2, <1>3, CurKept DEF Sending, BackSoFar
  <2> QED
    BY <1>1, <1>2, <1>3, <2>1, StaysBack
<1>4. CASE Restore
  BY <1>3, <1>4 DEF Restore, Restored, report
<1>5. CASE RestoreApply /\ Fail("rolled_back")
  <2>1. pc = "restore_apply" /\ send_apply /\ UNCHANGED <<plan, at>>
    BY <1>5 DEF RestoreApply, Fail, work
  <2>2. Cur \in applied' /\ UNCHANGED <<bank, gone, page>>
    BY <1>1, <2>1, Applied
  <2>3. Intact(Cur)
    BY <2>1, CurIntact DEF AllInv
  <2>4. AsRead(Cur)'
    BY <1>1, <2>1, <2>2, <2>3, CurKept DEF AsRead, Intact
  <2> QED
    BY <1>1, <1>2, <1>5, <2>4, FailVBack DEF Verdict, Failure, RolledBack
<1> QED
  BY <1>3, <1>4, <1>5 DEF RestoreApply, report

LEMMA EmptyBack ==
  ASSUME AllInv, BackInv, Addressed, ~Silent, Empty \/ EmptyApply
  PROVE  BackInv'
<1>1. /\ pc \in {"empty", "empty_apply"} /\ pc \in Sending /\ pc \in Ahead \cup Sending
      /\ Cur \in Mode
  BY CurType DEF AllInv, Empty, EmptyApply, Sending
<1>2. OthersSame
  BY <1>1, CallFacts, ProfileConfined, ApplyConfined DEF AllInv, Empty, EmptyApply
<1>3. ASSUME pc' = "save_macros", UNCHANGED <<plan, at>>,
             NEW v \in {"not_emptied", "emptied"}, result' = FailedResult(v),
             v = "emptied" => Emptied(Cur)'
      PROVE  BackInv'
  BY <1>1, <1>2, <1>3, FailsBack DEF Verdict, Failure, RollbackFailed
<1>4. CASE Empty
  <2>1. CASE write_full_profile(Cur, "old", lost) /\ Go("empty_apply")
    <3>1. /\ pc' = "empty_apply" /\ UNCHANGED <<plan, at, lost, result>>
          /\ pc' \in Ahead \cup Sending
      BY <2>1 DEF Go, work, report, Sending
    <3>2. BackSoFar'
      BY <1>1, <2>1, <3>1, CurKept, Landed DEF BackSoFar
    <3> QED
      BY <1>1, <1>2, <3>1, <3>2, StaysBack
  <2>2. CASE result' = FailedResult("not_emptied") /\ pc' = "save_macros" /\ UNCHANGED <<plan, work>>
    BY <1>3, <2>2 DEF work
  <2> QED
    BY <1>4, <2>1, <2>2 DEF Empty
<1>5. CASE EmptyApply
  <2>1. /\ pc = "empty_apply" /\ pc' = "save_macros" /\ UNCHANGED <<plan, at>>
        /\ UNCHANGED <<bank, gone, page>>
        /\ result' = FailedResult("emptied") \/ result' = FailedResult("not_emptied")
    BY <1>5 DEF EmptyApply, work, send_apply, send_apply_fails
  <2>2. /\ bank[Cur] = "old" /\ gone[Cur] = lost
        /\ \A i \in olds[Cur] \ lost : page[Cur][i] = "old"
    <3>1. Astray = lost /\ pc \in Busy
      BY <2>1 DEF Astray, Undoing, Busy, Sending
    <3> QED
      BY <2>1, <3>1 DEF BackInv, BackSoFar, AllInv, MacroInv, CurrentKept
  <2>3. Emptied(Cur)'
    BY <2>1, <2>2, CurKept DEF Emptied
  <2> QED
    BY <1>3, <2>1, <2>3
<1> QED
  BY <1>4, <1>5

\* The steps after the last call of the last bank.
LEMMA AfterBack ==
  ASSUME AllInv, BackInv, SaveMacros \/ ReadBack \/ end_write
  PROVE  BackInv'
<1>1. /\ pc \in {"save_macros", "read_back", "end"} /\ pc' \in {"read_back", "end", "done"}
      /\ UNCHANGED <<plan, flash>>
  BY DEF SaveMacros, ReadBack, end_write, read_all_profiles, read_all_profiles_fails
<1>2. Batch' = Batch /\ \A m \in Batch : m \in Mode
  BY <1>1, BatchIsModes DEF Batch, plan, AllInv, Typed, TypeOK
<1>3. \A m \in Mode : result'[m] = result[m] \/ result'[m] \in {"readback_differs", "readback_failed"}
  BY DEF SaveMacros, ReadBack, end_write
<1>4. \A m \in Mode : (AsRead(m) => AsRead(m)') /\ (Emptied(m) => Emptied(m)')
  BY <1>1 DEF AsRead, Emptied, flash, plan
<1>5. ResultsTrue'
  BY <1>2, <1>3, <1>4 DEF BackInv, ResultsTrue
<1>6. Tried' /\ BackSoFar'
  BY <1>1, <1>2, <1>3 DEF BackInv, Tried, BackSoFar, Ahead, Sending
<1> QED
  BY <1>5, <1>6 DEF BackInv

LEMMA ReplugBack ==
  ASSUME BackInv, UNCHANGED <<pc, plan, work, report, flash>>
  PROVE  BackInv'
<1>1. Cur' = Cur /\ Batch' = Batch /\ order' = order
      /\ UNCHANGED <<pc, at, lost, bank, gone, page, applied, result, olds>>
  BY DEF Cur, Batch, plan, work, report, flash
<1>2. BackSoFar'
  BY <1>1 DEF BackInv, BackSoFar
<1>3. Tried'
  BY <1>1 DEF BackInv, Tried
<1>4. ResultsTrue'
  BY <1>1 DEF BackInv, ResultsTrue, AsRead, Emptied
<1> QED
  BY <1>2, <1>3, <1>4 DEF BackInv

LEMMA NextBack ==
  ASSUME Addressed, ~Silent, AllInv, Typed', BackInv, [Next]_vars
  PROVE  BackInv'
<1>1. CASE Plan \/ PlanRefused \/ begin_write \/ begin_write_fails \/ SaveFirst \/ Select
  BY <1>1, StartBack, SelectBack
<1>2. CASE Write \/ Apply \/ Check \/ WritePage \/ LastApply
  BY <1>2, SendBack
<1>3. CASE RollbackWrite \/ RollbackApply \/ RollbackSave \/ Restore \/ RestoreApply
  BY <1>3, RollbackBack, RestoreBack
<1>4. CASE Empty \/ EmptyApply \/ SaveMacros \/ ReadBack \/ end_write
  BY <1>4, EmptyBack, AfterBack
<1>5. CASE Replug \/ UNCHANGED vars
  BY <1>5, ReplugBack DEF Replug, vars
<1> QED
  BY <1>1, <1>2, <1>3, <1>4, <1>5 DEF Next, Step, Finished

LEMMA BackCorrect == Addressed /\ ~Silent => (Spec => [](AllInv /\ BackInv))
<1> SUFFICES ASSUME Addressed, ~Silent PROVE Spec => [](AllInv /\ BackInv)
  OBVIOUS
<1>1. Init => AllInv /\ BackInv
  <2>1. Init => BackInv
    BY DEF Init, BackInv, BackSoFar, ResultsTrue, Tried, Batch, Ahead, Sending
  <2> QED
    BY <2>1, InitTyped, InitInv, InitMacro DEF AllInv
<1>2. AllInv /\ BackInv /\ [Next]_vars => (AllInv /\ BackInv)'
  BY NextTyped, NextInv, NextMacro, NextBack DEF AllInv
<1> QED
  BY <1>1, <1>2, PTL DEF Spec

\* A result that says the rollback worked leaves the bank and the macros it replaced as
\* they were read, on a pad that stores what it acknowledges.
THEOREM RolledBackHolds == Addressed /\ ~Silent => (Spec => []RolledBackIsRestored)
<1>1. BackInv => RolledBackIsRestored
  BY DEF BackInv, ResultsTrue, RolledBackIsRestored
<1> QED
  BY <1>1, BackCorrect, PTL

\* A descriptor on a page with other steps is always in a result that says so.
THEOREM DanglingHolds ==
  Addressed /\ (Silent => ReadsBack) => (Spec => []DanglingIsReported)
<1> SUFFICES ASSUME Addressed, Silent => ReadsBack PROVE Spec => []DanglingIsReported
  OBVIOUS
<1>1. Typed /\ MacroInv /\ ReadsBack => DanglingIsReported
  <2> SUFFICES ASSUME Typed, MacroInv, ReadsBack, NEW m \in Batch
               PROVE  ~Dangling(m)
    BY DEF DanglingIsReported
  <2>1. m \in Mode /\ puts[m] \in 0..MaxPages
    BY BatchIsModes DEF Typed, TypeOK, PlanOK
  <2>2. 1..puts[m] = {}
    BY <2>1 DEF MacroInv, PlanFacts
  <2>3. olds[m] = {}
    BY <2>1, <2>2 DEF MacroInv, OldFacts
  <2> QED
    BY <2>2, <2>3 DEF Dangling
<1>2. AllInv /\ BackInv => DanglingIsReported
  <2> SUFFICES ASSUME AllInv, BackInv, pc = "done", NEW m \in Batch, Dangling(m)
               PROVE  result[m] \in {"rollback_failed", "not_emptied", "no_rollback",
                                     "apply_failed", "readback_differs", "readback_failed"}
    BY DEF DanglingIsReported, Done
  <2>1. result[m] \in Verdict /\ result[m] # "untried"
    BY BatchIsModes DEF AllInv, Typed, TypeOK, ReportOK, BackInv, Tried
  <2>2. ~AsRead(m) /\ ~Emptied(m)
    BY DEF Dangling, AsRead, Emptied
  <2>3. result[m] \notin Refused \cup {"rolled_back", "select_failed", "emptied"}
    BY <2>2 DEF AllInv, WriteInv, RefusedAsRead, BackInv, ResultsTrue
  <2>4. result[m] # "success"
    BY DEF AllInv, WriteInv, SuccessSoFar, Dangling
  <2> QED
    BY <2>1, <2>3, <2>4 DEF Verdict, Failure, Refused, RolledBack, RollbackFailed, Broken
<1>3. CASE Silent
  <2>1. Typed /\ MacroInv => DanglingIsReported
    BY <1>1, <1>3
  <2>2. Spec => [](Typed /\ MacroInv)
    BY MacroCorrect
  <2> QED
    BY <2>1, <2>2, PTL
<1>4. CASE ~Silent
  <2>1. Spec => [](AllInv /\ BackInv)
    BY <1>4, BackCorrect
  <2> QED
    BY <1>2, <2>1, PTL
<1> QED
  BY <1>3, <1>4

-------------------------------------------------------------------------------
(***************************************************************************)
(* A success stands unless a later bank is undone: StandInv, which needs   *)
(* no Addressed.                                                           *)
(***************************************************************************)
LEMMA GoingUntried ==
  ASSUME Typed, UntriedAhead, pc \in Ahead \cup Sending
  PROVE  /\ result[Cur] = "untried" /\ Cur \in Batch
         /\ \A m \in Later : result[m] = "untried"
<1>1. pc \notin {"plan", "done"}
  BY DEF Sending, Ahead
<1>2. at \in 1..Len(order) /\ Len(order) \in Nat
  BY <1>1, CurType DEF Typed, TypeOK, PlanOK
<1>3. at \in at..Len(order) /\ \A k \in at + 1..Len(order) : k \in at..Len(order)
  BY <1>2
<1> QED
  BY <1>2, <1>3 DEF UntriedAhead, Cur, Batch, Later

\* A call made before the first failure reaches the bank it is for, or none.
LEMMA GoingConfined ==
  ASSUME Typed, StandInv, pc \in Going, Write \/ Apply \/ Check \/ WritePage \/ LastApply
  PROVE  OthersSame
<1>1. Reach => selected = Cur
  BY DEF StandInv, Underway, OwnSelected, Reach
<1>2. /\ bank \in [Mode -> {"old", "new", "alike", "torn"}]
      /\ gone \in [Mode -> SUBSET PageNo]
      /\ page \in [Mode -> [PageNo -> {"old", "new", "broken"}]]
  BY DEF Typed, TypeOK, FlashOK
<1>3. CASE Write
  <2>1. UNCHANGED page
    BY <1>3 DEF Write, write_full_profile, write_full_profile_fails
  <2>2. \/ UNCHANGED <<bank, gone, applied>>
        \/ Reach /\ (Land(Cur, "new", {}) \/ Land(Cur, "alike", {}) \/ Tear)
    BY <1>3 DEF Write, write_full_profile, write_full_profile_fails, Answers
  <2>3. CASE UNCHANGED <<bank, gone, applied>>
    BY <2>1, <2>3 DEF OthersSame, Same
  <2>4. CASE selected = Cur /\ (Land(Cur, "new", {}) \/ Land(Cur, "alike", {}) \/ Tear)
    <3>1. \A m \in Mode \ {Cur} : /\ bank'[m] = bank[m] /\ gone'[m] = gone[m]
                                  /\ m \in applied' <=> m \in applied
      BY <1>2, <2>4 DEF Land, Tear
    <3> QED
      BY <2>1, <3>1 DEF OthersSame, Same
  <2> QED
    BY <1>1, <2>2, <2>3, <2>4
<1>4. CASE Apply \/ LastApply
  <2>1. UNCHANGED <<bank, gone, page>>
    BY <1>4 DEF Apply, LastApply, send_apply, send_apply_fails
  <2>2. UNCHANGED applied \/ (Reach /\ applied' = applied \cup {selected})
    BY <1>4 DEF Apply, LastApply, send_apply, send_apply_fails, Answers
  <2>3. \A m \in Mode \ {Cur} : m \in applied' <=> m \in applied
    BY <1>1, <2>2
  <2> QED
    BY <2>1, <2>3 DEF OthersSame, Same
<1>5. CASE WritePage
  <2>1. UNCHANGED <<bank, gone>>
    BY <1>5 DEF WritePage, write_macro_stream, write_macro_stream_fails
  <2>2. UNCHANGED <<page, applied>> \/ SetPage(Cur, pg, "new") \/ SetPage(Cur, pg, "broken")
    BY <1>5 DEF WritePage, write_macro_stream, write_macro_stream_fails
  <2>3. \A m \in Mode \ {Cur} : page'[m] = page[m] /\ (m \in applied' <=> m \in applied)
    BY <1>2, <2>2 DEF SetPage
  <2> QED
    BY <2>1, <2>3 DEF OthersSame, Same
<1>6. CASE Check
  BY <1>6 DEF Check, read_all_profiles, read_all_profiles_fails, flash, OthersSame, Same
<1> QED
  BY <1>3, <1>4, <1>5, <1>6

\* The successes before the current bank, when the step leaves them alone.
LEMMA SuccessesKept ==
  ASSUME Typed, StandInv, pc \in Ahead \cup Going, OthersSame, UNCHANGED plan,
         pc' \notin {"end", "done"}, NEW m \in Batch, m # Cur,
         result[m] = "success", SuccessSoFar
  PROVE  AsSent(m)' /\ m \in applied' /\ \A i \in 1..puts'[m] : Sent(m, i)'
<1>1. pc \notin {"end", "done"} /\ m \in Mode
  BY BatchIsModes DEF Ahead, Going, Typed, TypeOK
<1>2. Same(m)
  BY <1>1 DEF OthersSame
<1> QED
  BY <1>1, <1>2 DEF SuccessSoFar, Same, Sent, plan

LEMMA StandStays ==
  ASSUME Typed, StandInv, pc \in Ahead \cup Going, pc' \in Going,
         UNCHANGED <<plan, at, result>>, OthersSame,
         session' \in {"held", "stale"}, session' = "held" => selected' = Cur, CurrentSoFar'
  PROVE  StandInv'
<1>1. PlanFacts' /\ Batch' = Batch /\ Cur' = Cur /\ order' = order
  BY PlanFactsKept DEF StandInv, plan, Batch, Cur
<1>2. pc \in Ahead \cup Sending /\ pc' \in Sending
  BY DEF Going, Sending
<1>3. Underway' /\ OwnSelected' /\ UntriedAhead'
  BY <1>1, <1>2 DEF StandInv, Underway, OwnSelected, UntriedAhead, Going
<1>4. CASE Undone
  <2>1. \E m \in Batch : result[m] \in RolledBack \cup RollbackFailed
    BY <1>4 DEF Undone, Ahead, Sending, Going
  <2>2. Undone'
    BY <1>1, <2>1 DEF Undone
  <2> QED
    BY <1>1, <1>3, <2>2 DEF StandInv
<1>5. CASE SuccessSoFar
  <2>1. result[Cur] = "untried"
    BY <1>2, GoingUntried DEF StandInv
  <2>2. pc' \notin {"end", "done"}
    BY DEF Going
  <2>3. SuccessSoFar'
    BY <1>1, <1>5, <2>1, <2>2, SuccessesKept DEF SuccessSoFar
  <2> QED
    BY <1>1, <1>3, <2>3 DEF StandInv
<1> QED
  BY <1>4, <1>5 DEF StandInv

\* Whatever the result of the bank is, the ones it leaves alone keep theirs.
LEMMA StandFails ==
  ASSUME Typed, StandInv, pc \in Ahead \cup Going, OthersSame, UNCHANGED <<plan, at>>,
         pc' = "read_back", NEW v, v # "success", result' = FailedResult(v)
  PROVE  StandInv'
<1>1. PlanFacts' /\ Batch' = Batch /\ pc \in Ahead \cup Sending /\ pc \notin {"plan", "done"}
  BY PlanFactsKept DEF StandInv, plan, Batch, Ahead, Sending, Going
<1>2. result[Cur] = "untried" /\ \A m \in Later : result[m] = "untried"
  BY <1>1, GoingUntried DEF StandInv
<1>3. \A m \in Batch : m \in Mode
  BY BatchIsModes DEF Typed, TypeOK
<1>4. \A m \in Mode : result'[m] = IF m = Cur THEN v
                                   ELSE IF m \in Later THEN "not_written" ELSE result[m]
  BY DEF FailedResult
<1>5. Underway' /\ OwnSelected' /\ UntriedAhead' /\ CurrentSoFar'
  BY DEF Underway, OwnSelected, UntriedAhead, CurrentSoFar, Going, Ahead, Sending
<1>6. CASE Undone
  <2>1. PICK m \in Batch : result[m] \in RolledBack \cup RollbackFailed
    BY <1>6 DEF Undone, Ahead, Sending, Going
  <2>2. m # Cur /\ m \notin Later
    BY <1>2, <2>1 DEF RolledBack, RollbackFailed
  <2>3. result'[m] = result[m]
    BY <1>3, <1>4, <2>2
  <2>4. Undone'
    BY <1>1, <2>1, <2>3 DEF Undone
  <2> QED
    BY <1>1, <1>5, <2>4 DEF StandInv
<1>7. CASE SuccessSoFar
  <2>1. ASSUME NEW m \in Batch, result'[m] = "success"
        PROVE  m # Cur /\ result[m] = "success"
    BY <1>3, <1>4, <2>1
  <2>2. SuccessSoFar'
    BY <1>1, <1>7, <2>1, SuccessesKept DEF SuccessSoFar
  <2> QED
    BY <1>1, <1>5, <2>2 DEF StandInv
<1> QED
  BY <1>6, <1>7 DEF StandInv

LEMMA StandRollback ==
  ASSUME Typed, StandInv, pc \in Going, OthersSame, NEW c, NEW t, Rollback(c, t)
  PROVE  StandInv'
<1>1. CASE Fail("no_rollback")
  BY <1>1, StandFails DEF Fail, work
<1>2. CASE pc' = "rb_write" /\ UNCHANGED <<plan, at, report>>
  <2>1. PlanFacts' /\ order' = order /\ at' = at /\ result' = result
    BY <1>2, PlanFactsKept DEF StandInv, plan, report
  <2>2. pc \in Sending /\ pc' \in Sending \ Going
    BY <1>2 DEF Going, Sending
  <2>3. UntriedAhead'
    BY <1>2, <2>1, <2>2 DEF StandInv, UntriedAhead
  <2>4. Underway' /\ OwnSelected' /\ CurrentSoFar' /\ Undone'
    BY <1>2, <2>2 DEF Underway, OwnSelected, CurrentSoFar, Undone, Going
  <2> QED
    BY <2>1, <2>3, <2>4 DEF StandInv
<1> QED
  BY <1>1, <1>2 DEF Rollback

LEMMA StandSucceeds ==
  ASSUME Typed, StandInv, pc \in Going, Succeed, OthersSame, session' \in {"held", "stale"},
         bank'[Cur] \in {"new", "alike"}, Cur \in applied',
         \A i \in 1..puts[Cur] : page'[Cur][i] = "new" \/ Silent
  PROVE  StandInv'
<1>1. pc \in Ahead \cup Sending /\ pc \notin {"plan", "done"}
  BY DEF Going, Sending
<1>2. pc' \notin {"plan", "begin", "end", "done"} \cup Sending
  BY DEF Succeed, Start, Sending
<1>3. PlanFacts' /\ Batch' = Batch /\ Cur \in Mode /\ order' = order /\ plan' = plan
  BY <1>1, PlanFactsKept, CurType DEF StandInv, plan, Batch, Succeed
<1>4. result' = [result EXCEPT ![Cur] = "success"] /\ result \in [Mode -> Verdict]
  BY DEF Succeed, Typed, TypeOK, ReportOK
<1>5. \A m \in Batch : m \in Mode
  BY BatchIsModes DEF Typed, TypeOK
<1>6. result[Cur] = "untried"
  BY <1>1, GoingUntried DEF StandInv
<1>7. Underway' /\ OwnSelected' /\ CurrentSoFar'
  BY <1>2 DEF Underway, OwnSelected, CurrentSoFar, Going, Sending
<1>8. UntriedAhead'
  <2>1. CASE at < Len(order)
    <3>1. at' = at + 1
      BY <2>1 DEF Succeed
    <3>2. ASSUME NEW k \in at + 1..Len(order) PROVE result'[order[k]] = "untried"
      <4>1. order[k] \in Mode \ {Cur} /\ k \in at..Len(order)
        BY <1>1, LaterIsOther DEF StandInv
      <4> QED
        BY <1>1, <1>4, <4>1 DEF StandInv, UntriedAhead
    <3>3. \A k \in at'..Len(order') : result'[order'[k]] = "untried"
      BY <1>3, <3>1, <3>2
    <3> QED
      BY <1>2, <3>3 DEF UntriedAhead
  <2>2. CASE ~(at < Len(order))
    BY <1>2, <2>2 DEF UntriedAhead, Succeed, Ahead
  <2> QED
    BY <2>1, <2>2
<1>9. CASE Undone
  <2>1. PICK m \in Batch : result[m] \in RolledBack \cup RollbackFailed
    BY <1>9 DEF Undone, Sending, Going
  <2>2. m # Cur /\ m \in Mode
    BY <1>5, <1>6, <2>1 DEF RolledBack, RollbackFailed
  <2>3. Undone'
    BY <1>3, <1>4, <2>1, <2>2 DEF Undone
  <2> QED
    BY <1>3, <1>7, <1>8, <2>3 DEF StandInv
<1>10. CASE SuccessSoFar
  <2>1. ASSUME NEW m \in Batch, result'[m] = "success"
        PROVE  AsSent(m)' /\ m \in applied' /\ \A i \in 1..puts'[m] : Sent(m, i)'
    <3>1. CASE m = Cur
      BY <1>3, <3>1 DEF plan, Sent
    <3>2. CASE m # Cur
      <4>1. result[m] = "success"
        BY <1>4, <1>5, <2>1, <3>2
      <4> QED
        BY <1>2, <1>3, <1>10, <3>2, <4>1, SuccessesKept
    <3> QED
      BY <3>1, <3>2
  <2>2. SuccessSoFar'
    BY <1>2, <1>3, <2>1 DEF SuccessSoFar
  <2> QED
    BY <1>3, <1>7, <1>8, <2>2 DEF StandInv
<1> QED
  BY <1>9, <1>10 DEF StandInv

LEMMA StandBankDone ==
  ASSUME Typed, StandInv, pc \in Going, BankDone, OthersSame, session' \in {"held", "stale"},
         session' = "held" => puts[Cur] = 0 \/ selected' = Cur,
         bank'[Cur] \in {"new", "alike"}, Cur \in applied'
  PROVE  StandInv'
<1>1. puts[Cur] \in Nat
  BY CurType DEF Typed, TypeOK, PlanOK, Going
<1>2. CASE puts[Cur] > 0
  <2>1. /\ pc' = "page" /\ pg' = 1 /\ UNCHANGED <<plan, at, result>>
        /\ puts' = puts /\ Cur' = Cur
    BY <1>2 DEF BankDone, report, plan, Cur
  <2>2. CurrentSoFar'
    BY <1>1, <1>2, <2>1 DEF CurrentSoFar
  <2>3. pc' \in Going /\ (session' = "held" => selected' = Cur)
    BY <1>1, <1>2, <2>1 DEF Going
  <2> QED
    BY <2>1, <2>2, <2>3, StandStays
<1>3. CASE ~(puts[Cur] > 0)
  <2>1. 1..puts[Cur] = {}
    BY <1>1, <1>3
  <2> QED
    BY <1>3, <2>1, StandSucceeds DEF BankDone
<1> QED
  BY <1>2, <1>3

LEMMA StandWrite ==
  ASSUME Typed, StandInv, Write
  PROVE  StandInv'
<1>1. pc \in Going /\ OthersSame
  BY GoingConfined DEF Write, Going
<1>2. CASE write_full_profile(Cur, "new", {}) /\ Go("apply")
  <2>1. session = "held" /\ session' = session /\ selected = Cur /\ selected' = selected
    BY <1>1, <1>2 DEF write_full_profile, Answers, Reach, StandInv, Underway, OwnSelected
  <2>2. UNCHANGED <<plan, at, result>> /\ pc' = "apply" /\ Cur' = Cur
    BY <1>2 DEF Go, work, report, plan, Cur
  <2>3. ReadsBack \/ bank'[Cur] = "new"
    <3>1. CASE ~ReadsBack
      <4>1. Land(Cur, "new", {})
        BY <1>2, <3>1 DEF write_full_profile
      <4>2. Cur \in Mode /\ bank \in [Mode -> {"old", "new", "alike", "torn"}]
        BY <1>1, CurType DEF Going, Typed, TypeOK, FlashOK
      <4> QED
        BY <2>1, <4>1, <4>2 DEF Land
    <3> QED
      BY <3>1
  <2>4. CurrentSoFar'
    BY <2>2, <2>3 DEF CurrentSoFar
  <2> QED
    BY <1>1, <2>1, <2>2, <2>4, StandStays DEF Going
<1>3. CASE write_full_profile_fails(Cur, "new", {}) /\ Rollback("write", {})
  BY <1>1, <1>3, StandRollback
<1> QED
  BY <1>2, <1>3 DEF Write

LEMMA StandApply ==
  ASSUME Typed, StandInv, Apply
  PROVE  StandInv'
<1>1. pc \in Going /\ OthersSame /\ pc = "apply"
  BY GoingConfined DEF Apply, Going
<1>2. CASE send_apply /\ IF ReadsBack THEN Go("check") ELSE BankDone
  <2>1. session = "held" /\ session' = session /\ selected = Cur /\ selected' = selected
    BY <1>1, <1>2 DEF send_apply, Answers, Reach, StandInv, Underway, OwnSelected
  <2>2. Cur \in applied' /\ bank' = bank
    BY <1>2, <2>1 DEF send_apply
  <2>3. CASE ReadsBack
    <3>1. UNCHANGED <<plan, at, result>> /\ pc' = "check" /\ Cur' = Cur
      BY <1>2, <2>3 DEF Go, work, report, plan, Cur
    <3>2. CurrentSoFar'
      BY <2>2, <2>3, <3>1 DEF CurrentSoFar
    <3> QED
      BY <1>1, <2>1, <3>1, <3>2, StandStays DEF Going
  <2>4. CASE ~ReadsBack
    <3>1. bank'[Cur] \in {"new", "alike"}
      BY <1>1, <2>2, <2>4 DEF StandInv, CurrentSoFar
    <3> QED
      BY <1>1, <1>2, <2>1, <2>2, <2>4, <3>1, StandBankDone
  <2> QED
    BY <2>3, <2>4
<1>3. CASE send_apply_fails /\ Fail("apply_failed")
  BY <1>1, <1>3, StandFails DEF Fail, work
<1> QED
  BY <1>2, <1>3 DEF Apply

LEMMA StandCheck ==
  ASSUME Typed, StandInv, Check
  PROVE  StandInv'
<1>1. pc \in Going /\ OthersSame /\ pc = "check"
  BY GoingConfined DEF Check, Going
<1>2. Cur \in applied /\ ReadsBack /\ Cur \in Mode
  BY <1>1, CurType DEF StandInv, CurrentSoFar
<1>3. CASE read_all_profiles /\ AsSent(Cur) /\ BankDone
  <2>1. session' \in {"held", "stale"}
    BY <1>1, <1>3 DEF read_all_profiles, StandInv, Underway
  <2>2. bank'[Cur] \in {"new", "alike"} /\ Cur \in applied'
    BY <1>2, <1>3 DEF read_all_profiles, flash
  <2>3. puts[Cur] = 0
    BY <1>2 DEF StandInv, PlanFacts, Typed, TypeOK, PlanOK
  <2> QED
    BY <1>1, <1>3, <2>1, <2>2, <2>3, StandBankDone
<1>4. CASE Rollback("readback", {})
  BY <1>1, <1>4, StandRollback
<1>5. CASE read_all_profiles_fails /\ Fail("readback_failed")
  BY <1>1, <1>5, StandFails DEF Fail, work
<1> QED
  BY <1>3, <1>4, <1>5 DEF Check

LEMMA StandPage ==
  ASSUME Typed, StandInv, WritePage
  PROVE  StandInv'
<1>1. pc \in Going /\ OthersSame /\ pc = "page" /\ Cur \in Mode
  BY GoingConfined, CurType DEF WritePage, Going
<1>2. AsSent(Cur) /\ pg \in 1..puts[Cur] /\ \A i \in 1..pg - 1 : Sent(Cur, i)
  BY <1>1 DEF StandInv, CurrentSoFar
<1>3. CASE write_macro_stream(Cur, pg, "new") /\ pg' = pg + 1
           /\ pc' = (IF pg < puts[Cur] THEN "page" ELSE "last_apply")
           /\ UNCHANGED <<plan, at, cause, todo, lost, report>>
  <2>1. session = "held" /\ session' = session /\ selected = Cur /\ selected' = selected
    BY <1>1, <1>3 DEF write_macro_stream, Answers, Reach, StandInv, Underway, OwnSelected
  <2>2. UNCHANGED <<plan, at, result, bank, puts>> /\ Cur' = Cur /\ pc' \in Going
    BY <1>3 DEF report, plan, Cur, write_macro_stream, Going
  <2>3. puts[Cur] \in 0..MaxPages /\ page \in [Mode -> [PageNo -> {"old", "new", "broken"}]]
    BY <1>1 DEF Typed, TypeOK, PlanOK, FlashOK
  <2>4. SetPage(Cur, pg, "new") \/ (Silent /\ SetPage(Cur, pg, "broken"))
    BY <1>3 DEF write_macro_stream
  <2>5. \A i \in 1..pg : page'[Cur][i] = "new" \/ Silent
    <3>1. CASE ~Silent
      <4>1. page'[Cur] = [page[Cur] EXCEPT ![pg] = "new"]
        BY <1>1, <2>3, <2>4, <3>1 DEF SetPage
      <4>2. pg \in PageNo /\ page[Cur] \in [PageNo -> {"old", "new", "broken"}]
        BY <1>1, <1>2, <2>3 DEF PageNo
      <4>3. page'[Cur][pg] = "new" /\ \A i \in PageNo \ {pg} : page'[Cur][i] = page[Cur][i]
        BY <4>1, <4>2
      <4>4. \A i \in 1..pg : i = pg \/ (i \in 1..pg - 1 /\ i \in PageNo \ {pg})
        BY <1>2, <2>3 DEF PageNo
      <4> QED
        BY <1>2, <4>3, <4>4 DEF Sent
    <3> QED
      BY <3>1
  <2>6. CurrentSoFar'
    <3>1. CASE pg < puts[Cur]
      <4>1. pg' \in 1..puts'[Cur'] /\ pg' - 1 = pg /\ pc' = "page"
        BY <1>2, <1>3, <2>2, <2>3, <3>1
      <4> QED
        BY <1>2, <2>2, <2>5, <4>1 DEF CurrentSoFar, Sent
    <3>2. CASE ~(pg < puts[Cur])
      <4>1. pg = puts[Cur] /\ pc' = "last_apply"
        BY <1>2, <1>3, <2>3, <3>2
      <4> QED
        BY <1>2, <2>2, <2>5, <4>1 DEF CurrentSoFar, Sent
    <3> QED
      BY <3>1, <3>2
  <2> QED
    BY <1>1, <2>1, <2>2, <2>6, StandStays
<1>4. CASE Rollback("pages", Touched)
  BY <1>1, <1>4, StandRollback
<1> QED
  BY <1>3, <1>4 DEF WritePage

LEMMA StandLastApply ==
  ASSUME Typed, StandInv, LastApply
  PROVE  StandInv'
<1>1. pc \in Going /\ OthersSame /\ pc = "last_apply"
  BY GoingConfined DEF LastApply, Going
<1>2. AsSent(Cur) /\ \A i \in 1..puts[Cur] : Sent(Cur, i)
  BY <1>1 DEF StandInv, CurrentSoFar
<1>3. CASE send_apply /\ Succeed
  <2>1. session = "held" /\ session' = session /\ selected = Cur
    BY <1>1, <1>3 DEF send_apply, Answers, Reach, StandInv, Underway, OwnSelected
  <2>2. Cur \in applied' /\ bank' = bank /\ page' = page
    BY <1>3, <2>1 DEF send_apply
  <2> QED
    BY <1>1, <1>2, <1>3, <2>1, <2>2, StandSucceeds DEF Sent
<1>4. CASE send_apply_fails /\ Fail("apply_failed")
  BY <1>1, <1>4, StandFails DEF Fail, work
<1> QED
  BY <1>3, <1>4 DEF LastApply

\* The stages of a bank that is being undone: the bank ends with a result that says so.
LEMMA StandUndoes ==
  ASSUME Typed, StandInv,
         \/ RollbackWrite \/ RollbackApply \/ RollbackSave \/ Restore \/ RestoreApply
         \/ Empty \/ EmptyApply
  PROVE  StandInv'
<1>1. pc \in Sending \ Going /\ UNCHANGED <<plan, at>>
  BY DEF RollbackWrite, RollbackApply, RollbackSave, Restore, RestoreApply, Empty, EmptyApply,
         Go, Fail, work, Sending, Going
<1>2. \/ pc' \in Sending \ Going /\ result' = result
      \/ /\ pc' \in {"save_macros", "read_back"}
         /\ \E v \in RolledBack \cup RollbackFailed : result' = FailedResult(v)
  BY DEF RollbackWrite, RollbackApply, RollbackSave, Restore, Restored, RestoreApply, Empty,
         EmptyApply, Go, Fail, work, report, Sending, Going, RolledBack, RollbackFailed
<1>3. PlanFacts' /\ order' = order /\ Batch' = Batch
  BY <1>1, PlanFactsKept DEF StandInv, plan, Batch
<1>4. pc' \notin Going \cup Ahead \cup {"plan"}
  BY <1>2 DEF Ahead, Sending, Going
<1>5. Underway' /\ OwnSelected' /\ CurrentSoFar'
  BY <1>4 DEF Underway, OwnSelected, CurrentSoFar, Going, Ahead
<1>6. CASE pc' \in Sending \ Going /\ result' = result
  <2>1. UntriedAhead'
    BY <1>1, <1>3, <1>4, <1>6 DEF StandInv, UntriedAhead, Ahead
  <2> QED
    BY <1>3, <1>5, <1>6, <2>1 DEF StandInv, Undone
<1>7. ASSUME pc' \in {"save_macros", "read_back"},
             NEW v \in RolledBack \cup RollbackFailed, result' = FailedResult(v)
      PROVE  StandInv'
  <2>1. Cur \in Batch /\ Cur \in Mode
    BY <1>1, GoingUntried, CurType DEF StandInv, Sending
  <2>2. result'[Cur] = v
    BY <1>7, <2>1 DEF FailedResult
  <2>3. UntriedAhead'
    BY <1>7 DEF UntriedAhead, Ahead, Sending
  <2> QED
    BY <1>3, <1>5, <2>1, <2>2, <2>3 DEF StandInv, Undone
<1> QED
  BY <1>2, <1>6, <1>7

LEMMA InitStand == Init => StandInv
<1> SUFFICES ASSUME Init PROVE StandInv
  OBVIOUS
<1>1. PlanFacts
  BY InitInv DEF WriteInv
<1>2. Underway /\ OwnSelected /\ CurrentSoFar /\ UntriedAhead
  BY DEF Init, Underway, OwnSelected, CurrentSoFar, UntriedAhead, Going, Ahead, Sending
<1>3. SuccessSoFar
  BY DEF Init, SuccessSoFar, Batch
<1> QED
  BY <1>1, <1>2, <1>3 DEF StandInv

\* The steps before the first call of a bank.
LEMMA StandPlan ==
  ASSUME Typed, Typed', StandInv, Plan
  PROVE  StandInv'
<1>1. pc = "plan" /\ pc' = "begin" /\ UNCHANGED <<work, report, flash, wire>>
  BY DEF Plan
<1>2. PlanFacts'
  <2>1. PICK s \in Orders : order' = s
    BY DEF Plan
  <2>2. order' \in Seq(Mode)
    BY DEF Typed, TypeOK, PlanOK
  <2>3. \A i, j \in 1..Len(order') : order'[i] = order'[j] => i = j
    BY <2>1, <2>2 DEF Orders
  <2>4. \A m \in Mode : puts'[m] > 0 => m \in edited' /\ ~ReadsBack
    BY DEF Plan
  <2> QED
    BY <2>3, <2>4 DEF PlanFacts
<1>3. \A m \in Mode : result'[m] = "untried"
  BY <1>1 DEF StandInv, UntriedAhead, report
<1>4. /\ \A k \in at'..Len(order') : order'[k] \in Mode
      /\ \A m \in Batch' : m \in Mode
  <2>1. \A k \in at'..Len(order') : order'[k] \in Mode
    BY <1>1 DEF Typed, TypeOK, PlanOK, AtIsIndex
  <2>2. \A m \in Batch' : m \in Mode
    BY DEF Batch, Typed, TypeOK, PlanOK
  <2> QED
    BY <2>1, <2>2
<1>5. Underway' /\ OwnSelected' /\ CurrentSoFar'
  BY <1>1 DEF Underway, OwnSelected, CurrentSoFar, Going
<1>6. UntriedAhead' /\ SuccessSoFar'
  BY <1>3, <1>4 DEF UntriedAhead, SuccessSoFar
<1> QED
  BY <1>2, <1>5, <1>6 DEF StandInv

LEMMA StandBegins ==
  ASSUME Typed, StandInv, PlanRefused \/ begin_write \/ begin_write_fails
  PROVE  StandInv'
<1>1. /\ pc \in {"plan", "begin"} /\ \A m \in Mode : result[m] = "untried"
      /\ UNCHANGED <<plan, work>>
  BY DEF StandInv, UntriedAhead, PlanRefused, begin_write, begin_write_fails, Go
<1>2. PlanFacts' /\ order' = order /\ at' = at /\ Batch' = Batch
  BY <1>1, PlanFactsKept DEF StandInv, plan, work, Batch
<1>3. \A m \in Batch : m \in Mode
  BY DEF Typed, TypeOK, PlanOK, Batch
<1>4. CASE begin_write
  <2>1. pc' \in {"select", "save_first"} /\ result' = result /\ session' = "held"
    BY <1>4 DEF begin_write, Go, Start, report
  <2>2. Underway' /\ OwnSelected' /\ CurrentSoFar'
    BY <2>1 DEF Underway, OwnSelected, CurrentSoFar, Going
  <2>3. SuccessSoFar'
    BY <1>1, <1>2, <1>3, <2>1 DEF SuccessSoFar
  <2>4. pc \in Ahead \cup Sending
    BY <1>4 DEF begin_write, Ahead
  <2>5. UntriedAhead'
    BY <1>2, <2>1, <2>4 DEF StandInv, UntriedAhead
  <2> QED
    BY <1>2, <2>2, <2>3, <2>5 DEF StandInv
<1>5. CASE PlanRefused \/ begin_write_fails
  <2>1. pc' = "done" /\ \A m \in Batch : result'[m] = "refused"
    BY <1>3, <1>5 DEF PlanRefused, begin_write_fails, RefuseAll
  <2>2. Underway' /\ OwnSelected' /\ CurrentSoFar' /\ UntriedAhead'
    BY <2>1 DEF Underway, OwnSelected, CurrentSoFar, UntriedAhead, Going, Ahead, Sending
  <2>3. SuccessSoFar'
    BY <1>2, <2>1 DEF SuccessSoFar
  <2> QED
    BY <1>2, <2>2, <2>3 DEF StandInv
<1> QED
  BY <1>4, <1>5

LEMMA StandSelect ==
  ASSUME Typed, StandInv, SaveFirst \/ Select
  PROVE  StandInv'
<1>1. /\ pc \in {"save_first", "select"} /\ pc \in Ahead /\ UNCHANGED flash
      /\ session \in {"held", "stale"}
  BY DEF SaveFirst, Select, Ahead, StandInv, Underway
<1>2. OthersSame
  BY <1>1 DEF flash, OthersSame, Same
<1>3. CASE SaveFirst /\ Go("select")
  <2>1. pc' = "select" /\ UNCHANGED <<plan, at, result, flash, session, puts, order>> /\ Cur' = Cur
    BY <1>1, <1>3 DEF SaveFirst, Go, work, report, wire, plan, Cur
  <2>2. PlanFacts' /\ Underway' /\ OwnSelected' /\ CurrentSoFar' /\ Batch' = Batch
    BY <1>1, <2>1, PlanFactsKept DEF StandInv, Underway, OwnSelected, CurrentSoFar, Going, Batch
  <2>3. pc \in Ahead \cup Sending /\ pc \notin Sending /\ pc \notin {"end", "done"}
    BY <1>1 DEF Ahead, Sending
  <2>4. UntriedAhead'
    BY <2>1, <2>3 DEF StandInv, UntriedAhead
  <2>5. CASE Undone
    <3>1. Undone'
      BY <2>1, <2>2, <2>3, <2>5 DEF Undone
    <3> QED
      BY <2>2, <2>4, <3>1 DEF StandInv
  <2>6. CASE SuccessSoFar
    <3>1. SuccessSoFar'
      BY <2>1, <2>2, <2>3, <2>6, FlashKept DEF SuccessSoFar, flash
    <3> QED
      BY <2>2, <2>4, <3>1 DEF StandInv
  <2> QED
    BY <2>5, <2>6 DEF StandInv
<1>4. CASE Select /\ Answers /\ selected' = Cur /\ Go("write")
  <2>1. /\ pc' = "write" /\ UNCHANGED <<plan, at, result, session>> /\ Cur' = Cur
        /\ selected' = Cur
    BY <1>4 DEF Go, work, report, plan, Cur, Answers
  <2>2. CurrentSoFar'
    BY <2>1 DEF CurrentSoFar
  <2> QED
    BY <1>1, <1>2, <2>1, <2>2, StandStays DEF Going
<1>5. CASE Fail("unsaved_first") \/ Fail("select_failed")
  BY <1>1, <1>2, <1>5, StandFails DEF Fail, work
<1> QED
  BY <1>3, <1>4, <1>5 DEF SaveFirst, Select

\* The steps after the last bank, which send nothing.
LEMMA StandEnds ==
  ASSUME Typed, StandInv, SaveMacros \/ ReadBack \/ end_write
  PROVE  StandInv'
<1>1. /\ pc \in {"save_macros", "read_back", "end"} /\ pc' \in {"read_back", "end", "done"}
      /\ UNCHANGED <<plan, flash>>
  BY DEF SaveMacros, ReadBack, end_write, read_all_profiles, read_all_profiles_fails
<1>2. PlanFacts' /\ Batch' = Batch /\ puts' = puts
  BY <1>1, PlanFactsKept DEF StandInv, plan, Batch
<1>3. Underway' /\ OwnSelected' /\ UntriedAhead' /\ CurrentSoFar'
  BY <1>1 DEF Underway, OwnSelected, UntriedAhead, CurrentSoFar, Going, Ahead, Sending
<1>4. \A m \in Batch : m \in Mode
  BY DEF Batch, Typed, TypeOK, PlanOK
<1>5. \A m \in Mode : \/ result'[m] = result[m]
                      \/ /\ result[m] = "success"
                         /\ result'[m] \in {"readback_differs", "readback_failed"}
  BY DEF SaveMacros, end_write, ReadBack, Checked, report
<1>6. CASE Undone
  <2>1. PICK m \in Batch : result[m] \in RolledBack \cup RollbackFailed
    BY <1>1, <1>6 DEF Undone, Sending
  <2>2. result'[m] = result[m]
    BY <1>4, <1>5, <2>1 DEF RolledBack, RollbackFailed
  <2>3. Undone'
    BY <1>2, <2>1, <2>2 DEF Undone
  <2> QED
    BY <1>2, <1>3, <2>3 DEF StandInv
<1>7. CASE SuccessSoFar
  <2>1. ASSUME NEW m \in Batch, result'[m] = "success"
        PROVE  /\ result[m] = "success"
               /\ pc' \in {"end", "done"} => \A i \in 1..puts[m] : page[m][i] = "new"
    <3>1. result[m] = "success" /\ m \in Mode
      BY <1>4, <1>5, <2>1
    <3>2. CASE ReadBack /\ m \in Checked
      <4>1. \A i \in 1..puts[m] : page[m][i] = "new"
        BY <2>1, <3>1, <3>2 DEF ReadBack
      <4> QED
        BY <3>1, <4>1
    <3>3. CASE ReadBack /\ m \notin Checked
      <4>1. m \notin edited
        BY <3>1, <3>3 DEF Checked
      <4>2. puts[m] \in Nat /\ ~(puts[m] > 0)
        BY <3>1, <4>1 DEF StandInv, PlanFacts, Typed, TypeOK, PlanOK
      <4>3. 1..puts[m] = {}
        BY <4>2
      <4> QED
        BY <3>1, <4>3
    <3>4. CASE SaveMacros
      BY <3>1, <3>4 DEF SaveMacros
    <3>5. CASE end_write
      <4>1. pc = "end"
        BY <3>5 DEF end_write
      <4> QED
        BY <1>7, <3>1, <4>1 DEF SuccessSoFar
    <3> QED
      BY <3>2, <3>3, <3>4, <3>5
  <2>2. bank' = bank /\ applied' = applied /\ page' = page
    BY <1>1 DEF flash
  <2>3. ASSUME NEW m \in Batch, result'[m] = "success"
        PROVE  /\ bank'[m] \in {"new", "alike"} /\ m \in applied'
               /\ pc' \in {"end", "done"} => \A i \in 1..puts'[m] : page'[m][i] = "new"
    BY <1>2, <1>7, <2>1, <2>2, <2>3 DEF SuccessSoFar
  <2>4. ASSUME NEW m \in Batch, result'[m] = "success", pc' \notin {"end", "done"}
        PROVE  \A i \in 1..puts'[m] : Sent(m, i)'
    <3>1. SaveMacros
      BY <2>4 DEF ReadBack, end_write
    <3>2. pc \notin {"end", "done"}
      BY <3>1 DEF SaveMacros
    <3>3. \A i \in 1..puts[m] : Sent(m, i)
      BY <1>7, <2>1, <2>4, <3>2 DEF SuccessSoFar
    <3> QED
      BY <1>2, <2>2, <3>3 DEF Sent
  <2>5. SuccessSoFar'
    BY <1>2, <2>3, <2>4 DEF SuccessSoFar
  <2> QED
    BY <1>2, <1>3, <2>5 DEF StandInv
<1> QED
  BY <1>6, <1>7 DEF StandInv

\* A replug leaves the job with a dead session, and the banks as they are.
LEMMA StandReplug ==
  ASSUME Typed, StandInv, Replug \/ UNCHANGED vars
  PROVE  StandInv'
<1>1. /\ UNCHANGED <<pc, plan, work, result, flash>>
      /\ \/ UNCHANGED <<session, selected>>
         \/ session' = (IF session = "held" THEN "stale" ELSE session)
  BY DEF Replug, vars, report, wire
<1>2. Cur' = Cur /\ Batch' = Batch /\ order' = order /\ at' = at /\ PlanFacts'
  BY <1>1, PlanFactsKept DEF StandInv, Cur, Batch, plan, work
<1>3. Underway' /\ OwnSelected' /\ UntriedAhead'
  BY <1>1, <1>2 DEF StandInv, Underway, OwnSelected, UntriedAhead
<1>4. CurrentSoFar'
  BY <1>1, <1>2, FlashKept DEF StandInv, CurrentSoFar, flash, plan, work, Sent
<1>5. Undone' <=> Undone
  BY <1>1, <1>2 DEF Undone
<1>6. SuccessSoFar => SuccessSoFar'
  BY <1>1, <1>2, FlashKept DEF SuccessSoFar, flash, plan
<1> QED
  BY <1>2, <1>3, <1>4, <1>5, <1>6 DEF StandInv

LEMMA NextStand == Typed /\ Typed' /\ StandInv /\ [Next]_vars => StandInv'
<1> SUFFICES ASSUME Typed, Typed', StandInv, [Next]_vars PROVE StandInv'
  OBVIOUS
<1>1. CASE Plan \/ PlanRefused \/ begin_write \/ begin_write_fails \/ SaveFirst \/ Select
  BY <1>1, StandPlan, StandBegins, StandSelect
<1>2. CASE Write \/ Apply \/ Check \/ WritePage \/ LastApply
  BY <1>2, StandWrite, StandApply, StandCheck, StandPage, StandLastApply
<1>3. CASE \/ RollbackWrite \/ RollbackApply \/ RollbackSave \/ Restore \/ RestoreApply
           \/ Empty \/ EmptyApply
  BY <1>3, StandUndoes
<1>4. CASE SaveMacros \/ ReadBack \/ end_write
  BY <1>4, StandEnds
<1>5. CASE Replug \/ UNCHANGED vars
  BY <1>5, StandReplug
<1> QED
  BY <1>1, <1>2, <1>3, <1>4, <1>5 DEF Next, Step, Finished

LEMMA StandCorrect == Spec => [](Typed /\ StandInv)
<1>1. Init => Typed /\ StandInv
  BY InitTyped, InitStand
<1>2. Typed /\ StandInv /\ [Next]_vars => (Typed /\ StandInv)'
  BY NextTyped, NextStand
<1> QED
  BY <1>1, <1>2, PTL DEF Spec

\* In a run that undid no bank, a job that reports success has its bank and every step
\* page on the pad, for any modes and pages, and on any pad: one that corrupts what it
\* acknowledges, that is replugged at any call, or that a read-back leaves on another bank.
THEOREM SuccessStandsHolds == Spec => []SuccessStandsUnlessUndone
<1>1. Typed /\ StandInv => SuccessStandsUnlessUndone
  <2> SUFFICES ASSUME Typed, StandInv, pc = "done",
                      \A k \in Batch : result[k] \notin RolledBack \cup RollbackFailed,
                      NEW m \in Batch, result[m] = "success"
               PROVE  Whole(m)
    BY DEF SuccessStandsUnlessUndone, Done
  <2>1. SuccessSoFar
    BY DEF StandInv, Undone, Sending
  <2> QED
    BY <2>1 DEF SuccessSoFar, Whole
<1> QED
  BY <1>1, StandCorrect, PTL

\* No image goes to another bank than its own, but for the two the undoing sends with no
\* slot select: nothing else, the read-backs and the replugs included, can make it stray.
THEOREM OnlyUndoingStraysHolds == Spec => OnlyUndoingStrays
<1>1. Typed /\ StandInv /\ [Next]_vars =>
        [\A m \in Mode : (bank'[m] # bank[m] \/ page'[m] # page[m]) =>
           m = Cur \/ pc \in {"rb_write", "empty"}]_vars
  <2> SUFFICES ASSUME Typed, StandInv, [Next]_vars, pc \notin {"rb_write", "empty"},
                      NEW m \in Mode, m # Cur
               PROVE  bank'[m] = bank[m] /\ page'[m] = page[m]
    OBVIOUS
  <2>1. CASE UNCHANGED vars \/ Plan \/ PlanRefused \/ begin_write \/ begin_write_fails
             \/ SaveFirst
    BY <2>1 DEF vars, flash, Plan, PlanRefused, begin_write, begin_write_fails, SaveFirst
  <2>2. CASE Select \/ RollbackSave \/ SaveMacros \/ end_write \/ Replug
    BY <2>2 DEF flash, Select, RollbackSave, SaveMacros, end_write, Replug
  <2>3. CASE ReadBack
    BY <2>3 DEF flash, ReadBack, read_all_profiles, read_all_profiles_fails
  <2>4. CASE Write \/ Apply \/ Check \/ WritePage \/ LastApply
    <3>1. pc \in Going
      BY <2>4 DEF Write, Apply, Check, WritePage, LastApply, Going
    <3> QED
      BY <2>4, <3>1, GoingConfined DEF OthersSame, Same
  <2>5. CASE RollbackApply \/ RestoreApply \/ EmptyApply
    BY <2>5 DEF RollbackApply, RestoreApply, EmptyApply, send_apply, send_apply_fails
  <2>6. CASE Restore
    <3>1. bank' = bank
      BY <2>6 DEF Restore, write_macro_stream, write_macro_stream_fails
    <3>2. \E i : page' = page \/ SetPage(Cur, i, "old") \/ SetPage(Cur, i, "broken")
      BY <2>6 DEF Restore, write_macro_stream, write_macro_stream_fails
    <3>3. page'[m] = page[m]
      BY <3>2 DEF SetPage, Typed, TypeOK, FlashOK
    <3> QED
      BY <3>1, <3>3
  <2>7. ~(RollbackWrite \/ Empty)
    BY DEF RollbackWrite, Empty
  <2> QED
    BY <2>1, <2>2, <2>3, <2>4, <2>5, <2>6, <2>7 DEF Next, Step, Finished
<1> QED
  BY <1>1, StandCorrect, PTL DEF Spec, OnlyUndoingStrays

===============================================================================
