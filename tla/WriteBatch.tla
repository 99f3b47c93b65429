------------------------------ MODULE WriteBatch ------------------------------
(***************************************************************************)
(* The write stage of ProfileWriteOrchestrator::write_slots, one device    *)
(* call per step, over a pad that may fail, lose an answer or be replugged *)
(* at any call.                                                            *)
(*                                                                         *)
(* A plan names the dirty banks in the order their first job appears.      *)
(* Each bank goes out as slot select, the bank image, APPLY; then the step *)
(* page of each macro put, then one more APPLY.  What fails is undone as   *)
(* service/rollback.rs and orchestrator/pages.rs say.  After the last bank *)
(* the banks with macro edits are read back, and end_write closes the job. *)
(*                                                                         *)
(* Data is abstracted to what the promises tell apart: an image or a page  *)
(* is as read ("old"), as sent ("new") or neither ("torn", "broken").  An  *)
(* image that is "alike" decodes as the one sent and has other bytes where *)
(* nothing is decoded, which no read-back tells.                           *)
(***************************************************************************)
EXTENDS Naturals, Sequences, FiniteSets

CONSTANTS
  Mode,        \* the modes of the model; each has one bank
  Slide,       \* the mode the slide switch shows, which the pad runs in
  Via,         \* the mode the pad is flipped to, when NeedsFlip
  NeedsFlip,   \* the config port of Slide takes no writes (write_via)
  ReadsBack,   \* the model reads every bank write back (read_back_writes)
  Validated,   \* someone checked the model on a real pad
  Silent,      \* the pad may acknowledge a chunk and store it corrupted
  MaxPages,    \* the most macro puts in one bank
  MaxReplugs   \* how often the cable may be pulled and pushed in one run

ASSUME WriteBatchAssumption ==
  /\ IsFiniteSet(Mode)
  /\ Slide \in Mode /\ Via \in Mode
  /\ NeedsFlip \in BOOLEAN /\ ReadsBack \in BOOLEAN
  /\ Validated \in BOOLEAN /\ Silent \in BOOLEAN
  /\ MaxPages \in Nat /\ MaxReplugs \in Nat

VARIABLES
  pc,        \* the device call the orchestrator makes next
  order,     \* the dirty banks, in the order they go out
  active,    \* the banks with was_active: a target slot held a profile
  puts,      \* puts[m]: how many step pages follow the bank of m
  olds,      \* olds[m]: the pages of m that replace a macro
  edited,    \* the banks with macro edits, which read_back checks
  at,        \* the index in order of the bank being written
  pg,        \* the page of that bank being written
  cause,     \* why attempt_rollback runs: "write", "readback" or "pages"
  todo,      \* the touched replaced pages whose old steps still go back
  lost,      \* the touched replaced pages whose old steps did not go back
  result,    \* result[m]: what the bank's WriteResult says
  files,     \* the backups saved: <<m, 0>> a bank, <<m, i>> the macro of page i
  unsaved,   \* the backups whose message says that they could not be saved
  advice,    \* the results tell the user to unplug the pad: end_write failed
  session,   \* the held session: "none", "held" or "stale" after a replug
  bank,      \* the image in each bank of the pad
  gone,      \* gone[m]: the macro descriptors zeroed in that image
  page,      \* the step pages of the pad
  applied,   \* the banks with nothing written since their last APPLY
  selected,  \* the bank the last slot select picked
  flipped,   \* the pad runs in Via instead of Slide
  replugs    \* how often the cable was pulled so far

plan == <<order, active, puts, olds, edited>>
work == <<at, pg, cause, todo, lost>>
report == <<result, files, unsaved, advice>>
flash == <<bank, gone, page, applied>>
wire == <<session, selected, flipped, replugs>>
vars == <<pc, plan, work, report, flash, wire>>

PageNo == 1..MaxPages

(***************************************************************************)
(* What a bank's result says.  The first two are not failures.             *)
(***************************************************************************)
Refused == {"refused", "unsaved_first", "not_written"}
RolledBack == {"rolled_back"}
RollbackFailed == {"rollback_failed", "emptied", "not_emptied"}
Broken == {"select_failed", "no_rollback", "apply_failed", "readback_differs",
           "readback_failed"}
Failure == Refused \cup RolledBack \cup RollbackFailed \cup Broken
Verdict == {"untried", "success"} \cup Failure

Stage == {"plan", "begin", "save_first", "select", "write", "apply", "check",
          "page", "last_apply", "rb_write", "rb_apply", "rb_save", "restore",
          "restore_apply", "empty", "empty_apply", "save_macros", "read_back",
          "end", "done"}

PlanOK ==
  /\ order \in Seq(Mode) /\ active \subseteq Mode /\ edited \subseteq Mode
  /\ puts \in [Mode -> 0..MaxPages]
  /\ olds \in [Mode -> SUBSET PageNo]

WorkOK ==
  /\ at \in Nat /\ pg \in Nat
  /\ cause \in {"write", "readback", "pages"}
  /\ todo \subseteq PageNo /\ lost \subseteq PageNo

ReportOK ==
  /\ result \in [Mode -> Verdict]
  /\ files \subseteq Mode \X (0..MaxPages)
  /\ unsaved \subseteq Mode \X (0..MaxPages)
  /\ advice \in BOOLEAN

FlashOK ==
  /\ bank \in [Mode -> {"old", "new", "alike", "torn"}]
  /\ gone \in [Mode -> SUBSET PageNo]
  /\ page \in [Mode -> [PageNo -> {"old", "new", "broken"}]]
  /\ applied \subseteq Mode

WireOK ==
  /\ session \in {"none", "held", "stale"}
  /\ selected \in Mode
  /\ flipped \in BOOLEAN
  /\ replugs \in 0..MaxReplugs

TypeOK == pc \in Stage /\ PlanOK /\ WorkOK /\ ReportOK /\ FlashOK /\ WireOK

Init ==
  /\ pc = "plan"
  /\ order = <<>> /\ active = {} /\ edited = {}
  /\ puts = [m \in Mode |-> 0]
  /\ olds = [m \in Mode |-> {}]
  /\ at = 1 /\ pg = 1 /\ cause = "write" /\ todo = {} /\ lost = {}
  /\ result = [m \in Mode |-> "untried"]
  /\ files = {} /\ unsaved = {} /\ advice = FALSE
  /\ session = "none"
  /\ bank = [m \in Mode |-> "old"]
  /\ gone = [m \in Mode |-> {}]
  /\ page = [m \in Mode |-> [i \in PageNo |-> "old"]]
  /\ applied = Mode
  /\ selected = Slide
  /\ flipped = FALSE
  /\ replugs = 0

-------------------------------------------------------------------------------
(***************************************************************************)
(* The device calls.  A call that answers ran on the held session or on a  *)
(* fresh one, which hidraw_write::open refuses in a mode that takes no     *)
(* writes.  A call that fails drops the held session, whether or not the   *)
(* pad acted on what was sent.                                             *)
(***************************************************************************)
Here == IF flipped THEN Via ELSE Slide

Reach == \/ session = "held"
         \/ session = "none" /\ (NeedsFlip => flipped)

Answers == Reach /\ UNCHANGED <<session, flipped, replugs>>
Fails == session' = "none" /\ UNCHANGED <<flipped, replugs>>

\* Every chunk of image img of bank m, descriptors z zeroed, reached the pad.  A
\* write packet names no bank: the image goes to the selected one, or is ignored.
Land(m, img, z) ==
  IF selected = m
  THEN /\ bank' = [bank EXCEPT ![m] = img]
       /\ gone' = [gone EXCEPT ![m] = z]
       /\ applied' = applied \ {m}
  ELSE \/ UNCHANGED <<bank, gone, applied>>
       \/ /\ bank' = [bank EXCEPT ![selected] = "torn"]
          /\ applied' = applied \ {selected}
          /\ UNCHANGED gone

\* Some chunks reached the pad, or one was stored corrupted, and the image decodes
\* otherwise or not at all.
Tear ==
  /\ bank' = [bank EXCEPT ![selected] = "torn"]
  /\ applied' = applied \ {selected}
  /\ UNCHANGED gone

write_full_profile(m, img, z) ==
  /\ Answers /\ UNCHANGED <<page, selected>>
  /\ \/ Land(m, img, z)
     \/ Silent /\ ReadsBack /\ (Tear \/ (img = "new" /\ Land(m, "alike", z)))

write_full_profile_fails(m, img, z) ==
  /\ Fails /\ UNCHANGED <<page, selected>>
  /\ \/ Reach /\ (Land(m, img, z) \/ Tear)
     \/ UNCHANGED <<bank, gone, applied>>

send_apply ==
  /\ Answers /\ UNCHANGED <<bank, gone, page, selected>>
  /\ applied' = applied \cup {selected}

send_apply_fails ==
  /\ Fails /\ UNCHANGED <<bank, gone, page, selected>>
  /\ \/ Reach /\ applied' = applied \cup {selected}
     \/ UNCHANGED applied

\* The page is erased first, so a write that stops half way leaves it broken.
SetPage(m, i, steps) ==
  /\ page' = [page EXCEPT ![m] = [@ EXCEPT ![i] = steps]]
  /\ applied' = applied \ {m}

write_macro_stream(m, i, steps) ==
  /\ Answers /\ UNCHANGED <<bank, gone, selected>>
  /\ SetPage(m, i, steps) \/ (Silent /\ SetPage(m, i, "broken"))

write_macro_stream_fails(m, i, steps) ==
  /\ Fails /\ UNCHANGED <<bank, gone, selected>>
  /\ \/ Reach /\ (SetPage(m, i, steps) \/ SetPage(m, i, "broken"))
     \/ UNCHANGED <<page, applied>>

\* A read walks every bank and then selects the one the pad runs in.  It opens its
\* own session in any mode when none is held.
read_all_profiles ==
  /\ session # "stale"
  /\ selected' = Here
  /\ UNCHANGED <<session, flipped, replugs, flash>>

read_all_profiles_fails ==
  /\ Fails /\ UNCHANGED flash
  /\ \/ session # "stale" /\ selected' \in Mode
     \/ UNCHANGED selected

-------------------------------------------------------------------------------
(***************************************************************************)
(* From one bank to the next.                                              *)
(***************************************************************************)
Cur == order[at]
Batch == {order[k] : k \in 1..Len(order)}
Later == {order[k] : k \in at + 1..Len(order)}

\* Bank m decodes as what was sent to it.
AsSent(m) == bank[m] \in {"new", "alike"}

\* Mutant: a bank goes out with no slot select of its own.
StartUnselected == IF Validated THEN "write" ELSE "save_first"

Start == IF Validated THEN "select" ELSE "save_first"

\* write_bank returned a success: the next bank's turn, or the read-back's.
Succeed ==
  /\ result' = [result EXCEPT ![Cur] = "success"]
  /\ IF at < Len(order) THEN at' = at + 1 /\ pc' = Start
                        ELSE at' = at /\ pc' = "read_back"
  /\ UNCHANGED <<plan, pg, cause, todo, lost, files, unsaved, advice>>

\* Mutant: take(i) for take(i + 1).
TouchedBeforeOnly == {i \in olds[Cur] : i < pg}

\* The pages of the bank that replace a macro and were touched, the failed one too.
Touched == {i \in olds[Cur] : i <= pg}

\* write_bank returned a failure: the banks after it are not tried.
FailedResult(v) == [m \in Mode |-> IF m = Cur THEN v
                                   ELSE IF m \in Later THEN "not_written"
                                   ELSE result[m]]

\* Mutant: stopped is never set, so the banks after a failure go out.
FailGoesOn(v) ==
  /\ result' = FailedResult(v)
  /\ IF at < Len(order) THEN at' = at + 1 /\ pc' = Start
                        ELSE at' = at /\ pc' = "read_back"
  /\ UNCHANGED <<plan, pg, cause, todo, lost, files, unsaved, advice>>

Fail(v) ==
  /\ result' = FailedResult(v)
  /\ pc' = "read_back"
  /\ UNCHANGED <<plan, work, files, unsaved, advice>>

\* On to the call at stage s of the same bank.
Go(s) == pc' = s /\ UNCHANGED <<plan, work, report>>

\* The bank is on the pad and applied: its pages, if it has puts, or the next bank.
BankDone ==
  IF puts[Cur] > 0
  THEN pc' = "page" /\ pg' = 1 /\ UNCHANGED <<plan, at, cause, todo, lost, report>>
  ELSE Succeed

\* attempt_rollback is called because of c, with the replaced pages t touched so far.
\* A bank none of whose target slots held a profile is left as it is.
Rollback(c, t) ==
  IF Cur \in active \/ c = "pages"
  THEN /\ pc' = "rb_write" /\ cause' = c /\ todo' = t /\ lost' = {}
       /\ UNCHANGED <<plan, at, pg, report>>
  ELSE Fail("no_rollback")

-------------------------------------------------------------------------------
(***************************************************************************)
(* plan: one read, then every job is folded into its bank.  The orders it  *)
(* can produce are the injective sequences of dirty banks; a page replaces *)
(* a macro only in a slot that held a profile; a model that reads its      *)
(* writes back keeps its steps in the image and has no pages.              *)
(***************************************************************************)
Orders == {s \in UNION {[1..n -> Mode] : n \in 1..Cardinality(Mode)} :
             \A i, j \in DOMAIN s : s[i] = s[j] => i = j}

Plan ==
  /\ pc = "plan"
  /\ \E s \in Orders :
       LET dirty == {s[k] : k \in DOMAIN s} IN
       /\ order' = s
       /\ active' \in SUBSET dirty
       /\ edited' \in SUBSET dirty
       /\ puts' \in [Mode -> 0..MaxPages]
       /\ \A m \in Mode : puts'[m] > 0 => m \in edited' /\ ~ReadsBack
       /\ olds' \in [Mode -> SUBSET PageNo]
       /\ \A m \in Mode : olds'[m] \subseteq 1..puts'[m] /\ (olds'[m] # {} => m \in active')
  /\ pc' = "begin"
  /\ UNCHANGED <<work, report, flash, wire>>

\* A job is invalid or declined, or the read fails: nothing is sent.
PlanRefused ==
  /\ pc = "plan"
  /\ pc' = "done"
  /\ result' = [m \in Mode |-> "refused"]
  /\ UNCHANGED <<plan, work, files, unsaved, advice, flash, wire>>

begin_write ==
  /\ pc = "begin"
  /\ session' = "held"
  /\ flipped' = NeedsFlip
  /\ selected' = IF NeedsFlip THEN Via ELSE selected
  /\ Go(Start)
  /\ UNCHANGED <<flash, replugs>>

RefuseAll == [m \in Mode |-> IF m \in Batch THEN "refused" ELSE result[m]]

\* The pad cannot be opened, or does not come back after the flip (the message then
\* says to unplug it), or comes back but cannot be opened again.
begin_write_fails ==
  /\ pc = "begin" /\ pc' = "done"
  /\ result' = RefuseAll
  /\ \/ UNCHANGED <<advice, flipped, selected>>
     \/ NeedsFlip /\ advice' = TRUE /\ UNCHANGED <<flipped, selected>>
     \/ NeedsFlip /\ advice' \in BOOLEAN /\ flipped' = TRUE /\ selected' = Via
  /\ UNCHANGED <<plan, work, files, unsaved, flash, session, replugs>>

-------------------------------------------------------------------------------
(***************************************************************************)
(* write: slot select, the bank, APPLY, and the read-back of the model.    *)
(***************************************************************************)
\* An unvalidated model's bank is saved first, or nothing of it is written.
SaveFirst ==
  /\ pc = "save_first"
  /\ \/ Go("select")
     \/ Fail("unsaved_first")
  /\ UNCHANGED <<flash, wire>>

\* Mutant: the error of the slot select is dropped.
SelectAnyway ==
  /\ pc = "select" /\ Go("write")
  /\ \/ Answers /\ selected' = Cur
     \/ Fails /\ ((Reach /\ selected' = Cur) \/ UNCHANGED selected)
  /\ UNCHANGED flash

Select ==
  /\ pc = "select"
  /\ \/ Answers /\ selected' = Cur /\ Go("write")
     \/ /\ Fails /\ Fail("select_failed")
        /\ (Reach /\ selected' = Cur) \/ UNCHANGED selected
  /\ UNCHANGED flash

Write ==
  /\ pc = "write"
  /\ \/ write_full_profile(Cur, "new", {}) /\ Go("apply")
     \/ write_full_profile_fails(Cur, "new", {}) /\ Rollback("write", {})

Apply ==
  /\ pc = "apply"
  /\ \/ send_apply /\ IF ReadsBack THEN Go("check") ELSE BankDone
     \/ send_apply_fails /\ Fail("apply_failed")

\* Mutant: the read-back only has to answer.
CheckAnswers ==
  /\ pc = "check"
  /\ \/ read_all_profiles /\ BankDone
     \/ read_all_profiles_fails /\ Fail("readback_failed")

\* read_back_slot compares the profile and the macros of every slot, decoded: what is
\* alike passes.
Check ==
  /\ pc = "check"
  /\ \/ /\ read_all_profiles
        /\ IF AsSent(Cur) THEN BankDone ELSE Rollback("readback", {})
     \/ read_all_profiles_fails /\ Fail("readback_failed")

-------------------------------------------------------------------------------
(***************************************************************************)
(* write_bank: the pages after the bank.                                   *)
(***************************************************************************)
WritePage ==
  /\ pc = "page"
  /\ \/ /\ write_macro_stream(Cur, pg, "new")
        /\ pg' = pg + 1
        /\ pc' = IF pg < puts[Cur] THEN "page" ELSE "last_apply"
        /\ UNCHANGED <<plan, at, cause, todo, lost, report>>
     \/ /\ write_macro_stream_fails(Cur, pg, "new")
        /\ Rollback("pages", Touched)

LastApply ==
  /\ pc = "last_apply"
  /\ \/ send_apply /\ Succeed
     \/ send_apply_fails /\ Fail("apply_failed")

-------------------------------------------------------------------------------
(***************************************************************************)
(* attempt_rollback: the bank as read goes back, with no slot select.      *)
(***************************************************************************)
RollbackWrite ==
  /\ pc = "rb_write"
  /\ \/ write_full_profile(Cur, "old", {}) /\ Go("rb_apply")
     \/ write_full_profile_fails(Cur, "old", {}) /\ Go("rb_save")

RollbackApply ==
  /\ pc = "rb_apply"
  /\ \/ send_apply /\ IF todo = {} THEN Fail("rolled_back") ELSE Go("restore")
     \/ send_apply_fails /\ Go("rb_save")

\* Mutant: a file that cannot be made is passed over in silence.
SaveQuietly(want) ==
  \E made \in SUBSET want : files' = files \cup made /\ UNCHANGED unsaved

\* Saves each backup of want whose file can be made; the message names the others.
Save(want) ==
  \E made \in SUBSET want :
    files' = files \cup made /\ unsaved' = unsaved \cup (want \ made)

\* The restore failed: the bank goes to a file, and so do the old macros.
RollbackSave ==
  /\ pc = "rb_save"
  /\ Save({<<Cur, 0>>})
  /\ result' = FailedResult("rollback_failed")
  /\ lost' = todo
  /\ pc' = IF todo = {} THEN "read_back" ELSE "save_macros"
  /\ UNCHANGED <<plan, at, pg, cause, todo, advice, flash, wire>>

-------------------------------------------------------------------------------
(***************************************************************************)
(* roll_back_pages, after the bank went back: the old steps of the touched *)
(* replaced pages, lowest first.                                           *)
(***************************************************************************)
\* Mutant: the streams that could not go back are not looked at.
RestoredAlways == "restore_apply"

\* The call after the last old stream.
Restored == IF lost' = {} THEN "restore_apply" ELSE "empty"

Restore ==
  /\ pc = "restore"
  /\ \E i \in todo :
       /\ \A j \in todo : i <= j
       /\ \/ write_macro_stream(Cur, i, "old") /\ lost' = lost
          \/ write_macro_stream_fails(Cur, i, "old") /\ lost' = lost \cup {i}
       /\ todo' = todo \ {i}
  /\ pc' = IF todo' # {} THEN "restore" ELSE Restored
  /\ UNCHANGED <<plan, at, pg, cause, report>>

RestoreApply ==
  /\ pc = "restore_apply"
  /\ \/ send_apply /\ Fail("rolled_back")
     \/ /\ send_apply_fails
        /\ pc' = "empty" /\ lost' = Touched
        /\ UNCHANGED <<plan, at, pg, cause, todo, report>>

\* The old bank again, with the descriptors of the lost pages zeroed, and an APPLY.
Empty ==
  /\ pc = "empty"
  /\ \/ write_full_profile(Cur, "old", lost) /\ Go("empty_apply")
     \/ /\ write_full_profile_fails(Cur, "old", lost)
        /\ result' = FailedResult("not_emptied") /\ pc' = "save_macros"
        /\ UNCHANGED <<plan, work, files, unsaved, advice>>

EmptyApply ==
  /\ pc = "empty_apply"
  /\ \/ send_apply /\ result' = FailedResult("emptied")
     \/ send_apply_fails /\ result' = FailedResult("not_emptied")
  /\ pc' = "save_macros"
  /\ UNCHANGED <<plan, work, files, unsaved, advice>>

SaveMacros ==
  /\ pc = "save_macros"
  /\ Save({Cur} \X lost)
  /\ pc' = "read_back"
  /\ UNCHANGED <<plan, work, result, advice, flash, wire>>

-------------------------------------------------------------------------------
(***************************************************************************)
(* read_back, end_write and what happens to the cable.                     *)
(***************************************************************************)
\* The banks that went out with macro edits.
Checked == {m \in edited : result[m] = "success"}

\* Every put's page is compared, and the macro table of the image, decoded: a torn
\* image may still show the same table.
ReadBack ==
  /\ pc = "read_back"
  /\ pc' = "end"
  /\ \/ /\ Checked = {} /\ UNCHANGED <<result, flash, wire>>
     \/ /\ Checked # {} /\ read_all_profiles
        /\ \E differs \in SUBSET Checked :
             /\ \A m \in Checked :
                  /\ (\E i \in 1..puts[m] : page[m][i] # "new") => m \in differs
                  /\ m \in differs =>
                       ~AsSent(m) \/ \E i \in 1..puts[m] : page[m][i] # "new"
             /\ result' = [m \in Mode |-> IF m \in differs THEN "readback_differs"
                                                           ELSE result[m]]
     \/ /\ Checked # {} /\ read_all_profiles_fails
        /\ result' = [m \in Mode |-> IF m \in Checked THEN "readback_failed"
                                                       ELSE result[m]]
  /\ UNCHANGED <<plan, work, files, unsaved, advice>>

\* Mutant: with no held session left, nothing is closed.
end_write_held_only ==
  /\ pc = "end" /\ pc' = "done"
  /\ session' = "none"
  /\ IF session = "none" THEN UNCHANGED <<flipped, selected>>
     ELSE /\ flipped' = FALSE
          /\ selected' = IF flipped THEN Slide ELSE selected
  /\ UNCHANGED <<plan, work, report, flash, replugs>>

\* With no mode to go back to, the held session is dropped.  Otherwise the close goes
\* through it or a fresh one; a dead node counts as a close that was sent.
end_write ==
  /\ pc = "end" /\ pc' = "done"
  /\ session' = "none"
  /\ \/ /\ flipped' = FALSE /\ UNCHANGED advice
        /\ selected' = IF flipped THEN Slide ELSE selected
     \/ NeedsFlip /\ advice' = TRUE /\ UNCHANGED <<flipped, selected>>
  /\ UNCHANGED <<plan, work, result, files, unsaved, flash, replugs>>

\* The cable is pulled and pushed, or the pad resets.
Replug ==
  /\ pc \notin {"plan", "done"} /\ replugs < MaxReplugs
  /\ replugs' = replugs + 1
  /\ session' = IF session = "held" THEN "stale" ELSE session
  /\ flipped' = FALSE /\ selected' = Slide
  /\ UNCHANGED <<pc, plan, work, report, flash>>

Step ==
  \/ Plan \/ PlanRefused \/ begin_write \/ begin_write_fails
  \/ SaveFirst \/ Select \/ Write \/ Apply \/ Check
  \/ WritePage \/ LastApply
  \/ RollbackWrite \/ RollbackApply \/ RollbackSave
  \/ Restore \/ RestoreApply \/ Empty \/ EmptyApply \/ SaveMacros
  \/ ReadBack \/ end_write

Finished == pc = "done" /\ UNCHANGED vars

Next == Step \/ Replug \/ Finished

Spec == Init /\ [][Next]_vars

-------------------------------------------------------------------------------
(***************************************************************************)
(* Properties.                                                             *)
(***************************************************************************)
Done == pc = "done"

\* Bank m decodes as what the batch sent, with its pages, applied.
Whole(m) == /\ AsSent(m) /\ m \in applied
            /\ \A i \in 1..puts[m] : page[m][i] = "new"

\* Bank m is what the plan read, with the steps of every macro it holds.
AsRead(m) == /\ bank[m] = "old" /\ gone[m] = {} /\ m \in applied
             /\ \A i \in olds[m] : page[m][i] = "old"

\* A macro descriptor of bank m points at a page that holds other steps.
Dangling(m) ==
  \/ AsSent(m) /\ \E i \in 1..puts[m] : page[m][i] # "new"
  \/ bank[m] = "old" /\ \E i \in olds[m] \ gone[m] : page[m][i] # "old"

\* A job that reports success has its bank, as far as it is decoded, and every step page
\* on the pad and applied when the run is over, whatever failed, was corrupted or lost its
\* session on the way, for this bank or for a later one: "A bank whose write fails is
\* rolled back, the banks after it are not written, and the banks before it stay written"
\* (orchestrator/batch.rs, write_slots).
SuccessIsWhole ==
  Done => \A m \in Batch : result[m] = "success" => Whole(m)

\* What may cost an earlier success its bank is the undoing of a later one, and nothing
\* else: with none undone every success is whole, on a pad that corrupts what it
\* acknowledges and forgets its selected bank as well (write.rs, read_back_slot).
SuccessStandsUnlessUndone ==
  Done /\ (\A k \in Batch : result[k] \notin RolledBack \cup RollbackFailed) =>
    \A m \in Batch : result[m] = "success" => Whole(m)

\* A result with rollback_succeeded leaves the bank and the old macros as they were
\* read: "Whether the rollback restored the previous state" (model/outcome.rs).
RolledBackIsRestored ==
  Done => \A m \in Batch : result[m] = "rolled_back" => AsRead(m)

\* A bank after a failed one, or of a batch that was refused, is never touched.
UnwrittenIsUntouched ==
  \A m \in Batch : result[m] \in Refused => AsRead(m)

\* No descriptor is left on a broken or foreign page unless the result says that the
\* rollback, the emptying or the read-back did not work out (pages.rs, stage 2).
DanglingIsReported ==
  Done => \A m \in Batch :
    Dangling(m) => result[m] \in {"rollback_failed", "not_emptied", "no_rollback",
                                  "apply_failed", "readback_differs", "readback_failed"}

\* When the pad no longer holds the old steps of a macro, or its descriptor, and the
\* write did not replace it, the macro is in a file or the message says it is not.
LossIsOnFile ==
  Done => \A m \in Batch : \A i \in olds[m] :
    (page[m][i] # "old" \/ i \in gone[m]) =>
      \/ result[m] \in {"success", "apply_failed", "readback_differs", "readback_failed"}
      \/ <<m, i>> \in files \cup unsaved

\* A job that began sends a flipped pad home or tells the user to unplug it.
FlipIsUndoneOrReported ==
  Done /\ flipped => advice \/ \A m \in Batch : result[m] = "refused"

\* A call only changes the bank it is for: no step writes the image or the pages of
\* another mode's bank, the banks already reported included.
OnlyTheCurrentBank ==
  [][\A m \in Mode : (bank'[m] # bank[m] \/ page'[m] # page[m]) => m = Cur]_vars

\* The image of a bank goes to no other one, but for the images that are sent with no slot
\* select of their own: the backup of attempt_rollback and the emptied bank of
\* roll_back_pages.
OnlyUndoingStrays ==
  [][\A m \in Mode : (bank'[m] # bank[m] \/ page'[m] # page[m]) =>
       m = Cur \/ pc \in {"rb_write", "empty"}]_vars

\* Once write_bank has a result for a bank, nothing the run does later (another bank's
\* rollback, its emptying, the read-back) writes the bank or its pages again.
SettledStaysPut ==
  [][\A m \in Mode : result[m] # "untried" =>
       bank'[m] = bank[m] /\ gone'[m] = gone[m] /\ page'[m] = page[m]]_vars

-------------------------------------------------------------------------------
(***************************************************************************)
(* Why the properties hold: WriteInv, the inductive invariant.             *)
(*                                                                         *)
(* It needs every image to go where it is meant to.  With one bank there   *)
(* is nowhere else to go.  With several, nothing may move the selection    *)
(* between a select and the last call it is for: no read-back, and no      *)
(* replug that leaves the pad in a mode that takes writes.                 *)
(***************************************************************************)
Addressed == \/ Mode = {Slide}
             \/ ~ReadsBack /\ (NeedsFlip \/ MaxReplugs = 0)

\* The stages of a bank that may still write it, and those before its first call.
Ahead == {"begin", "save_first", "select"}
Sending == {"write", "apply", "check", "page", "last_apply", "rb_write", "rb_apply",
            "rb_save", "restore", "restore_apply", "empty", "empty_apply"}

\* A replugged pad of a flipped job takes no writes for the rest of it.
ReplugEndsWriting ==
  /\ session = "stale" => MaxReplugs > 0
  /\ session = "stale" /\ NeedsFlip => ~flipped

FreshStart == pc \in {"plan", "begin"} => session = "none"

SelectedWhileReached == pc \in Sending /\ Reach => selected = Cur

PlanFacts ==
  /\ \A i, j \in 1..Len(order) : order[i] = order[j] => i = j
  /\ \A m \in Mode : puts[m] > 0 => m \in edited /\ ~ReadsBack

\* The banks before the current one are out, those after it are as read.
Progress ==
  /\ pc = "plan" => \A m \in Mode : /\ result[m] = "untried" /\ AsRead(m)
                                   /\ \A i \in PageNo : page[m][i] = "old"
  /\ pc \in Ahead \cup Sending =>
       \A k \in at..Len(order) : result[order[k]] = "untried"
  /\ pc \in Ahead => \A k \in at..Len(order) : AsRead(order[k])
  /\ pc \in Sending => \A k \in at + 1..Len(order) : AsRead(order[k])

RefusedAsRead == \A m \in Batch : result[m] \in Refused => AsRead(m)

\* Page i of bank m is as sent, unless the pad corrupted it silently.
Sent(m, i) == page[m][i] = "new" \/ Silent

CurrentSoFar ==
  /\ pc = "apply" => ReadsBack \/ AsSent(Cur)
  /\ pc = "check" => Cur \in applied /\ ReadsBack
  /\ pc = "page" => /\ AsSent(Cur) /\ pg \in 1..puts[Cur]
                    /\ \A i \in 1..pg - 1 : Sent(Cur, i)
  /\ pc = "last_apply" => /\ AsSent(Cur)
                          /\ \A i \in 1..puts[Cur] : Sent(Cur, i)

SuccessSoFar ==
  \A m \in Batch : result[m] = "success" =>
    /\ AsSent(m) /\ m \in applied
    /\ \A i \in 1..puts[m] : IF pc \in {"end", "done"} THEN page[m][i] = "new" ELSE Sent(m, i)

WriteInv == /\ ReplugEndsWriting /\ FreshStart /\ SelectedWhileReached
            /\ PlanFacts /\ Progress /\ RefusedAsRead /\ CurrentSoFar /\ SuccessSoFar

(***************************************************************************)
(* Why no macro is lost unseen: MacroInv, which needs no Addressed, since  *)
(* a step page is written by its own address and only the image of the     *)
(* current bank loses descriptors.                                         *)
(***************************************************************************)
OldFacts == \A m \in Mode : \A i \in olds[m] : i \in 1..puts[m] /\ m \in active

\* The stages of a bank, its last backups included.
Busy == Ahead \cup Sending \cup {"save_macros"}
Undoing == {"rb_write", "rb_apply", "rb_save"}

\* Every macro of bank m that the write replaces is still there.
Intact(m) == gone[m] = {} /\ \A i \in olds[m] : page[m][i] = "old"

\* The pages of the current bank that may hold other steps than before.
Astray ==
  CASE pc = "page"                                   -> 1..pg - 1
    [] pc = "last_apply"                             -> PageNo
    [] pc \in Undoing \cup {"restore"}               -> todo \cup lost
    [] pc \in {"empty", "empty_apply", "save_macros"} -> lost
    [] OTHER                                         -> {}

CurrentKept ==
  /\ pc \in Busy => \A i \in olds[Cur] \ Astray : page[Cur][i] = "old"
  /\ pc \in Busy => gone[Cur] \subseteq IF pc \in {"empty_apply", "save_macros"} THEN lost ELSE {}
  /\ pc \in Undoing => lost = {}

OthersKept ==
  /\ pc = "plan" => \A m \in Mode : gone[m] = {} /\ \A i \in PageNo : page[m][i] = "old"
  /\ pc \in Ahead \cup Sending => \A k \in at + 1..Len(order) : Intact(order[k])

\* A macro that bank m lost was replaced, or it is in a file or the message.
Excused == {"success", "apply_failed", "readback_differs", "readback_failed"}
Secure(m) == \A i \in olds[m] :
  (page[m][i] # "old" \/ i \in gone[m]) =>
    result[m] \in Excused \/ <<m, i>> \in files \cup unsaved

Accounted == \A m \in Batch : (pc \in Busy => m # Cur) => Secure(m)

MacroInv == PlanFacts /\ OldFacts /\ CurrentKept /\ OthersKept /\ Accounted

(***************************************************************************)
(* Why a rollback that reports success restored the bank: BackInv, on top  *)
(* of the other two.                                                       *)
(***************************************************************************)
BackSoFar ==
  /\ pc \in {"rb_apply", "restore", "restore_apply"} => bank[Cur] = "old"
  /\ pc = "empty_apply" => bank[Cur] = "old" /\ gone[Cur] = lost

\* The old image of bank m holds no descriptor of a page with other steps.
Emptied(m) == bank[m] = "old" /\ \A i \in olds[m] \ gone[m] : page[m][i] = "old"

ResultsTrue == \A m \in Batch :
  /\ result[m] \in {"rolled_back", "select_failed"} => AsRead(m)
  /\ result[m] = "emptied" => Emptied(m)

\* A bank the run is through with has its result.
Tried ==
  /\ pc \in Ahead \cup Sending => \A k \in 1..at - 1 : result[order[k]] # "untried"
  /\ pc \in {"save_macros", "read_back", "end", "done"} =>
       \A m \in Batch : result[m] # "untried"

BackInv == BackSoFar /\ ResultsTrue /\ Tried

(***************************************************************************)
(* Why a success stands unless a later bank is undone, wherever the images *)
(* of the undoing go: StandInv.  Before the first call that fails the job  *)
(* has its session, and while it has it nothing but its own calls moves    *)
(* the selection.                                                          *)
(***************************************************************************)
Going == {"write", "apply", "check", "page", "last_apply"}

Underway == pc \in {"save_first", "select"} \cup Going => session \in {"held", "stale"}
OwnSelected == pc \in Going /\ session = "held" => selected = Cur

UntriedAhead ==
  /\ pc \in {"plan", "begin"} => \A m \in Mode : result[m] = "untried"
  /\ pc \in Ahead \cup Sending => \A k \in at..Len(order) : result[order[k]] = "untried"

Undone == \/ pc \in Sending \ Going
          \/ \E m \in Batch : result[m] \in RolledBack \cup RollbackFailed

StandInv == /\ PlanFacts /\ Underway /\ OwnSelected /\ UntriedAhead
            /\ CurrentSoFar /\ (Undone \/ SuccessSoFar)
=============================================================================
