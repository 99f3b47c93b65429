-------------------------------- MODULE Plan --------------------------------
(***************************************************************************)
(* The plan stage of a write (ProfileWriteOrchestrator): one read, every   *)
(* job folded into its mode's bank, then the banks that changed go out.    *)
(*                                                                         *)
(* A job uploads a profile (or keeps the slot's), takes buttons off its    *)
(* macros and edits macros; or clears the slot; or remaps one button. The  *)
(* CLI's single writes (run, put_macro, delete_macro) are batches of one.  *)
(* Nothing is written unless every job of the batch can be planned.        *)
(*                                                                         *)
(* Here a write that was planned goes through: how it fails, is rolled     *)
(* back and read back is WriteBatch.                                       *)
(***************************************************************************)
EXTENDS Bank

CONSTANTS Modes, Slots,
          Keep,        \* the upload keeps the slot's profile
          Batches,     \* the batches asked for: sequences of jobs
          Pads,        \* the pads: [model, banks]
          MaxBatches   \* bound on the batches of a behaviour

Edit == [at : Nat, macro : Macro]

\* `edits` are puts and deletes of macro slots `at`; Zeroed deletes. `sound`: the profile
\* and the macros pass the checks, and are for the job's mode. A macro that passes has
\* steps (macro-v1.schema.json), and names its buttons.
JobShape(job) ==
    /\ DOMAIN job = {"mode", "slot", "op", "map", "drops", "edits", "button", "output", "sound"}
    /\ job.op \in {"upload", "clear", "remap"}
    /\ job.map \in [Buttons -> Outputs] \cup {Keep}
    /\ job.button \in Buttons /\ job.output \in Outputs
    /\ job.drops \subseteq Buttons /\ job.sound \in BOOLEAN
    /\ job.edits \in Seq(Edit)
    /\ job.sound => \A i \in DOMAIN job.edits :
                      LET macro == job.edits[i].macro
                      IN  macro = Zeroed \/ (macro.steps # NoSteps /\ ~macro.unknown)

IsBatch(jobs) ==
    /\ jobs # <<>> /\ jobs \in Seq(ToSet(jobs))
    /\ \A i \in DOMAIN jobs : JobShape(jobs[i])

Places == Modes \X Slots
Policies == {"force", "abort", "ask"}

IsPad(model, of) == DOMAIN of = Places /\ \A at \in Places : IsSlot(model, of[at])

ASSUME PlanConstants ==
    /\ MaxBatches \in Nat
    /\ Keep \notin [Buttons -> Outputs]
    /\ \A jobs \in Batches : IsBatch(jobs)
    /\ \A p \in Pads : p.model \in Models /\ IsPad(p.model, p.banks)

VARIABLES model,      \* the pad at the port
          pad,        \* its slots
          batch,      \* the jobs, none when idle
          policy,
          base,       \* the banks as read (Bank.backup)
          banks,      \* with the planned jobs in them (Bank.blob)
          dirty,      \* the modes whose bank changed
          pages,      \* the step pages to write after them
          planned,    \* how many jobs are planned
          asked       \* how many batches were asked for

vars == <<model, pad, batch, policy, base, banks, dirty, pages, planned, asked>>

Page == [at : Places, n : Nat, old : BOOLEAN]

Place(job) == <<job.mode, job.slot>>

Init ==
    /\ \E p \in Pads : model = p.model /\ pad = p.banks
    /\ batch = <<>> /\ policy = "force"
    /\ base = pad /\ banks = pad
    /\ dirty = {} /\ pages = {} /\ planned = 0
    /\ asked = 0

\* A batch starts with the read of every bank.
Starts(jobs, pol) ==
    /\ batch = <<>>
    /\ batch' = jobs /\ policy' = pol
    /\ base' = pad /\ banks' = pad
    /\ dirty' = {} /\ pages' = {} /\ planned' = 0
    /\ UNCHANGED <<model, pad>>

Begin ==
    /\ asked < MaxBatches
    /\ asked' = asked + 1
    /\ \E jobs \in Batches, pol \in Policies : Starts(jobs, pol)

Job == batch[planned + 1]
Before == base[Place(Job)]

-----------------------------------------------------------------------------
(* One job.                                                                *)

Brings(job) == job.op = "upload" /\ job.map # Keep

\* Mutant: the leftovers of an emptied slot are taken for macros.
HeldAlways == MacrosOf(model, Before)

\* The macros a job finds. Those of an empty slot are leftovers.
Held == IF Before.used THEN MacrosOf(model, Before) ELSE NoMacros

\* A delete of no macro is skipped.
Effective == {e \in ToSet(Job.edits) : e.macro # Zeroed \/ e.at \in DOMAIN Held}

Puts(edits) == {e \in edits : e.macro # Zeroed}

\* Mutant: deletes from the lowest.
OrderedUpwards(edits) == SetToSortSeq(edits, LAMBDA a, b : a.at < b.at)

\* Puts from the lowest macro slot, then deletes from the highest: on a packed model each
\* finds the macro the read put in its slot.
GoesBefore(e, f) ==
    \/ e.macro # Zeroed /\ f.macro = Zeroed
    \/ e.macro # Zeroed /\ f.macro # Zeroed /\ e.at < f.at
    \/ e.macro = Zeroed /\ f.macro = Zeroed /\ e.at > f.at
Ordered(edits) ==
    CHOOSE order \in [1 .. Cardinality(edits) -> edits] :
      \A i, j \in DOMAIN order : i < j => GoesBefore(order[i], order[j])

\* build_upload, or the slot's profile with the buttons dropped.
Uploaded(s) ==
    LET drop(t) == IF Before.used /\ Job.drops # {} THEN DropMacros(model, t, Job.drops) ELSE t
    IN  IF Job.map = Keep THEN drop(s)
        ELSE IF Before.used THEN drop(CompileKeepMacros(model, s, Job.map))
        ELSE Compile(model, s, Job.map)

\* remap_button: the slot's own map with one output changed.
Remapped(s) == CompileKeepMacros(model, s, [MapOf(model, s) EXCEPT ![Job.button] = Job.output])

Cleared(s) == IF Before.used THEN Deactivate(model, s) ELSE s

\* The slot after the edits, one after the other.
SetMacros(s, edits) ==
    LET set[k \in 0 .. Len(edits)] ==
          IF k = 0 THEN s ELSE SetMacro(model, set[k - 1], edits[k].at, edits[k].macro)
    IN  set[Len(edits)]

\* The slot with the job in it.
Built ==
    LET s == banks[Place(Job)]
    IN  CASE Job.op = "clear" -> Cleared(s)
          [] Job.op = "remap" -> Remapped(s)
          [] OTHER -> SetMacros(Uploaded(s), Ordered(Effective))

Changes ==
    CASE Job.op = "clear" -> Before.used
      [] Job.op = "remap" -> TRUE
      [] OTHER -> Job.map # Keep \/ (Before.used /\ Job.drops # {}) \/ Effective # {}

\* Mutant: any macro with the put's trigger is taken for the put.
StartsAnotherAny(macros, put) ==
    \E n \in DOMAIN macros : macros[n].triggers # put.macro.triggers
                             /\ macros[n].triggers \cap put.macro.triggers # {}

\* check_bank: the put itself is in its macro slot or, moved, the first macro with its
\* trigger. A button of it may not start another macro.
StartsAnother(macros, put) ==
    LET same == {n \in DOMAIN macros : macros[n].triggers = put.macro.triggers}
        own  == IF put.at \in same THEN {put.at} ELSE {n \in same : \A k \in same : n <= k}
    IN  \E n \in DOMAIN macros \ own : macros[n].triggers \cap put.macro.triggers # {}

\* ... nor have another output than by default.
IsMapped(map, put) == \E b \in put.macro.triggers : map[b] # DefaultMap[b]

PutRefused(put) ==
    \/ StartsAnother(MacrosOf(model, Built), put)
    \/ IsMapped(MapOf(model, Built), put)

MacrosRefused ==
    /\ Job.edits # <<>>
    /\ \/ ~Before.used /\ Job.map = Keep
       \/ \E i \in DOMAIN Job.edits : Job.edits[i].at \notin MacroSlots(model)
       \/ \E i, j \in DOMAIN Job.edits : i # j /\ Job.edits[i].at = Job.edits[j].at
       \/ \E put \in Puts(Effective) : PutRefused(put)

\* The policy is asked before a profile is overwritten or cleared, and before a macro is
\* replaced or removed unless the slot's prompt named it.
AsksForSlot == Before.used /\ (Brings(Job) \/ Job.op = "clear")
AsksForMacro ==
    /\ Job.op = "upload" /\ ~(Brings(Job) /\ Before.used)
    /\ \E i \in DOMAIN Job.edits : Job.edits[i].at \in DOMAIN Held
Asks == AsksForSlot \/ AsksForMacro

MustRefuse ==
    \/ Place(Job) \notin Places
    \/ \E i \in 1 .. planned : Place(batch[i]) = Place(Job)
    \/ ~Job.sound
    \/ Asks /\ policy = "abort"
    \/ Job.op = "upload" /\ MacrosRefused
    \/ Job.op = "remap" /\ ~Before.used

\* The steps of a macro that a put replaces are read first, where they are in a page.
PutPages ==
    IF IsPacked(model) \/ Job.op # "upload" THEN {}
    ELSE {[at |-> Place(Job), n |-> put.at,
           old |-> put.at \in DOMAIN Held /\ Held[put.at].steps # NoSteps]
             : put \in Puts(Effective)}

PlanJob ==
    /\ planned < Len(batch)
    /\ ~MustRefuse
    /\ banks' = [banks EXCEPT ![Place(Job)] = Built]
    /\ dirty' = dirty \cup (IF Changes THEN {Job.mode} ELSE {})
    /\ pages' = pages \cup PutPages
    /\ planned' = planned + 1
    /\ UNCHANGED <<model, pad, batch, policy, base, asked>>

\* What was planned is dropped.
Idle ==
    /\ batch' = <<>> /\ policy' = "force"
    /\ base' = pad' /\ banks' = pad'
    /\ dirty' = {} /\ pages' = {} /\ planned' = 0
    /\ UNCHANGED asked

\* The whole batch fails: a job is refused, the user declines, the read or the backup of
\* a page fails, or the pad is now another model (the plan's codec would be wrong for it).
RefuseBatch ==
    /\ batch # <<>> /\ planned < Len(batch)
    /\ UNCHANGED <<model, pad>>
    /\ Idle

\* Each bank that changed goes out.
Write ==
    /\ batch # <<>> /\ planned = Len(batch)
    /\ pad' = [at \in Places |-> IF at[1] \in dirty THEN banks[at] ELSE pad[at]]
    /\ UNCHANGED model
    /\ Idle

Next == Begin \/ PlanJob \/ RefuseBatch \/ Write

Spec == Init /\ [][Next]_vars

-----------------------------------------------------------------------------
(* Properties.                                                             *)

TypeOK ==
    /\ model \in Models
    /\ \A of \in {pad, base, banks} : IsPad(model, of)
    /\ batch = <<>> \/ IsBatch(batch)
    /\ planned \in 0 .. Len(batch)
    /\ policy \in Policies /\ asked \in 0 .. MaxBatches
    /\ dirty \subseteq Modes /\ pages \subseteq Page

\* What a slot shows. Nothing shows of trigger bits that name no button.
EachEncoded(macros) == [n \in DOMAIN macros |-> Encoded(macros[n])]
View(s) ==
    IF ~s.used THEN [used |-> FALSE, map |-> DefaultMap, macros |-> NoMacros]
    ELSE [used |-> TRUE, map |-> MapOf(model, s), macros |-> EachEncoded(MacrosOf(model, s))]

\* A batch does what it was asked for, all of it or nothing: every macro edit finds the
\* macro that was read in its slot, although the edits are made one by one and a packed
\* model renumbers its macros after each; no leftover of an emptied slot comes back; no
\* other slot or macro changes.
Promise == INSTANCE PadPromise
    WITH view <- [at \in Places |-> View(pad[at])], asked <- batch
KeepsPromise == Promise!PromiseSpec

Ready == batch # <<>> /\ planned = Len(batch)

\* Of the macros a planned batch leaves in a slot it puts a macro into, none shares a
\* trigger with the put one, and its triggers press no other output.
PutsStartAlone ==
    Ready =>
      \A i \in DOMAIN batch : \A k \in DOMAIN batch[i].edits :
        LET put    == batch[i].edits[k].macro
            s      == banks[Place(batch[i])]
            macros == MacrosOf(model, s)
        IN  batch[i].op = "upload" =>
              \A b \in put.triggers :
                /\ Cardinality({n \in DOMAIN macros : b \in macros[n].triggers}) = 1
                /\ MapOf(model, s)[b] = DefaultMap[b]

\* On a model with step pages, every descriptor of the planned banks that counts other
\* steps than were read has a page to write, and the page of a macro that was there has
\* the old steps to put back.
PagesCoverReplaced ==
    (Ready /\ ~IsPacked(model)) =>
      \A at \in Places : \A n \in MacroSlots(model) :
        LET was == base[at].macros[n]
            now == banks[at].macros[n]
        IN  (now.steps # was.steps /\ now # Zeroed) =>
              \E page \in pages :
                /\ page.at = at /\ page.n = n
                /\ page.old <=> (base[at].used /\ was.steps # NoSteps)

=============================================================================
