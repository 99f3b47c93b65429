------------------------------- MODULE Editor -------------------------------
(***************************************************************************)
(* The macros and the button map of one slot as the window edits them, and *)
(* the write of what it shows.                                             *)
(*                                                                         *)
(* A read gives the slot's profile and the descriptors of its macros; the  *)
(* steps of the macros follow in the background. The first edit of the     *)
(* profile copies it, the first edit of a macro copies all of them. The    *)
(* controller keeps a button's output apart from the macro it starts, so   *)
(* every edit of one keeps the other in step: a remapped button leaves its *)
(* macro, a button that joins a macro gets its default output.             *)
(*                                                                         *)
(* The write is Plan's. Dialogs are modal: nothing is edited under one. A  *)
(* macro's name and plays are left out, and so are the profile's settings; *)
(* every macro is valid, the bits of a trigger all name buttons, and the   *)
(* slot has one read on its way at a time (Window has several).            *)
(***************************************************************************)
EXTENDS Plan

CONSTANTS Nothing,
          Starters,             \* the buttons that can start a macro
          TriggersPerMacro,     \* by model, 0 for no limit
          Unrecognised,         \* an output a button can leave, never go back to
          Placeholder,          \* the steps a descriptor stands for
          NewSteps,             \* of a new macro
          ProfileFiles,         \* [map, macros], macros Nothing in a file without
          MacroImports,         \* the files of one macro
          Elsewhere,            \* what another program may write to the slot, by model
          MaxEdits, MaxElsewhere

Here == CHOOSE at \in Places : TRUE

Profile == [map : [Buttons -> Outputs], refs : Seq([at : Nat, triggers : SUBSET Buttons])]

\* The macros a slot of a model can hold.
ValidMacro == {macro \in Macro : macro.steps # NoSteps /\ ~macro.unknown}
Drafts(m) == UNION {[S -> ValidMacro] : S \in SUBSET MacroSlots(m)}

\* The steps of a descriptor are as many as the macro has, and its own descriptor's.
ASSUME EditorConstants ==
    /\ Places = {Here}
    /\ Buttons # {} /\ Starters \subseteq Buttons /\ Unrecognised \in Outputs
    /\ TriggersPerMacro \in [Models -> Nat]
    /\ Placeholder \in [StepLists -> StepLists]
    /\ \A steps \in StepLists : /\ Placeholder[steps] = NoSteps <=> steps = NoSteps
                               /\ Placeholder[Placeholder[steps]] = Placeholder[steps]
    /\ NewSteps \in StepLists \ {NoSteps}
    /\ MaxEdits \in Nat /\ MaxElsewhere \in Nat
    /\ Nothing \notin Nat \cup Profile /\ \A m \in Models : Nothing \notin Drafts(m)

\* A button starts one macro, and has its default output then.
StartsOnce(macros, map) ==
    \A n \in DOMAIN macros : \A b \in macros[n].triggers :
        map[b] = DefaultMap[b] /\ \A k \in DOMAIN macros : b \in macros[k].triggers => k = n

HasSteps(m, s) == IsSlot(m, s) /\ \A n \in DOMAIN MacrosOf(m, s) : MacrosOf(m, s)[n].steps # NoSteps

\* Every macro is valid, and the checks of a file refuse one that has two macros with the
\* same button. No pad has a button to begin with that sends a macro in place of another
\* output.
ASSUME EditorData ==
    /\ \A p \in Pads : \A at \in Places :
         LET s == p.banks[at]
         IN  HasSteps(p.model, s) /\ (s.used => StartsOnce(MacrosOf(p.model, s), MapOf(p.model, s)))
    /\ \A m \in Models : \A s \in Elsewhere[m] : HasSteps(m, s)
    /\ \A file \in ProfileFiles :
         /\ file.map \in [Buttons -> Outputs]
         /\ \/ file.macros = Nothing
            \/ /\ \A m \in Models : file.macros \in Drafts(m)
               /\ StartsOnce(file.macros, DefaultMap)
    /\ MacroImports \subseteq ValidMacro

VARIABLES slot,         \* SlotState: pad, edited, macros (with `loaded`), draft
          changed,      \* the question about a slot that changed under its edits
          review,       \* none, waiting for its read, or opened by it
          reading,      \* a read is on its way
          unread,       \* the macros whose steps are asked for
          pending,      \* the import that waits for a yes
          fresh,        \* the last word on the slot was a read, not a write's success
          blind,        \* its edits began before that read
          edits, elsewhere

evars == <<slot, changed, review, reading, unread, pending, fresh, blind, edits, elsewhere>>

-----------------------------------------------------------------------------
(* What a read finds.                                                      *)

\* The macros of a slot as its profile names them.
RefsOf(macros) ==
    LET order == InOrder(DOMAIN macros)
    IN  [k \in DOMAIN order |-> [at |-> order[k], triggers |-> macros[order[k]].triggers]]

Descriptor(macro) == [macro EXCEPT !.steps = Placeholder[@]]
Descriptors(macros) == [n \in DOMAIN macros |-> Descriptor(macros[n])]

\* An empty slot shows no profile and no macros, whatever it still stores.
FoundMacros(s) == View(s).macros
FoundProfile(s) ==
    IF s.used THEN [map |-> View(s).map, refs |-> RefsOf(FoundMacros(s))] ELSE Nothing

-----------------------------------------------------------------------------
(* What the slot shows.                                                    *)

HeldMacros(sl) == [n \in DOMAIN sl.macros |-> sl.macros[n].def]
Shown(sl) == IF sl.edited # Nothing THEN sl.edited ELSE sl.pad
ShownMacros(sl) == IF sl.draft # Nothing THEN sl.draft ELSE HeldMacros(sl)

ProfileUnsaved(sl) == sl.edited # Nothing /\ sl.edited # sl.pad
MacrosUnsaved(sl) == sl.draft # Nothing /\ sl.draft # HeldMacros(sl)
Unsaved(sl) == ProfileUnsaved(sl) \/ MacrosUnsaved(sl)

TriggersOf(macros) == UNION {macros[n].triggers : n \in DOMAIN macros}
RefTriggers(profile) ==
    IF profile = Nothing THEN {}
    ELSE UNION {profile.refs[k].triggers : k \in DOMAIN profile.refs}

\* dropped_buttons: they leave their macro because the edited profile gives them another
\* output.
Dropped(sl) ==
    IF sl.edited = Nothing THEN {}
    ELSE RefTriggers(sl.pad) \ (RefTriggers(sl.edited)
                                \cup IF sl.draft = Nothing THEN {} ELSE TriggersOf(sl.draft))

\* The macro slot of the first macro a button starts.
FirstOf(macros, b) ==
    LET ns == {n \in DOMAIN macros : b \in macros[n].triggers}
    IN  IF ns = {} THEN Nothing ELSE CHOOSE n \in ns : \A k \in ns : n <= k
StartedBy(sl, b) ==
    IF sl.draft = Nothing /\ b \in Dropped(sl) THEN Nothing ELSE FirstOf(ShownMacros(sl), b)

MappedTo(sl, b) == Shown(sl).map[b] # DefaultMap[b]

\* What the picker names: an output, or "macro:n".
Output(output) == <<"output", output>>
MacroOutput(n) == <<"macro", n>>

\* A button that starts a macro sends the macro only.
Current(sl, b) ==
    IF StartedBy(sl, b) # Nothing THEN MacroOutput(StartedBy(sl, b)) ELSE Output(Shown(sl).map[b])
HeldCurrent(sl, b) ==
    IF FirstOf(HeldMacros(sl), b) # Nothing THEN MacroOutput(FirstOf(HeldMacros(sl), b))
    ELSE Output(sl.pad.map[b])

MacrosRead(sl) == sl.draft # Nothing \/ \A n \in DOMAIN sl.macros : sl.macros[n].loaded
Editable(sl) == Shown(sl) # Nothing /\ MacrosRead(sl)
AsShown(sl) == IF sl.draft # Nothing THEN sl.draft ELSE Without(HeldMacros(sl), Dropped(sl))

\* triggers_per_macro: with a limit of one, a button does not move from macro to macro.
TakesTrigger(sl, n, b) ==
    LET triggers == ShownMacros(sl)[n].triggers
        limit    == TriggersPerMacro[model]
    IN  \/ b \in triggers
        \/ /\ limit = 0 \/ Cardinality(triggers) < limit
           /\ limit # 1 \/ StartedBy(sl, b) = Nothing

-----------------------------------------------------------------------------
(* The edits, as what they make of a slot.                                 *)

WithoutRefs(refs, bs) == [k \in DOMAIN refs |-> [refs[k] EXCEPT !.triggers = @ \ bs]]

LeaveMacros(sl, bs) ==
    [sl EXCEPT !.edited = IF Shown(sl) = Nothing THEN Nothing
                          ELSE [Shown(sl) EXCEPT !.refs = WithoutRefs(@, bs)],
               !.draft = IF @ = Nothing THEN Nothing ELSE Without(@, bs)]

\* Mutant: a remapped button stays in the edited macros.
SetOutputOnly(sl, b, output) == [sl EXCEPT !.edited = [Shown(sl) EXCEPT !.map[b] = output]]

SetOutput(sl, b, output) == [LeaveMacros(sl, {b}) EXCEPT !.edited.map[b] = output]

\* Mutant: a button that joins a macro keeps its output.
JoinMacroMapped(sl, b, n) ==
    LET left == LeaveMacros(sl, {b})
    IN  [left EXCEPT !.draft = [Without(AsShown(left), {b}) EXCEPT ![n].triggers = @ \cup {b}]]

JoinMacro(sl, b, n) ==
    LET left == SetOutput(sl, b, DefaultMap[b])
    IN  [left EXCEPT !.draft = [Without(AsShown(left), {b}) EXCEPT ![n].triggers = @ \cup {b}]]

\* restore_button for each of the buttons: the references keep their order.
Restored(profile, held, bs) ==
    [map  |-> [b \in Buttons |-> IF b \in bs THEN held.map[b] ELSE profile.map[b]],
     refs |-> [k \in DOMAIN profile.refs |->
        IF k \notin DOMAIN held.refs \/ held.refs[k].triggers \cap bs = {} THEN profile.refs[k]
        ELSE [profile.refs[k] EXCEPT !.triggers = held.refs[k].triggers \cap (@ \cup bs)]]]

HeldTriggers(sl, n) == IF n \in DOMAIN sl.macros THEN sl.macros[n].def.triggers ELSE {}

\* The buttons macro n took since.
TakenBy(sl, n) ==
    (IF n \in DOMAIN sl.draft THEN sl.draft[n].triggers ELSE {}) \ HeldTriggers(sl, n)

\* Mutant: a taken button does not go back to the macro it started.
RevertedWithoutHomes(sl, n) ==
    LET bs == HeldTriggers(sl, n) \cup TakenBy(sl, n)
    IN  [sl EXCEPT !.edited = IF sl.pad = Nothing \/ @ = Nothing THEN @ ELSE Restored(@, sl.pad, bs),
                   !.draft = [k \in (DOMAIN sl.draft \ {n}) \cup (DOMAIN sl.macros \cap {n}) |->
                                IF k = n THEN sl.macros[k].def ELSE sl.draft[k]]]

\* revert_macro: n as the controller holds it; the buttons it took go back to the macros
\* they started, while those are there.
Reverted(sl, n) ==
    LET taken == TakenBy(sl, n)
        bs    == HeldTriggers(sl, n) \cup taken
        home(k) == {b \in taken : FirstOf(HeldMacros(sl), b) = k}
    IN  [sl EXCEPT !.edited = IF sl.pad = Nothing \/ @ = Nothing THEN @ ELSE Restored(@, sl.pad, bs),
                   !.draft = [k \in (DOMAIN sl.draft \ {n}) \cup (DOMAIN sl.macros \cap {n}) |->
                                IF k = n THEN sl.macros[k].def
                                ELSE [sl.draft[k] EXCEPT !.triggers = @ \cup home(k)]]]

MacroUnsaved(sl, n) ==
    /\ sl.draft # Nothing
    /\ \/ n \in DOMAIN sl.draft /\ n \notin DOMAIN sl.macros
       \/ n \notin DOMAIN sl.draft /\ n \in DOMAIN sl.macros
       \/ n \in DOMAIN sl.draft /\ n \in DOMAIN sl.macros /\ sl.draft[n] # sl.macros[n].def

\* A button of the macro on the controller now starts another one or is mapped.
RevertRefused(sl, n) ==
    \E b \in HeldTriggers(sl, n) : StartedBy(sl, b) \notin {Nothing, n} \/ MappedTo(sl, b)

RemappedStarters(sl, map) ==
    {b \in Buttons : StartedBy(sl, b) # Nothing /\ map[b] # DefaultMap[b]}

\* A profile with the file's macros, or Nothing to keep the slot's less the buttons the
\* file maps elsewhere.
Imported(sl, map, macros) ==
    LET put == [sl EXCEPT !.edited = [map |-> map,
                                      refs |-> IF sl.pad = Nothing THEN <<>> ELSE sl.pad.refs],
                          !.draft = IF macros = Nothing THEN sl.draft ELSE macros]
        left == RemappedStarters(put, map)
    IN  IF macros # Nothing \/ left = {} THEN put ELSE LeaveMacros(put, left)

\* file_macros: a button the file maps elsewhere starts none of them.
FileMacros(file) == Without(file.macros, {b \in Buttons : file.map[b] # DefaultMap[b]})

\* ready: a button that starts another macro of the slot, or is mapped, does not come
\* along.
ReadyMacro(sl, n, macro) ==
    [macro EXCEPT !.triggers = {b \in @ : StartedBy(sl, b) \in {Nothing, n} /\ ~MappedTo(sl, b)}]

-----------------------------------------------------------------------------
(* The steps of the window.                                                *)

EmptySlot == [pad |-> Nothing, edited |-> Nothing, macros |-> NoMacros, draft |-> Nothing]

\* review_open: once every question has its answer, and while there is an edit to write.
ReviewOpen == review = "open" /\ ~changed /\ Unsaved(slot)

\* No dialog is in the way.
Open == batch = <<>> /\ ~changed /\ ~ReviewOpen /\ pending = Nothing

\* Edits begin blind on what a write's success left, before a read said what is there.
Shows(new) ==
    /\ slot' = new
    /\ blind' = /\ blind \/ ~fresh
                /\ new.edited # Nothing \/ new.draft # Nothing \/ pending # Nothing

EditTo(new) ==
    /\ Open /\ edits < MaxEdits /\ new # slot
    /\ Shows(new) /\ edits' = edits + 1
    /\ UNCHANGED <<vars, changed, review, reading, unread, pending, fresh, elsewhere>>

EditMacros(macros) == Editable(slot) /\ EditTo([slot EXCEPT !.draft = macros])

PickOutput ==
    /\ Shown(slot) # Nothing
    /\ \E b \in Buttons, output \in Outputs \ {Unrecognised} :
         Output(output) # Current(slot, b) /\ EditTo(SetOutput(slot, b, output))

\* On the Buttons tab a macro is an output of any button that can start it.
PickMacro ==
    /\ Editable(slot)
    /\ \E b \in Starters, n \in DOMAIN ShownMacros(slot) :
         /\ TakesTrigger(slot, n, b) /\ Current(slot, b) # MacroOutput(n)
         /\ EditTo(JoinMacro(slot, b, n))

\* On the Macros tab a mapped button stays as it is.
AddMacroButton ==
    /\ Editable(slot)
    /\ \E b \in Starters, n \in DOMAIN ShownMacros(slot) :
         /\ b \notin ShownMacros(slot)[n].triggers /\ TakesTrigger(slot, n, b)
         /\ ~MappedTo(slot, b)
         /\ EditTo(JoinMacro(slot, b, n))

RemoveMacroButton ==
    \E n \in DOMAIN ShownMacros(slot) : \E b \in ShownMacros(slot)[n].triggers :
        EditMacros([AsShown(slot) EXCEPT ![n].triggers = @ \ {b}])

NewMacro ==
    \E n \in MacroSlots(model) \ DOMAIN ShownMacros(slot) :
        EditMacros(With(AsShown(slot), n, [Zeroed EXCEPT !.steps = NewSteps]))

DeleteMacro ==
    \E n \in DOMAIN ShownMacros(slot) : EditMacros(With(AsShown(slot), n, Zeroed))

EditMacro ==
    \E n \in DOMAIN ShownMacros(slot), steps \in StepLists \ {NoSteps} :
        EditMacros([AsShown(slot) EXCEPT ![n].steps = steps])

RevertMacro ==
    \E n \in MacroSlots(model) :
        /\ MacroUnsaved(slot, n) /\ Editable(slot) /\ ~RevertRefused(slot, n)
        /\ EditTo(Reverted(slot, n))

Discard == EditTo([slot EXCEPT !.edited = Nothing, !.draft = Nothing])

StartFromDefault ==
    /\ Shown(slot) = Nothing
    /\ EditTo([slot EXCEPT !.edited = [map |-> DefaultMap, refs |-> <<>>]])

\* A file that replaces macros or edits waits for a yes. One with macros is refused while
\* the slot's are being read.
ImportProfile ==
    \E file \in ProfileFiles :
        LET macros == IF file.macros = Nothing THEN Nothing ELSE FileMacros(file)
            loses  == \/ macros # Nothing /\ (DOMAIN macros # {} \/ DOMAIN ShownMacros(slot) # {})
                      \/ ProfileUnsaved(slot)
                      \/ macros # Nothing /\ MacrosUnsaved(slot)
        IN  /\ macros = Nothing \/ MacrosRead(slot)
            /\ IF loses
               THEN /\ Open
                    /\ pending' = [kind |-> "profile", map |-> file.map, macros |-> macros]
                    /\ blind' = (blind \/ ~fresh)
                    /\ UNCHANGED <<vars, slot, changed, review, reading, unread, fresh, edits,
                                   elsewhere>>
               ELSE EditTo(Imported(slot, file.map, macros))

\* The macro is made ready for the slot as it is now.
ImportMacro ==
    /\ Open /\ Shown(slot) # Nothing
    /\ \E n \in MacroSlots(model), macro \in MacroImports :
         pending' = [kind |-> "macro", n |-> n, macro |-> ReadyMacro(slot, n, macro)]
    /\ blind' = (blind \/ ~fresh)
    /\ UNCHANGED <<vars, slot, changed, review, reading, unread, fresh, edits, elsewhere>>

\* The changed question covers the import's.
Confirms(new) ==
    /\ pending # Nothing /\ ~changed /\ edits < MaxEdits
    /\ pending' = Nothing
    /\ Shows(new) /\ edits' = edits + 1
    /\ UNCHANGED <<vars, changed, review, reading, unread, fresh, elsewhere>>

ConfirmImport ==
    /\ pending # Nothing /\ pending.kind = "profile"
    /\ \E macros \in {pending.macros, Nothing} : Confirms(Imported(slot, pending.map, macros))

\* With the steps on their way the macro goes nowhere.
ConfirmMacroImport ==
    /\ pending # Nothing /\ pending.kind = "macro"
    /\ Confirms(IF ~Editable(slot) THEN slot
                ELSE [slot EXCEPT !.draft = With(AsShown(slot), pending.n, pending.macro)])

CancelImport ==
    /\ pending # Nothing /\ ~changed
    /\ pending' = Nothing
    /\ UNCHANGED <<vars, slot, changed, review, reading, unread, fresh, blind, edits, elsewhere>>

-----------------------------------------------------------------------------
(* Reads.                                                                  *)

\* macros_changed_under_edits.
MacrosChanged(sl, found) ==
    MacrosUnsaved(sl) /\ Descriptors(HeldMacros(sl)) # found /\ Descriptors(sl.draft) # found

\* take_read and take_macros: an edit that is none goes, and a macro whose descriptor did
\* not change keeps its steps.
ReadInto(sl, s) ==
    LET profile == FoundProfile(s)
        found  == Descriptors(FoundMacros(s))
        edited == IF sl.pad # profile /\ ~ProfileUnsaved(sl) THEN Nothing ELSE sl.edited
        same(n) == n \in DOMAIN sl.macros /\ Descriptor(sl.macros[n].def) = found[n]
    IN  [pad |-> profile, edited |-> edited,
         macros |-> [n \in DOMAIN found |->
            IF same(n) THEN sl.macros[n]
            ELSE [def |-> found[n], loaded |-> found[n].steps = NoSteps]],
         draft |-> IF MacrosUnsaved(sl) THEN sl.draft ELSE Nothing]

ChangedUnderEdits(sl, s) ==
    \/ sl.pad # FoundProfile(s) /\ ProfileUnsaved(sl) /\ sl.edited # FoundProfile(s)
    \/ MacrosChanged(sl, Descriptors(FoundMacros(s)))

Unread(sl) == [n \in {k \in DOMAIN sl.macros : ~sl.macros[k].loaded} |-> sl.macros[n].def]

\* The window lists a controller once it was read.
EditorInit ==
    /\ Init
    /\ slot = ReadInto(EmptySlot, pad[Here])
    /\ changed = FALSE /\ review = "none"
    /\ reading = FALSE /\ unread = Unread(slot)
    /\ pending = Nothing
    /\ fresh = TRUE /\ blind = FALSE
    /\ edits = 0 /\ elsewhere = 0

\* The worker has nothing before a read, or a write, on its list.
Answered == unread = NoMacros

\* The steps of every macro without them are asked for, and a review that waits opens.
ReadOk ==
    /\ reading /\ Answered
    /\ LET new == ReadInto(slot, pad[Here])
       IN  /\ slot' = new
           /\ unread' = Unread(new)
    /\ changed' = (changed \/ ChangedUnderEdits(slot, pad[Here]))
    /\ reading' = FALSE /\ fresh' = TRUE
    /\ review' = IF review = "reading" THEN "open" ELSE review
    /\ UNCHANGED <<vars, pending, blind, edits, elsewhere>>

ReadFails ==
    /\ reading /\ Answered
    /\ reading' = FALSE
    /\ review' = IF review = "reading" THEN "none" ELSE review
    /\ UNCHANGED <<vars, slot, changed, unread, pending, fresh, blind, edits, elsewhere>>

\* Steps go to the macro with the descriptor they were asked for.
StepsRead ==
    /\ ~Answered
    /\ LET found == FoundMacros(pad[Here])
           filled(n) == /\ n \in DOMAIN unread /\ n \in DOMAIN found
                        /\ ~slot.macros[n].loaded
                        /\ Descriptor(slot.macros[n].def) = unread[n]
       IN  slot' = [slot EXCEPT !.macros = [n \in DOMAIN @ |->
                      IF filled(n)
                      THEN [def |-> [unread[n] EXCEPT !.steps = found[n].steps], loaded |-> TRUE]
                      ELSE @[n]]]
    /\ unread' = NoMacros
    /\ UNCHANGED <<vars, changed, review, reading, pending, fresh, blind, edits, elsewhere>>

StepsFail ==
    /\ ~Answered
    /\ unread' = NoMacros
    /\ UNCHANGED <<vars, slot, changed, review, reading, pending, fresh, blind, edits, elsewhere>>

\* "Try again", and a controller that comes back.
ReadAgain ==
    /\ batch = <<>> /\ review = "none" /\ ~reading
    /\ reading' = TRUE
    /\ UNCHANGED <<vars, slot, changed, review, unread, pending, fresh, blind, edits, elsewhere>>

\* Another program writes the slot.
OtherProgram ==
    /\ batch = <<>> /\ review # "open" /\ Answered /\ elsewhere < MaxElsewhere
    /\ elsewhere' = elsewhere + 1
    /\ \E s \in Elsewhere[model] : s # pad[Here] /\ pad' = [pad EXCEPT ![Here] = s]
    /\ base' = pad' /\ banks' = pad'
    /\ UNCHANGED <<model, batch, policy, dirty, pages, planned, asked, slot, changed, review,
                   reading, unread, pending, fresh, blind, edits>>

\* "Keep mine" or "Take the controller's".
ApplyChanged ==
    /\ changed /\ changed' = FALSE
    /\ \E keep \in BOOLEAN :
         Shows(IF keep THEN slot ELSE [slot EXCEPT !.edited = Nothing, !.draft = Nothing])
    /\ review' = IF review = "open" /\ ~Unsaved(slot') THEN "none" ELSE review
    /\ UNCHANGED <<vars, reading, unread, pending, fresh, edits, elsewhere>>

-----------------------------------------------------------------------------
(* Writes.                                                                 *)

\* idle: with an edit, the slot is read again before the review opens.
BeginReview ==
    /\ Open /\ ~reading /\ review = "none" /\ Unsaved(slot)
    /\ review' = "reading" /\ reading' = TRUE
    /\ UNCHANGED <<vars, slot, changed, unread, pending, fresh, blind, edits, elsewhere>>

CancelReview ==
    /\ ReviewOpen /\ review' = "none"
    /\ UNCHANGED <<vars, slot, changed, reading, unread, pending, fresh, blind, edits, elsewhere>>

\* Mutant: a deleted macro is not sent.
MacroEditsPut(sl) ==
    LET at == InOrder({n \in DOMAIN ShownMacros(sl) : MacroUnsaved(sl, n)})
    IN  [k \in DOMAIN at |->
           [at |-> at[k], macro |-> [sl.draft[at[k]] EXCEPT !.triggers = @ \ Dropped(sl)]]]

\* macro_changes: a macro that only loses a button to a remap is not edited.
MacroEdits(sl) ==
    LET at == InOrder({n \in MacroSlots(model) : MacroUnsaved(sl, n)})
        put(n) == IF n \in DOMAIN sl.draft
                  THEN [sl.draft[n] EXCEPT !.triggers = @ \ Dropped(sl)] ELSE Zeroed
    IN  [k \in DOMAIN at |-> [at |-> at[k], macro |-> put(at[k])]]

UploadJob(sl) ==
    [mode |-> Here[1], slot |-> Here[2], op |-> "upload",
     map |-> IF ProfileUnsaved(sl) THEN sl.edited.map ELSE Keep,
     drops |-> Dropped(sl), edits |-> MacroEdits(sl),
     button |-> CHOOSE b \in Buttons : TRUE, output |-> Unrecognised, sound |-> TRUE]

ClearJob == [UploadJob(EmptySlot) EXCEPT !.op = "clear"]

Sends(job) ==
    /\ asked < MaxBatches /\ asked' = asked + 1
    /\ batch' = <<job>> /\ policy' = "force"
    /\ UNCHANGED <<model, pad, base, banks, dirty, pages, planned>>

ConfirmReview ==
    /\ ReviewOpen /\ batch = <<>> /\ pending = Nothing
    /\ Sends(UploadJob(slot))
    /\ review' = "none"
    /\ UNCHANGED <<slot, changed, reading, unread, pending, fresh, blind, edits, elsewhere>>

ConfirmClear ==
    /\ Open /\ ~reading /\ review = "none" /\ slot.pad # Nothing
    /\ Sends(ClearJob)
    /\ UNCHANGED evars

PlanUpload ==
    /\ batch # <<>> /\ Answered /\ ~reading
    /\ PlanJob
    /\ UNCHANGED evars

\* A failed write keeps the edits. A read follows every write.
WriteFails ==
    /\ Answered /\ ~reading
    /\ RefuseBatch
    /\ reading' = TRUE /\ fresh' = FALSE
    /\ UNCHANGED <<slot, changed, review, unread, pending, blind, edits, elsewhere>>

\* job_finished: the edits are what the controller holds, the macros as descriptors.
TakenAsHeld(sl) ==
    [pad |-> IF sl.edited # Nothing THEN sl.edited ELSE sl.pad, edited |-> Nothing,
     macros |-> IF sl.draft = Nothing THEN sl.macros
                ELSE [n \in DOMAIN sl.draft |-> [def |-> Descriptor(sl.draft[n]), loaded |-> FALSE]],
     draft |-> Nothing]

WriteSucceeds ==
    /\ Answered /\ ~reading
    /\ Write
    /\ slot' = IF batch[1].op = "clear" THEN EmptySlot ELSE TakenAsHeld(slot)
    /\ reading' = TRUE /\ fresh' = FALSE /\ blind' = FALSE
    /\ UNCHANGED <<changed, review, unread, pending, edits, elsewhere>>

EditorNext ==
    \/ PickOutput \/ PickMacro \/ AddMacroButton \/ RemoveMacroButton
    \/ NewMacro \/ DeleteMacro \/ EditMacro \/ RevertMacro
    \/ Discard \/ StartFromDefault
    \/ ImportProfile \/ ImportMacro \/ ConfirmImport \/ ConfirmMacroImport \/ CancelImport
    \/ ReadOk \/ ReadFails \/ StepsRead \/ StepsFail \/ ReadAgain
    \/ OtherProgram \/ ApplyChanged
    \/ BeginReview \/ CancelReview \/ ConfirmReview \/ ConfirmClear
    \/ PlanUpload \/ WriteFails \/ WriteSucceeds

EditorSpec == EditorInit /\ [][EditorNext]_<<vars, evars>>

-----------------------------------------------------------------------------
(* Properties.                                                             *)

IsProfile(p) ==
    /\ p.map \in [Buttons -> Outputs]
    /\ \A k \in DOMAIN p.refs : p.refs[k].at \in MacroSlots(model)

IsMacros(macros) ==
    DOMAIN macros \subseteq MacroSlots(model) /\ \A n \in DOMAIN macros : macros[n] \in Macro

EditorTypeOK ==
    /\ TypeOK
    /\ slot.pad = Nothing \/ IsProfile(slot.pad)
    /\ slot.edited = Nothing \/ IsProfile(slot.edited)
    /\ IsMacros(HeldMacros(slot)) /\ (slot.draft = Nothing \/ IsMacros(slot.draft))
    /\ IsMacros(unread)
    /\ review \in {"none", "reading", "open"}
    /\ {changed, reading, fresh, blind} \subseteq BOOLEAN
    /\ edits \in 0 .. MaxEdits /\ elsewhere \in 0 .. MaxElsewhere

\* No edit began on what a write's success left, and no other program wrote.
Undisturbed == ~blind /\ elsewhere = 0

\* However the two tabs, Revert and the imports were mixed, a button starts one macro of
\* the slot at most, and one that does has its default output: the controller would send
\* the macro in place of another.
OneStarter ==
    (Undisturbed /\ (fresh \/ Unsaved(slot)) /\ Shown(slot) # Nothing) =>
        \A b \in Buttons : StartedBy(slot, b) # Nothing =>
            /\ ~MappedTo(slot, b)
            /\ Cardinality({n \in DOMAIN ShownMacros(slot) :
                               b \in ShownMacros(slot)[n].triggers}) = 1

\* The write of what the window shows is one the controller's checks take.
JobIsAccepted == (batch # <<>> /\ planned < Len(batch) /\ Undisturbed) => ~MustRefuse

\* What the controller would show with what the window shows in it. The steps the slot
\* has of an unedited macro may be another program's by now.
Wanted(sl) ==
    LET macros == IF sl.draft # Nothing THEN Without(sl.draft, Dropped(sl)) ELSE AsShown(sl)
    IN  [used |-> TRUE, map |-> Shown(sl).map,
         macros |-> Settled(model, [n \in DOMAIN macros |-> Encoded(Descriptor(macros[n]))])]

Described(view) == [view EXCEPT !.macros = Descriptors(@)]

\* A write that succeeds leaves the slot as the window showed it: no edit is left out,
\* none is made that was not shown, and a button that was dropped is off its macro.
ShownIsWritten ==
    [][(WriteSucceeds /\ batch[1].op = "upload") =>
          Described(View(pad'[Here])) = Wanted(slot)]_<<vars, evars>>

\* "The buttons it gave up start it again; the buttons it took go back to the macro they
\* started, with the output the controller gives them. The slot's other edits stay."
\* (macro_revert.rs) A button whose macro was deleted meanwhile starts none.
PutBack(sl, n, new) ==
    LET own   == HeldTriggers(sl, n)
        taken == TakenBy(sl, n)
        home(b) == FirstOf(HeldMacros(sl), b)
    IN  /\ MacroUnsaved(sl, n) /\ ~MacroUnsaved(new, n)
        /\ \A b \in own : Current(new, b) = MacroOutput(n)
        /\ \A b \in taken :
             IF home(b) # Nothing /\ home(b) \notin DOMAIN sl.draft
             THEN StartedBy(new, b) = Nothing
             ELSE sl.pad = Nothing \/ Current(new, b) = HeldCurrent(sl, b)
        /\ \A b \in Buttons \ (own \cup taken) : Current(new, b) = Current(sl, b)
        /\ DOMAIN new.draft \ {n} = DOMAIN sl.draft \ {n}
        /\ \A k \in DOMAIN sl.draft \ {n} : new.draft[k].steps = sl.draft[k].steps

\* Two macros of the slot may share a button before it when another program wrote them so.
RevertPutsBack ==
    [][(Undisturbed /\ RevertMacro) => \E n \in MacroSlots(model) : PutBack(slot, n, slot')]_<<vars, evars>>

=============================================================================
