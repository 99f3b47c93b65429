----------------------------- MODULE StepEditor -----------------------------
(***************************************************************************)
(* The Macros tab: the edits of a macro's steps, and Ctrl+Z.               *)
(*                                                                         *)
(* One profile slot of each pad, shown one pad at a time. A macro slot     *)
(* holds a step list, or none (<<>>). Every step edit that changes         *)
(* something is recorded in one list for the whole window; Ctrl+Z takes    *)
(* the latest edit of the shown macro back while the steps are still as    *)
(* that edit left them (step_table.rs). The steps also change in other     *)
(* ways: Discard, a new, deleted or imported macro, a write and the        *)
(* read-back of what the pad recorded.                                     *)
(*                                                                         *)
(* `since` counts those other changes; an undo entry keeps the pad and the *)
(* count of its edit in `pad` and `since`. Neither is state of the code:   *)
(* the properties tell a macro's own edits by them.                        *)
(***************************************************************************)
EXTENDS Steps

CONSTANTS Pads, MacroSlots,
          OnOff,        \* triggers are on or off in the mode
          Snaps,        \* sticks take eight directions (MacroSticks::Directions8)
          MinMs,        \* the shortest step
          Durations,    \* what is typed as a step's duration
          Values,       \* the values a control is set to
          Recorded,     \* the step lists found on pads and in macro files
          UndoDepth,    \* the most edits kept for Ctrl+Z (100)
          MaxEdits      \* bound: changes in a run

ASSUME EditorConstants ==
    /\ OnOff \in BOOLEAN
    /\ Values \subseteq 0 .. Full
    /\ MinMs \in 0 .. MaxMs /\ Durations \subseteq Nat
    /\ \A recorded \in Recorded : recorded \in Seq(Step)
    /\ UndoDepth \in Nat \ {0} /\ MaxEdits \in Nat

VARIABLES held,     \* PadMacro.def of each macro slot, per pad
          steps,    \* the steps shown, edited or not
          undo,     \* AppState.step_undo
          shown,    \* the active pad
          since, edits

vars == <<held, steps, undo, shown, since, edits>>

\* What an edit that joins the last sets: a step's duration or control; none is <<0, "">>.
Key == Nat \X (Controls \cup {"duration", ""})

Entry == [n : MacroSlots, before : Seq(Step), after : Seq(Step),
          key : Key, pad : Pads, since : Nat]

NoKey == <<0, "">>

\* A pad whose triggers are on or off keeps of a trigger that it is pulled.
Kept(step) ==
    IF OnOff
    THEN [step EXCEPT !.at = [c \in Controls |->
            IF c \notin Triggers THEN @[c]
            ELSE IF @[c][1] > 0 THEN <<Full, Full>> ELSE <<0, 0>>]]
    ELSE step

\* What a pad's recorded steps are read as.
ReadAs(recorded) ==
    LET onPad == Expand(recorded)
    IN  Fold([i \in 1 .. Len(onPad) |-> Kept(onPad[i])])

Init ==
    /\ held \in [Pads -> [MacroSlots -> {ReadAs(r) : r \in Recorded}]]
    /\ steps = held
    /\ undo = <<>>
    /\ shown \in Pads
    /\ since = [p \in Pads |-> [n \in MacroSlots |-> 0]]
    /\ edits = 0

Now(n) == steps[shown][n]

Counted == edits < MaxEdits /\ edits' = edits + 1

\* Mutant: an edit joins one of another macro.
RecordJoinsAny(n, after, key) ==
    LET entry == [n |-> n, before |-> Now(n), after |-> after, key |-> key,
                  pad |-> shown, since |-> since[shown][n]]
    IN  undo' = IF after = Now(n) THEN undo
                ELSE IF key # NoKey /\ undo # <<>> /\ Last(undo).key = key
                THEN [undo EXCEPT ![Len(undo)].after = after]
                ELSE Append(IF Len(undo) >= UndoDepth THEN Tail(undo) ELSE undo, entry)

\* record_step_edit: an edit that changed nothing leaves no entry; one with the key of
\* the last joins it; the oldest goes when the list is full.
Record(n, after, key) ==
    LET entry  == [n |-> n, before |-> Now(n), after |-> after, key |-> key,
                   pad |-> shown, since |-> since[shown][n]]
        joins  == /\ key # NoKey /\ undo # <<>>
                  /\ Last(undo).key = key /\ Last(undo).n = n /\ Last(undo).after = Now(n)
        kept   == IF Len(undo) >= UndoDepth THEN Tail(undo) ELSE undo
    IN  undo' = IF after = Now(n) THEN undo
                ELSE IF joins THEN [undo EXCEPT ![Len(undo)].after = after]
                ELSE Append(kept, entry)

\* edit_macro with the record of the edit.
Edit(n, after, key) ==
    /\ Counted
    /\ steps' = [steps EXCEPT ![shown][n] = after]
    /\ Record(n, after, key)
    /\ UNCHANGED <<held, shown, since>>

StepsFull(n) == ExpandedLen(Now(n)) >= MaxSteps

\* edit_step, the edits that add a step: none while the macro is full.
AddStep(n, i) == ~StepsFull(n) /\ Edit(n, AddAfter(Now(n), i), NoKey)
DuplicateStep(n, i) == ~StepsFull(n) /\ Edit(n, Duplicate(Now(n), i), NoKey)
SplitStep(n, i) == ~StepsFull(n) /\ Edit(n, Split(Now(n), i), NoKey)

MoveUp(n, i) == Edit(n, Move(Now(n), i, i - 1), NoKey)
MoveDown(n, i) == Edit(n, Move(Now(n), i, i + 1), NoKey)
DeleteStep(n, i) == Edit(n, Delete(Now(n), i), NoKey)

\* edit_step_values: `step` takes the place of step i, then the glides are pruned.
EditValues(n, i, step, key) == Edit(n, Prune([Now(n) EXCEPT ![i] = step]), key)

SetStepDuration(n, i) ==
    \E ms \in Durations :
        EditValues(n, i, [Now(n)[i] EXCEPT !.ms = Most(MinMs, Least(ms, MaxMs))],
                   <<i, "duration">>)

ToggleStepButton(n, i) ==
    \E b \in StepButtons :
        EditValues(n, i, [Now(n)[i] EXCEPT !.press = SymDiff(@, {b})], NoKey)

\* A trigger's chip: held means its value is above 0. Letting it go ends its glide.
ToggleTrigger(n, i) ==
    \E c \in Triggers :
        LET step == Now(n)[i]
            on   == step.at[c][1] = 0
        IN  EditValues(n, i, [step EXCEPT !.at[c] = IF on THEN <<Full, Full>> ELSE <<0, 0>>,
                                          !.glide = IF on THEN @ ELSE @ \ {c}], NoKey)

\* The arrow keys. Positions 0 to 2 on an axis: low, rest, high. The edges are 64 and 192 of 255.
Rank(v) == (IF 4 * v > Full THEN 1 ELSE 0) + (IF 4 * v > 3 * Full THEN 1 ELSE 0)
Nudged(v, d) == <<0, Rest, Full>>[1 + Most(0, Least(2, Rank(v) + d))]

Directions == {0, Rest, Full}

\* set_stick and drag_stick: a model with eight directions takes the nearest.
SetStick(n, i) ==
    \E c \in Sticks, apart \in BOOLEAN :
    \E x, y \in IF Snaps THEN Directions ELSE Values :
        EditValues(n, i, [Now(n)[i] EXCEPT !.at[c] = <<x, y>>],
                   IF apart THEN NoKey ELSE <<i, c>>)

NudgeStick(n, i) ==
    \E c \in Sticks, d \in {<<-1, 0>>, <<1, 0>>, <<0, -1>>, <<0, 1>>} :
        LET at == Now(n)[i].at[c]
        IN  EditValues(n, i, [Now(n)[i] EXCEPT
                                !.at[c] = <<Nudged(at[1], d[1]), Nudged(at[2], d[2])>>],
                       NoKey)

SetTrigger(n, i) ==
    /\ ~OnOff
    /\ \E c \in Triggers, v \in Values, apart \in BOOLEAN :
        EditValues(n, i, [Now(n)[i] EXCEPT !.at[c] = <<v, v>>],
                   IF apart THEN NoKey ELSE <<i, c>>)

Glide(step, c, on) == [step EXCEPT !.glide = IF on THEN @ \cup {c} ELSE @ \ {c}]

SetStickGlide(n, i) ==
    \E c \in Sticks, on \in BOOLEAN : EditValues(n, i, Glide(Now(n)[i], c, on), NoKey)

SetTriggerGlide(n, i) ==
    /\ ~OnOff
    /\ \E c \in Triggers, on \in BOOLEAN : EditValues(n, i, Glide(Now(n)[i], c, on), NoKey)

StepEdit ==
    \E n \in MacroSlots : \E i \in DOMAIN Now(n) :
        \/ AddStep(n, i) \/ DuplicateStep(n, i) \/ SplitStep(n, i)
        \/ MoveUp(n, i) \/ MoveDown(n, i) \/ DeleteStep(n, i)
        \/ SetStepDuration(n, i) \/ ToggleStepButton(n, i) \/ ToggleTrigger(n, i)
        \/ SetStick(n, i) \/ NudgeStick(n, i) \/ SetTrigger(n, i)
        \/ SetStickGlide(n, i) \/ SetTriggerGlide(n, i)

\* undoable: the latest entry of the macro slot, when the steps are as it left them. An
\* entry names the profile slot and the macro slot.
EntriesOf(n) == {k \in DOMAIN undo : undo[k].n = n}
Latest(n) == Max(EntriesOf(n))
CanUndoStep(n) == EntriesOf(n) # {} /\ Now(n) # <<>> /\ undo[Latest(n)].after = Now(n)

UndoStep(n) ==
    /\ CanUndoStep(n)
    /\ steps' = [steps EXCEPT ![shown][n] = undo[Latest(n)].before]
    /\ undo' = RemoveAt(undo, Latest(n))
    /\ UNCHANGED <<held, shown, since, edits>>

-----------------------------------------------------------------------------
(* The other changes.                                                      *)

\* `after` is shown for every macro slot of `p`.
Change(p, after) ==
    /\ Counted
    /\ steps' = [steps EXCEPT ![p] = after]
    /\ since' = [since EXCEPT ![p] = [n \in MacroSlots |->
                                        @[n] + IF after[n] = steps[p][n] THEN 0 ELSE 1]]
    /\ UNCHANGED <<undo, shown>>

Discard == Change(shown, held[shown]) /\ UNCHANGED held

NewMacro(n) ==
    /\ Now(n) = <<>>
    /\ Change(shown, [steps[shown] EXCEPT ![n] = <<RestStep(NewStepMs)>>])
    /\ UNCHANGED held

DeleteMacro(n) ==
    /\ Now(n) # <<>>
    /\ Change(shown, [steps[shown] EXCEPT ![n] = <<>>])
    /\ UNCHANGED held

\* A macro file takes the place of macro n. A file that fails the checks is refused.
ImportMacro(n) ==
    \E r \in Recorded \ {<<>>} :
        /\ GlidesAreRight(r, OnOff) /\ StepsFit(r)
        /\ Change(shown, [steps[shown] EXCEPT ![n] = r])
        /\ UNCHANGED held

\* A write of every edited macro, blocked while one fails the checks, and the read that
\* follows: the pad keeps no glides, so they are found again in the short steps.
Written(p) ==
    /\ steps[p] # held[p]
    /\ \A n \in MacroSlots : GlidesAreRight(steps[p][n], OnOff) /\ StepsFit(steps[p][n])
    /\ LET read == [n \in MacroSlots |-> ReadAs(steps[p][n])]
       IN  Change(p, read) /\ held' = [held EXCEPT ![p] = read]

Show(p) == p # shown /\ shown' = p /\ UNCHANGED <<held, steps, undo, since, edits>>

Next ==
    \/ StepEdit
    \/ \E n \in MacroSlots : UndoStep(n) \/ NewMacro(n) \/ DeleteMacro(n) \/ ImportMacro(n)
    \/ Discard
    \/ \E p \in Pads : Written(p)

Spec == Init /\ [][Next]_vars

\* With the pads shown in turn.
SpecPads == Init /\ [][Next \/ \E p \in Pads : Show(p)]_vars

-----------------------------------------------------------------------------
(* Properties.                                                             *)

TypeOK ==
    /\ held \in [Pads -> [MacroSlots -> Seq(Step)]]
    /\ steps \in [Pads -> [MacroSlots -> Seq(Step)]]
    /\ undo \in Seq(Entry) /\ Len(undo) <= UndoDepth
    /\ shown \in Pads
    /\ since \in [Pads -> [MacroSlots -> Nat]]
    /\ edits \in 0 .. MaxEdits

ShownLists == {steps[p][n] : p \in Pads, n \in MacroSlots}

\* Whatever is edited, moved, deleted, taken back or read, a glide always leads to a
\* next step that holds the control elsewhere, and no trigger that is on or off glides:
\* the checks before a write never refuse a glide the editor made; and the switch of a glide
\* is offered exactly where a glide that is turned on stays on.
GlidesEnd ==
    \A s \in ShownLists :
        /\ GlidesAreRight(s, OnOff)
        /\ \A i \in DOMAIN s : \A c \in Controls :
             CanGlide(s, i, c) <=> c \in Prune([s EXCEPT ![i].glide = @ \cup {c}])[i].glide

\* A glide is recorded as short steps and read back as a glide. Reading may find other
\* glides than were drawn, but what plays is the same, in the same number of steps on
\* the pad (by which a descriptor finds the steps read for it), for the same time.
ReadPlaysTheSame ==
    \A s \in ShownLists :
        LET recorded == Expand(s)
            read     == Fold(recorded)
        IN  /\ Expand(read) = recorded
            /\ ExpandedLen(read) = Len(recorded) /\ Len(recorded) = ExpandedLen(s)
            /\ TotalMs(recorded) = TotalMs(s)

\* The entries of one macro, oldest first, lead from one to the next up to the steps
\* shown, as long as nothing else changed the macro: each Ctrl+Z goes one edit back, and
\* never over a change that was none.
UndoChains ==
    \A i, j \in DOMAIN undo :
        LET a == undo[i]
            b == undo[j]
        IN  /\ (i < j /\ a.n = b.n /\ a.pad = b.pad /\ a.since = b.since
                  /\ \A k \in i + 1 .. j - 1 : undo[k].n # a.n) => a.after = b.before
            /\ (/\ a.since = since[a.pad][a.n]
                /\ \A k \in i + 1 .. Len(undo) : undo[k].n # a.n)
                  => a.after = steps[a.pad][a.n]

\* A step split in two plays for the same time, and nothing jumps where it was split: a
\* control passes there at a value on its way, and glides from there only if it did.
SplitPlaysOn ==
    \A s \in ShownLists : \A i \in DOMAIN s :
        LET t == Split(s, i)
            between(a, v, b) == Least(a, b) <= v /\ v <= Most(a, b)
        IN  /\ TotalMs(t) = TotalMs(s)
            /\ (Len(t) > Len(s)) =>
                 \A c \in Controls :
                   /\ \A k \in 1 .. 2 : between(s[i].at[c][k], t[i + 1].at[c][k],
                                                IF c \in s[i].glide THEN s[i + 1].at[c][k]
                                                ELSE s[i].at[c][k])
                   /\ (c \in t[i].glide \cup t[i + 1].glide) <=> (c \in s[i].glide)

\* The row of a step names every button and trigger held at any moment of it and draws
\* every stick off its rest, a pause plays nothing, and it starts when the pad gets there.
RowsShowWhatPlays ==
    \A s \in ShownLists : \A i \in DOMAIN s :
        LET row   == StepRows(s)[i]
            plays == IF i = Len(s) THEN <<[s[i] EXCEPT !.glide = {}]>>
                     ELSE Expand(<<s[i], s[i + 1]>>)
            moments == IF i = Len(s) THEN plays ELSE Front(plays)
        IN  /\ \A k \in DOMAIN moments :
                 /\ moments[k].press \cup {c \in Triggers : moments[k].at[c][1] > 0}
                      \subseteq row.held
                 /\ {c \in Sticks : moments[k].at[c] # <<Rest, Rest>>} \subseteq row.sticks
                 /\ row.pause => moments[k] = RestStep(moments[k].ms)
            /\ row.held \subseteq Lanes(s)
            /\ row.starts_at = TotalMs(Expand(SubSeq(s, 1, i - 1)))

\* What the editor draws is what plays, before and after the macro is recorded, read
\* again or split.
ShownIsPlayed == ReadPlaysTheSame /\ SplitPlaysOn /\ RowsShowWhatPlays

\* "Whether Ctrl+Z can take back a step edit of macro slot `n`: its latest one"
\* (step_table.rs): what Ctrl+Z takes back was done to the macro that is shown.
UndoTakesBackItsOwn == \A n \in MacroSlots : CanUndoStep(n) => undo[Latest(n)].pad = shown

=============================================================================
