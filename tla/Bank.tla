-------------------------------- MODULE Bank --------------------------------
(***************************************************************************)
(* One slot of a bank, as the two kinds of codec keep it.                  *)
(*                                                                         *)
(* A slotted model (the Pro 3) has a fixed descriptor for every macro slot *)
(* and step pages outside the bank; clearing a slot only takes its marker. *)
(* A packed model (the Ultimates) keeps a slot's macros in records without *)
(* gaps, steps included, and a flag for each section of the slot; an edit  *)
(* of one macro writes them all again.                                     *)
(*                                                                         *)
(* A macro is the buttons that start it, the bits of its trigger that name *)
(* no button, and its steps. Macro slots count from 1 here, from 0 in the  *)
(* code.                                                                   *)
(***************************************************************************)
EXTENDS Integers, Sequences, FiniteSets, SequencesExt

CONSTANTS Models, PackedModels,
          MacroCount,        \* macro slots of a model
          Buttons, Outputs,
          DefaultMap,        \* the outputs of a new slot
          StepLists, NoSteps

ASSUME BankConstants ==
    /\ PackedModels \subseteq Models
    /\ MacroCount \in [Models -> Nat]
    /\ DefaultMap \in [Buttons -> Outputs]
    /\ NoSteps \in StepLists

Macro == [triggers : SUBSET Buttons, unknown : BOOLEAN, steps : StepLists]
Zeroed == [triggers |-> {}, unknown |-> FALSE, steps |-> NoSteps]

Sections == {"map", "macros"}

\* `parts` are the sections in use of a packed slot; a slotted one has no such flags.
MacroSlots(model) == 1 .. MacroCount[model]
IsPacked(model) == model \in PackedModels

\* A packed slot holds at most as many records as the model has macro slots.
Lengths(model) == IF IsPacked(model) THEN 0 .. MacroCount[model] ELSE {MacroCount[model]}
IsSlot(model, s) ==
    \E n \in Lengths(model) :
      s \in [used : BOOLEAN, parts : SUBSET Sections, map : [Buttons -> Outputs],
             macros : [1 .. n -> Macro]]

\* No macro, as a function of macro slots.
NoMacros == [n \in {} |-> Zeroed]

-----------------------------------------------------------------------------
(* Decoding.                                                               *)

InUse(s, part) == s.used /\ part \in s.parts

\* The macros of a slot, by macro slot: the records of a packed slot that is in use, or
\* the descriptors with a trigger or steps. A slotted slot that is not in use still
\* shows the macros it had.
MacrosOf(model, s) ==
    IF IsPacked(model) THEN IF InUse(s, "macros") THEN s.macros ELSE NoMacros
    ELSE [n \in {k \in DOMAIN s.macros : s.macros[k] # Zeroed} |-> s.macros[n]]

MapOf(model, s) == IF IsPacked(model) /\ ~InUse(s, "map") THEN DefaultMap ELSE s.map

-----------------------------------------------------------------------------
(* Encoding.                                                               *)

\* Only named triggers are encoded.
Encoded(macro) == [macro EXCEPT !.unknown = FALSE]

\* The macro slots of S from the lowest.
InOrder(S) ==
    CHOOSE order \in [1 .. Cardinality(S) -> S] :
      \A i, j \in DOMAIN order : i < j => order[i] < order[j]

\* Macros by macro slot, without gaps.
Pack(macros) ==
    LET order == InOrder(DOMAIN macros) IN [k \in DOMAIN order |-> macros[order[k]]]

\* What a model shows of macros put by macro slot.
Settled(model, macros) == IF IsPacked(model) THEN Pack(macros) ELSE macros

\* write_macros: the records, encoded again.
Records(macros) ==
    LET packed == Pack(macros) IN [k \in DOMAIN packed |-> Encoded(packed[k])]

\* write_slot of a packed slot: every flag is set. A section that is kept starts from the
\* default where it, or the slot, is not in use.
WriteSlot(map, records) == [used |-> TRUE, parts |-> Sections, map |-> map, macros |-> records]
MapKept(s) == IF InUse(s, "map") THEN s.map ELSE DefaultMap
RecordsKept(s) == IF InUse(s, "macros") THEN s.macros ELSE <<>>

\* compile_profile: a profile without macros.
Compile(model, s, map) ==
    IF IsPacked(model) THEN WriteSlot(map, <<>>)
    ELSE [s EXCEPT !.used = TRUE, !.map = map,
                   !.macros = [n \in MacroSlots(model) |-> Zeroed]]

CompileKeepMacros(model, s, map) ==
    IF IsPacked(model) THEN WriteSlot(map, RecordsKept(s))
    ELSE [s EXCEPT !.used = TRUE, !.map = map]

Without(macros, buttons) ==
    [n \in DOMAIN macros |-> [macros[n] EXCEPT !.triggers = @ \ buttons]]

\* The buttons no longer start any macro of the slot. Every macro stays.
DropMacros(model, s, buttons) ==
    IF IsPacked(model)
    THEN WriteSlot(MapKept(s), Records(Without(MacrosOf(model, s), buttons)))
    ELSE [s EXCEPT !.macros = Without(@, buttons)]

\* The macros with `macro` in macro slot n, or without n for Zeroed.
With(macros, n, macro) ==
    [k \in (DOMAIN macros \ {n}) \cup (IF macro = Zeroed THEN {} ELSE {n}) |->
        IF k = n THEN macro ELSE macros[k]]

SetMacro(model, s, n, macro) ==
    IF IsPacked(model) THEN WriteSlot(MapKept(s), Records(With(MacrosOf(model, s), n, macro)))
    ELSE [s EXCEPT !.macros[n] = Encoded(macro)]

\* deactivate_profile: the slot's flags go, everything else stays as read.
Deactivate(model, s) == [s EXCEPT !.used = FALSE, !.parts = {}]

=============================================================================
