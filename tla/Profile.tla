------------------------------ MODULE Profile ------------------------------
(***************************************************************************)
(* A canonical profile and what a controller description says of it        *)
(* (description.rs, convert.rs, service/validation/profile.rs, and the     *)
(* edits of the GUI's settings.rs and state.rs).  A setting is named by    *)
(* its group and its field, the two parts of its JSON pointer.             *)
(*                                                                         *)
(* A description d has its buttons, which of them can be remapped, which   *)
(* can be an output, the outputs the model's schema names, and its modes.  *)
(* A mode has                                                              *)
(*   extras   its extra outputs, each with the buttons that may take it    *)
(*            (none listed: all),                                          *)
(*   numbers  the numbers it declares, each with its range,                *)
(*   flags    the flags it declares, each with the flags it excludes,      *)
(*   targets  the default targets that are not the button's own,           *)
(*   start    the percent at which a trigger starts by default.            *)
(*                                                                         *)
(* A profile has a mode, numbers, the flags that are on, and a map from    *)
(* buttons to outputs; a file may leave buttons out.                       *)
(***************************************************************************)
EXTENDS Integers, Sequences, FiniteSets

Disabled == "disabled"
Unrecognised == "unrecognised"

GroupOf(field) == field[1]

Numbers(d, mode) == DOMAIN d.modes[mode].numbers
Flags(d, mode)   == DOMAIN d.modes[mode].flags
Extras(d, mode)  == DOMAIN d.modes[mode].extras
Declared(d, mode) == Numbers(d, mode) \cup Flags(d, mode)
Groups(d, mode) == {GroupOf(f) : f \in Declared(d, mode)}

\* The flags that may not be on together with `field`: those it lists and those that
\* list it.
ExcludedBy(d, mode, field) ==
    d.modes[mode].flags[field] \cup {f \in Flags(d, mode) : field \in d.modes[mode].flags[f]}

Allows(d, mode, output, source) ==
    LET buttons == d.modes[mode].extras[output] IN buttons # {} => source \in buttons

IsRemap(d, mode, source, target) ==
    /\ source \in d.remappable
    /\ target \in {Disabled, source} \cup d.outputs
                   \cup {e \in Extras(d, mode) : Allows(d, mode, e, source)}

InRange(d, mode, field, value) ==
    LET range == d.modes[mode].numbers[field] IN range[1] <= value /\ value <= range[2]

\* What a description is checked for when it is loaded.
SettingsFit(m) ==
    /\ \A f \in DOMAIN m.numbers : m.numbers[f][1] <= m.numbers[f][2]
    /\ DOMAIN m.numbers \cap DOMAIN m.flags = {}
    /\ \A f \in DOMAIN m.flags : m.flags[f] \subseteq DOMAIN m.flags

ExtrasFit(d, m) ==
    /\ DOMAIN m.extras \cap (d.buttons \cup {Disabled, Unrecognised}) = {}
    /\ \A e \in DOMAIN m.extras : m.extras[e] \subseteq d.remappable

DefaultsFit(d, mode) ==
    LET m == d.modes[mode]
    IN  m.start \in 0 .. 100 /\ \A b \in DOMAIN m.targets : IsRemap(d, mode, b, m.targets[b])

IsDescription(d) ==
    \A mode \in DOMAIN d.modes :
        SettingsFit(d.modes[mode]) /\ ExtrasFit(d, d.modes[mode]) /\ DefaultsFit(d, mode)

-----------------------------------------------------------------------------
(* Validation, before anything is sent.                                    *)

\* The flags of `on` that clash with another one of it.
Clashes(d, mode, on) == {f \in on \cap Flags(d, mode) : d.modes[mode].flags[f] \cap on # {}}

MapIsValid(d, mode, map) ==
    \A b \in DOMAIN map :
        /\ b \in d.buttons
        /\ b \notin d.remappable => map[b] = b
        /\ map[b] \in {Disabled, Unrecognised} \cup d.named
                      \cup {e \in Extras(d, mode) : Allows(d, mode, e, b)}

IsValid(d, p) ==
    /\ \A f \in Numbers(d, p.mode) : f \in DOMAIN p.numbers /\ InRange(d, p.mode, f, p.numbers[f])
    /\ {GroupOf(f) : f \in DOMAIN p.numbers} \subseteq Groups(d, p.mode)
    /\ Clashes(d, p.mode, p.on) = {}
    /\ MapIsValid(d, p.mode, p.map)

-----------------------------------------------------------------------------
(* Edits.                                                                  *)

Clamped(range, value) ==
    IF value < range[1] THEN range[1] ELSE IF value > range[2] THEN range[2] ELSE value

WithNumber(d, p, field, value) ==
    [p EXCEPT !.numbers[field] = Clamped(d.modes[p.mode].numbers[field], value)]

\* Mutant: only the flags it lists are turned off.
WithFlagAlone(d, p, field, on) ==
    [p EXCEPT !.on = IF on THEN (@ \cup {field}) \ d.modes[p.mode].flags[field] ELSE @ \ {field}]

\* Turning a flag on turns off those that may not be on with it.
WithFlag(d, p, field, on) ==
    [p EXCEPT !.on = IF on THEN (@ \cup {field}) \ ExcludedBy(d, p.mode, field) ELSE @ \ {field}]

WithOutput(p, button, output) ==
    [p EXCEPT !.map = [b \in DOMAIN @ \cup {button} |-> IF b = button THEN output ELSE @[b]]]

\* A button a profile has no entry for keeps its own press.
OutputOf(p, button) == IF button \in DOMAIN p.map THEN p.map[button] ELSE button

\* The outputs the picker offers, macros left aside: the button's default and what it
\* sends now are among them even when no other button could take them.
Choices(d, p, default, button) ==
    d.outputs \cup {e \in Extras(d, p.mode) : Allows(d, p.mode, e, button)}
    \cup {Disabled, OutputOf(default, button), OutputOf(p, button)}

-----------------------------------------------------------------------------
(* Conversion of a file made for another mode.                             *)

\* The fields a mode declares in a group, with their ranges.
Shape(d, mode, group) ==
    <<{<<f, d.modes[mode].numbers[f]>> : f \in {n \in Numbers(d, mode) : GroupOf(n) = group}},
      {f \in Flags(d, mode) : GroupOf(f) = group}>>

\* Mutant: a group is reset only where the other mode lacks it.
MissingGroups(d, from, to) == Groups(d, to) \ Groups(d, from)

ResetGroups(d, from, to) == {g \in Groups(d, to) : Shape(d, from, g) # Shape(d, to, g)}

Exists(d, mode, output, source) ==
    output \in {Disabled} \cup d.buttons \cup {e \in Extras(d, mode) : Allows(d, mode, e, source)}

\* A button at its default takes the target mode's; a lost output is disabled.
AtDefault(p, from, to, b) == b \in DOMAIN from.map \cap DOMAIN to.map /\ p.map[b] = from.map[b]

ConvertedOutput(d, p, from, to, b) ==
    IF AtDefault(p, from, to, b) THEN to.map[b]
    ELSE IF Exists(d, to.mode, p.map[b], b) THEN p.map[b]
    ELSE Disabled

\* `p` in the mode of `to`, the default there; `from` is the default of p's mode.
Convert(d, p, from, to) ==
    LET reset == ResetGroups(d, p.mode, to.mode)
        stay  == Groups(d, to.mode) \ reset
        kept  == {f \in DOMAIN p.numbers : GroupOf(f) \in stay}
        fresh == {f \in DOMAIN to.numbers : GroupOf(f) \in reset}
    IN  IF p.mode = to.mode THEN p
        ELSE [mode    |-> to.mode,
              numbers |-> [f \in kept \cup fresh |-> IF f \in kept THEN p.numbers[f] ELSE to.numbers[f]],
              on      |-> {f \in p.on : GroupOf(f) \in stay} \cup {f \in to.on : GroupOf(f) \in reset},
              map     |-> [b \in DOMAIN p.map |-> ConvertedOutput(d, p, from, to, b)]]

\* What the import warning lists.
Losses(d, p, from, to) ==
    IF p.mode = to.mode THEN {}
    ELSE {<<"output", b>> : b \in {c \in DOMAIN p.map :
              ~AtDefault(p, from, to, c) /\ ~Exists(d, to.mode, p.map[c], c)}}
         \cup {<<"settings", g>> : g \in ResetGroups(d, p.mode, to.mode)}

=============================================================================
