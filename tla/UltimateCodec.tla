--------------------------- MODULE UltimateCodec ---------------------------
(***************************************************************************)
(* The settings and the button map of an Ultimate slot (devices/ultimate/  *)
(* profile.rs and edit.rs).                                                *)
(*                                                                         *)
(* A slot is whether it is active, its sections in use, a code per button, *)
(* the raw values of the sticks and triggers and the two motor strengths   *)
(* by place, and the toggles that are set.  The codes are those of the     *)
(* description, d.codes[mode].                                             *)
(***************************************************************************)
EXTENDS Codec

Sections == {"vibration", "sticks", "triggers", "toggles", "map"}

Zero == "0"

\* A profile has every number and flag in every mode, whatever the mode declares.
UltimateFields == ({"sticks", "triggers"} \X Ends) \cup ({"vibration"} \X Levels)
UltimateFlags ==
    ({"sticks"} \X (Toggles \cup {"swap_right_stick_with_triggers", "no_dead_zone", "dpad_four_way"}))
    \cup {<<"triggers", "swap_triggers">>}

\* Half up, and over 100 for a raw value that is out of range.
UltimatePercent(raw, max) == (raw * 100 + max \div 2) \div max
UltimateRaw(pct, max) == (pct * max + 50) \div 100

\* Mutant: a percent is always encoded.
AlwaysEncode(base, pct, max) == UltimateRaw(pct, max)

UltimateKeepOrEncode(base, pct, max) == IF UltimatePercent(base, max) = pct THEN base ELSE UltimateRaw(pct, max)

KeepOrStrengthen(base, level) ==
    IF Level(base) = level /\ base # NotANumber THEN base ELSE Strength(level)

\* A code that names nothing reads as disabled.
OutputOfCode(d, mode, code) ==
    LET named == {o \in DOMAIN d.codes[mode] : d.codes[mode][o] = code}
    IN  IF named = {} THEN Disabled ELSE CHOOSE o \in named : TRUE

UltimateCodeOf(d, mode, output) == IF output = Disabled THEN Zero ELSE d.codes[mode][output]

UltimateDefault(d, mode) ==
    LET m == d.modes[mode]
    IN  [mode    |-> mode,
         numbers |-> [f \in UltimateFields |->
                        CASE GroupOf(f) = "vibration" -> 5
                          [] f[2] \in {"left_max_pct", "right_max_pct"} -> 100
                          [] OTHER -> IF GroupOf(f) = "triggers" THEN m.start ELSE 0],
         on      |-> {},
         map     |-> [b \in d.buttons |-> IF b \in DOMAIN m.targets THEN m.targets[b] ELSE b]]

-----------------------------------------------------------------------------
(* A section that is not in use reads as the mode's default for it, the    *)
(* toggles as off.                                                         *)

UltimateNumber(d, mode, s, f) ==
    IF GroupOf(f) \notin s.used THEN UltimateDefault(d, mode).numbers[f]
    ELSE IF GroupOf(f) = "vibration" THEN Level(s.raw[PlaceOf(f)])
    ELSE UltimatePercent(s.raw[PlaceOf(f)], RawMax(GroupOf(f)))

UltimateDecode(d, mode, s) ==
    [mode    |-> mode,
     numbers |-> [f \in UltimateFields |-> UltimateNumber(d, mode, s, f)],
     on      |-> IF "toggles" \in s.used THEN s.bits \cap UltimateFlags ELSE {},
     map     |-> [b \in DOMAIN s.map |->
                    IF "map" \in s.used THEN OutputOfCode(d, mode, s.map[b])
                    ELSE UltimateDefault(d, mode).map[b]]]

-----------------------------------------------------------------------------
(* Writing.  The first edit of a slot that is not in use, and any edit of  *)
(* a section that is not, starts the section from zeros.                   *)

Fresh(s, section) == ~s.active \/ section \notin s.used

Started(s) ==
    [s EXCEPT !.map  = [b \in DOMAIN @ |-> IF Fresh(s, "map") THEN Zero ELSE @[b]],
              !.raw  = [place \in DOMAIN @ |-> IF Fresh(s, place[1]) THEN 0 ELSE @[place]],
              !.bits = IF Fresh(s, "toggles") THEN {} ELSE @]

UltimateCompiledRaw(p, old, place) ==
    LET f == CHOOSE g \in UltimateFields : PlaceOf(g) = place
    IN  IF GroupOf(f) = "vibration" THEN KeepOrStrengthen(old, p.numbers[f])
        ELSE UltimateKeepOrEncode(old, p.numbers[f], RawMax(GroupOf(f)))

\* Toggles no profile holds stay, and so do the entries the profile leaves out.
KeptAndSet(p, old) == (old \ UltimateFlags) \cup (p.on \cap UltimateFlags)

UltimateCompile(d, p, s) ==
    LET old == Started(s)
    IN  [active |-> TRUE,
         used   |-> Sections,
         map    |-> [b \in DOMAIN s.map |->
                       IF b \in DOMAIN p.map THEN UltimateCodeOf(d, p.mode, p.map[b]) ELSE old.map[b]],
         raw    |-> [place \in DOMAIN s.raw |-> UltimateCompiledRaw(p, old.raw[place], place)],
         bits   |-> KeptAndSet(p, old.bits)]

UltimateCompiles(d, p) ==
    /\ UltimateFields \subseteq DOMAIN p.numbers
    /\ \A b \in DOMAIN p.map : p.map[b] \in {Disabled} \cup DOMAIN d.codes[p.mode]

=============================================================================
