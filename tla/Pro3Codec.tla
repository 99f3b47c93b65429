----------------------------- MODULE Pro3Codec -----------------------------
(***************************************************************************)
(* The settings and the button map of a Pro 3 slot (devices/pro3/          *)
(* profile.rs and tables.rs).                                              *)
(*                                                                         *)
(* A slot is whether it is active, a code of 4 bytes per button, the raw   *)
(* bytes of the sticks and triggers and the two motor strengths by place,  *)
(* the flag bits that are set, and the range of the motors.                *)
(***************************************************************************)
EXTENDS Codec

-----------------------------------------------------------------------------
(* The tables.                                                             *)

Sources == <<"right face", "bottom face", "top face", "left face", "l1", "r1", "l2", "r2",
             "l3", "r3", "select/back", "start/menu", "turbo", "home/guide",
             "d-pad up", "d-pad down", "d-pad left", "d-pad right", "rp", "lp", "l4", "r4">>
Paddles == {"rp", "lp", "l4", "r4"}

Null == "00000000"
Screenshot == "00004000"

XInputCodes == <<"00000020", "00002000", "20000000", "00000020", "00040000", "00080000", "00400000",
                 "00800000", "02000000", "04000000", "08000000", "01000000", "00000100", "00000200",
                 "00020000", "00010000", "80000000", "40000000", "00000002", "00000004", "00002000",
                 "00000040">>
SwitchFaces == <<"00200000", "00100000", "10000000", "20000000">>

\* The outputs that are no source, by mode, and the entries of a mode in table order.
TargetOnly(mode) ==
    CASE mode = "xinput" -> <<>>
      [] mode = "switch" -> <<[name |-> "screenshot", code |-> Screenshot, variant |-> Null]>>
      [] mode = "dinput" -> [i \in 1 .. 4 |->
            [name    |-> <<"rp output", "lp output", "l4 output", "r4 output">>[i],
             code    |-> XInputCodes[18 + i], variant |-> Null]]

\* The second code of an XInput face; Null where a button has none.
Variant(mode, i) ==
    IF mode = "xinput" /\ i \in {1, 2, 4}
    THEN [n \in 1 .. 4 |-> <<"00100000", "00200000", Null, "10000000">>[n]][i]
    ELSE Null

Table(mode) ==
    [i \in 1 .. 22 |->
       [name    |-> Sources[i],
        code    |-> IF mode # "xinput" /\ i <= 4 THEN SwitchFaces[i] ELSE XInputCodes[i],
        variant |-> Variant(mode, i)]]
    \o TargetOnly(mode)

Entries == [xinput |-> Table("xinput"), switch |-> Table("switch"), dinput |-> Table("dinput")]

Names(mode) == LET e == Entries[mode] IN {e[i].name : i \in DOMAIN e}
EntryOf(mode, name) == LET e == Entries[mode] IN e[CHOOSE i \in DOMAIN e : e[i].name = name]

IsOutputOnly(mode, code) ==
    \E i \in DOMAIN TargetOnly(mode) : TargetOnly(mode)[i].code = code

-----------------------------------------------------------------------------
(* The button map.                                                         *)

\* The first of the entries `among` that is not the source itself, or else the source.
Best(mode, source, among) ==
    LET e == Entries[mode]
        others == {i \in among : e[i].name # source}
        pool == IF others = {} THEN among ELSE others
    IN  e[CHOOSE i \in pool : \A j \in pool : i <= j].name

\* The output a code stands for on a button.  A paddle's own code means that nothing is
\* assigned, unless the mode has an output with that code.  No paddle is a target.
Target(mode, source, code) ==
    LET e == Entries[mode]
        own == EntryOf(mode, source)
        primary == {i \in DOMAIN e : e[i].code = code /\ e[i].name \notin Paddles}
        variant == {i \in DOMAIN e : e[i].variant = code /\ e[i].name \notin Paddles}
    IN  IF source = "home/guide" THEN source
        ELSE IF code = Null \/ (source \in Paddles /\ code = own.code /\ ~IsOutputOnly(mode, code))
             THEN Disabled
        ELSE IF source \notin Paddles /\ code \in {own.code, own.variant} THEN source
        ELSE IF primary # {} THEN Best(mode, source, primary)
        ELSE IF variant # {} THEN Best(mode, source, variant)
        ELSE Unrecognised

\* The code that is written for an output: the variant if there is one.
Pro3CodeOf(mode, name) ==
    LET e == EntryOf(mode, name) IN IF e.variant = Null THEN e.code ELSE e.variant

\* Mutant: a paddle is always disabled by its own code.
DisabledByOwnCode(mode, source) == IF source \in Paddles THEN Pro3CodeOf(mode, source) ELSE Null

DisabledCode(mode, source) ==
    IF source \in Paddles /\ ~IsOutputOnly(mode, Pro3CodeOf(mode, source)) THEN Pro3CodeOf(mode, source)
    ELSE Null

\* A button the profile leaves out, and home in any case.
OwnCode(mode, source) ==
    IF mode = "switch" /\ source = "turbo" THEN Screenshot ELSE Pro3CodeOf(mode, source)

\* An entry that reads as the output already is kept.
EntryKept(mode, source, code, output) == Target(mode, source, code) = output

CompiledCode(mode, source, code, output) ==
    IF source = "home/guide" THEN Pro3CodeOf(mode, source)
    ELSE IF EntryKept(mode, source, code, output) THEN code
    ELSE IF output = Disabled THEN DisabledCode(mode, source)
    ELSE IF output = "screenshot" /\ mode # "switch" THEN Pro3CodeOf(mode, source)
    ELSE Pro3CodeOf(mode, output)

\* An unrecognised entry has no code but the one it holds.
CanCompile(mode, source, code, output) ==
    ~EntryKept(mode, source, code, output) => output \in {Disabled, "screenshot"} \cup Names(mode)

-----------------------------------------------------------------------------
(* Sticks, triggers, vibration.                                            *)

Thresholds == {"left_threshold_pct", "right_threshold_pct"}

\* The numbers a profile of a mode has.
Pro3Fields(mode) ==
    ({"sticks"} \X Ends) \cup ({"vibration"} \X Levels)
    \cup ({"triggers"} \X (IF mode = "switch" THEN Thresholds ELSE Ends))
Pro3Flags == ({"sticks"} \X Toggles) \cup {<<"triggers", "swap_triggers">>}

\* Half up, at most 100.
Pro3Percent(raw, max) ==
    LET pct == (200 * raw + max) \div (2 * max) IN IF pct > 100 THEN 100 ELSE pct
Pro3Raw(pct, max) == (2 * pct * max + 100) \div 200

Pro3KeepOrEncode(base, pct, max) == IF Pro3Percent(base, max) = pct THEN base ELSE Pro3Raw(pct, max)

\* What a read clamps a percent to.
ReadRange(field) ==
    IF GroupOf(field) = "sticks"
    THEN IF field[2] \in {"left_min_pct", "right_min_pct"} THEN <<0, 90>> ELSE <<10, 100>>
    ELSE IF field[2] \in Thresholds THEN <<0, 90>> ELSE <<0, 100>>

ShownPercent(s, field) ==
    Clamped(ReadRange(field), Pro3Percent(s.raw[PlaceOf(field)], RawMax(GroupOf(field))))

\* An analog trigger range that is the wrong way round is turned.
Other == [left_min_pct |-> "left_max_pct", left_max_pct |-> "left_min_pct",
          right_min_pct |-> "right_max_pct", right_max_pct |-> "right_min_pct"]
Turned(field, pct, other) ==
    IF field[2] \in {"left_min_pct", "right_min_pct"}
    THEN IF pct <= other THEN pct ELSE other
    ELSE IF pct >= other THEN pct ELSE other

Pro3Number(s, field) ==
    IF GroupOf(field) = "vibration" THEN Level(s.raw[PlaceOf(field)])
    ELSE IF GroupOf(field) = "triggers" /\ field[2] \in Ends
         THEN Turned(field, ShownPercent(s, field), ShownPercent(s, <<field[1], Other[field[2]]>>))
    ELSE ShownPercent(s, field)

-----------------------------------------------------------------------------
Pro3Decode(mode, s) ==
    [mode    |-> mode,
     numbers |-> [f \in Pro3Fields(mode) |-> Pro3Number(s, f)],
     on      |-> s.bits \cap Pro3Flags,
     map     |-> [b \in DOMAIN s.map |-> Target(mode, b, s.map[b])]]

\* The raw value of a place: the field of the mode that is there, or the second byte of a
\* Switch threshold.
Pro3CompiledRaw(mode, p, s, place) ==
    LET here == {f \in Pro3Fields(mode) : PlaceOf(f) = place}
        f == CHOOSE g \in here : TRUE
    IN  IF here = {} THEN 255
        ELSE IF GroupOf(f) = "vibration" THEN Strength(Clamped(<<0, 5>>, p.numbers[f]))
        ELSE Pro3KeepOrEncode(s.raw[place], p.numbers[f], RawMax(GroupOf(f)))

\* A slot with the profile in it, over what the slot held; flags and motors are rewritten.
Pro3Compile(p, s) ==
    [active |-> TRUE,
     map    |-> [b \in DOMAIN s.map |->
                   IF b \in DOMAIN p.map THEN CompiledCode(p.mode, b, s.map[b], p.map[b])
                   ELSE OwnCode(p.mode, b)],
     raw    |-> [place \in DOMAIN s.raw |-> Pro3CompiledRaw(p.mode, p, s, place)],
     bits   |-> p.on \cap Pro3Flags,
     motors |-> <<1, 100>>]

Pro3Compiles(p, s) ==
    /\ Pro3Fields(p.mode) \subseteq DOMAIN p.numbers
    /\ \A b \in DOMAIN p.map : CanCompile(p.mode, b, s.map[b], p.map[b])

Pro3Default(d, mode) ==
    [mode    |-> mode,
     numbers |-> [f \in Pro3Fields(mode) |->
                    CASE f[2] \in Levels -> 5
                      [] f[2] \in Thresholds -> 30
                      [] f[2] \in {"left_max_pct", "right_max_pct"} -> 100
                      [] OTHER -> IF GroupOf(f) = "sticks" THEN 13 ELSE 0],
     on      |-> {},
     map     |-> [b \in d.buttons |->
                    Target(mode, b, IF mode = "switch" /\ b = "turbo" THEN Screenshot
                                    ELSE EntryOf(mode, b).code)]]

=============================================================================
