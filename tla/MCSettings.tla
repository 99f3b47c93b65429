----------------------------- MODULE MCSettings -----------------------------
(* The descriptions of the Pro 3 and the Ultimate (BT), with some of their   *)
(* buttons, and what a behaviour starts from, for TLC.                       *)
EXTENDS Settings, TLC

Plain == {"right face", "bottom face", "l1", "r1", "home/guide"}
SomePaddles == {"rp", "l4"}

All(group, names, range) == [f \in {group} \X names |-> range]
Mins == {"left_min_pct", "right_min_pct"}
Maxs == {"left_max_pct", "right_max_pct"}
Inverts == {"invert_left_x", "invert_left_y", "invert_right_x", "invert_right_y"}
Level05 == All("vibration", {"left_level", "right_level"}, <<0, 5>>)
Swap == All("triggers", {"swap_triggers"}, {})
NoTargets == [b \in {} |-> b]

ProSwaps == {<<"sticks", "swap_sticks">>, <<"sticks", "invert_left_x">>, <<"sticks", "invert_left_y">>}
ProMode(extras, triggers) ==
    [extras  |-> extras,
     numbers |-> All("sticks", Mins, <<0, 90>>) @@ All("sticks", Maxs, <<10, 100>>) @@ triggers @@ Level05,
     flags   |-> All("sticks", Inverts \cup {"swap_sticks"}, {}) @@ Swap
                 @@ (<<"sticks", "swap_dpad_with_left_stick">> :> ProSwaps),
     targets |-> NoTargets, start |-> 0]
ProAnalog == All("triggers", Mins \cup Maxs, <<0, 100>>)

ProDescription ==
    [codec |-> "pro3", buttons |-> Plain \cup {"turbo"} \cup SomePaddles,
     remappable |-> (Plain \ {"home/guide"}) \cup {"turbo"} \cup SomePaddles,
     outputs |-> Plain, named |-> Plain \cup {"turbo"},
     modes |-> [xinput |-> ProMode([e \in {} |-> {}], ProAnalog),
                switch |-> ProMode([e \in {"screenshot"} |-> {}],
                                   All("triggers", Thresholds, <<0, 90>>)),
                dinput |-> ProMode([e \in {"rp output", "lp output", "l4 output", "r4 output"} |-> {}],
                                   ProAnalog)]]

Free == {"star", "p1", "p2"}
UltimateMode(extras, sticks, numbers, targets, start) ==
    [extras  |-> [e \in {"turbo", "auto turbo", "swap"} |-> Free] @@ extras,
     numbers |-> All("sticks", Mins \cup Maxs, <<0, 100>>) @@ numbers,
     flags   |-> All("sticks", Inverts \cup {"swap_sticks", "swap_dpad_with_left_stick", "dpad_four_way"}
                               \cup sticks, {}) @@ Swap,
     targets |-> targets, start |-> start]
UltimateTriggers(names) == All("triggers", names, <<0, 100>>)
NoPaddles(star) == [star |-> star, p1 |-> Disabled, p2 |-> Disabled]

UltimateCodes ==
    ("right face" :> "1000") @@ ("bottom face" :> "2000") @@ ("l1" :> "400") @@ ("r1" :> "800") @@ ("home/guide" :> "20000")
    @@ ("turbo" :> "10000") @@ ("auto turbo" :> "1000000") @@ ("swap" :> "8000000")
UltimateSwitchCodes ==
    ("right face" :> "2000") @@ ("bottom face" :> "1000")
    @@ ("screenshot" :> "400000") @@ UltimateCodes

UltimateXInput ==
    UltimateMode([e \in {} |-> {}], {"no_dead_zone"}, UltimateTriggers(Mins \cup Maxs) @@ Level05,
                 NoPaddles("turbo"), 0)

UltimateDescription ==
    [codec |-> "ultimate", buttons |-> Plain \cup Free, remappable |-> Plain \cup Free,
     outputs |-> Plain, named |-> Plain \cup Free,
     codes |-> [xinput |-> UltimateCodes, switch |-> UltimateSwitchCodes],
     modes |-> [xinput |-> UltimateXInput,
                switch |-> UltimateMode([screenshot |-> {"star"}], {"swap_right_stick_with_triggers"},
                                        UltimateTriggers(Mins) @@ Level05, NoPaddles("screenshot"), 30)]]

\* The wired Ultimate, which has no vibration in DInput.
WiredDescription ==
    [UltimateDescription EXCEPT
        !.codes = [xinput |-> UltimateCodes,
                   dinput |-> ("p1 output" :> "2000000") @@ ("p2 output" :> "4000000") @@ UltimateCodes],
        !.modes = [xinput |-> UltimateXInput,
                   dinput |-> UltimateMode([e \in {"p1 output", "p2 output"} |-> {}], {},
                                           UltimateTriggers(Mins \cup Maxs),
                                           [star |-> "turbo", p1 |-> "p1 output", p2 |-> "p2 output"], 0)]]

MCDescriptions == [pro3 |-> ProDescription, ultimate |-> UltimateDescription, wired |-> WiredDescription]

-----------------------------------------------------------------------------
Tab(buttons, group, names) == [buttons |-> buttons, fields |-> {group} \X names, files |-> {}]
Clashing == {"swap_sticks", "swap_dpad_with_left_stick", "invert_left_x"}

MapTab(button) == {Tab({button}, "sticks", {})}
RangeTab(group) == {Tab({}, group, {"left_min_pct", "left_max_pct"})}
Levels01 == {Tab({}, "vibration", {"left_level", "right_level"})}
With(tabs, file) == {[t EXCEPT !.files = {file}] : t \in tabs}

Places == ({"sticks", "triggers"} \X (1 .. 4)) \cup ({"vibration"} \X {1, 2})
Bytes(sticks, triggers, vibration) ==
    [p \in Places |-> IF p[1] = "sticks" THEN sticks[p[2]]
                      ELSE IF p[1] = "triggers" THEN triggers[p[2]] ELSE vibration[p[2]]]

Unmodelled == <<"", "unmodelled">>

\* A new slot; one with entries, ranges and flags no current program would write; and
\* one with flags that clash.
ProNew(m) ==
    Pro3Compile(Pro3Default(ProDescription, m),
                 [active |-> FALSE, map |-> [b \in ProDescription.buttons |-> Null],
                  raw |-> Bytes(<<0, 0, 0, 0>>, <<0, 0, 0, 0>>, <<0, 0>>), bits |-> {}, motors |-> <<0, 0>>])
ProOdd(m) ==
    [ProNew(m) EXCEPT
        !.map["turbo"] = "ffffffff", !.map["l4"] = Null, !.map["right face"] = "00000020",
        !.map["r1"] = "00002000",
        !.raw = Bytes(<<16, 5, 126, 128>>, <<178, 50, 200, 255>>, <<7, NotANumber>>),
        !.bits = {<<"sticks", "invert_left_x">>, Unmodelled}, !.motors = <<5, 90>>]
ProClash(m) ==
    [ProNew(m) EXCEPT !.bits = {<<"sticks", "swap_sticks">>, <<"sticks", "swap_dpad_with_left_stick">>}]

NewSlot(D, m) ==
    UltimateCompile(D, UltimateDefault(D, m),
                     [active |-> FALSE, used |-> {},
                      map |-> [b \in UltimateDescription.buttons |-> Zero],
                      raw |-> Bytes(<<0, 0, 0, 0>>, <<0, 0, 0, 0>>, <<0, 0>>), bits |-> {}])
UltimateNew(m) == NewSlot(UltimateDescription, m)
WiredNew(m) == NewSlot(WiredDescription, m)
UltimateOdd(m) ==
    [UltimateNew(m) EXCEPT
        !.map["p1"] = "abcdef", !.map["r1"] = "2000",
        !.raw = Bytes(<<16, 63, 126, 128>>, <<178, 50, 76, 255>>, <<7, NotANumber>>),
        !.bits = {<<"sticks", "no_dead_zone">>, <<"sticks", "dpad_four_way">>, Unmodelled}]
UltimateOver(m) == [UltimateOdd(m) EXCEPT !.raw[<<"sticks", 2>>] = 200]
UltimatePart(m) == [UltimateOdd(m) EXCEPT !.used = {"map", "sticks"}]

Gone(s) == [s EXCEPT !.active = FALSE]

-----------------------------------------------------------------------------
(* Files, some of which leave buttons out.                                  *)

Fully(p, changes, on) == [p EXCEPT !.map = changes @@ @, !.on = on]
Only(p, changes) == [p EXCEPT !.map = changes]

DInputFile ==
    Fully(Pro3Default(ProDescription, "dinput"), [rp |-> "r4 output", l1 |-> "turbo"],
          {<<"sticks", "swap_sticks">>})
SwitchFile ==
    Fully(Pro3Default(ProDescription, "switch"), [l4 |-> "screenshot"],
          {<<"sticks", "swap_dpad_with_left_stick">>, <<"triggers", "swap_triggers">>})
XInputFile == Only(Pro3Default(ProDescription, "xinput"), [r1 |-> Unrecognised, l4 |-> "l1"])

OneFile ==
    Fully(UltimateDefault(UltimateDescription, "xinput"), [p1 |-> "swap"], {<<"sticks", "no_dead_zone">>})
NoOutputFile ==
    Only(UltimateDefault(UltimateDescription, "switch"),
         [star |-> "screenshot", p1 |-> "p2", r1 |-> Unrecognised])
OtherFile ==
    Only(UltimateDefault(UltimateDescription, "switch"), [star |-> "screenshot", p1 |-> "turbo", l1 |-> "r1"])

\* A file holds the groups that its mode has.
WiredFile(m) ==
    LET p == UltimateDefault(WiredDescription, m)
    IN  [Fully(p, IF m = "dinput" THEN [l1 |-> "p2 output"] ELSE [p1 |-> "turbo"], {<<"sticks", "swap_sticks">>})
           EXCEPT !.numbers = [f \in {g \in DOMAIN @ : GroupOf(g) \in Groups(WiredDescription, m)} |-> @[f]]]

-----------------------------------------------------------------------------
(* Where a behaviour starts: the map in every mode, and a group of settings *)
(* in a mode that has it.                                                   *)

At(tabs, slots) == [tab : tabs, slot : slots]

MCStarts ==
    [pro3 |->
       [xinput |-> At(MapTab("right face") \cup MapTab("turbo"), {ProOdd("xinput")})
            \cup At(With(MapTab("l4"), DInputFile), {ProNew("xinput")})
            \cup At(With({Tab({}, "sticks", Clashing)}, SwitchFile), {ProOdd("xinput"), ProClash("xinput")})
            \cup At(RangeTab("triggers"), {ProOdd("xinput")})
            \cup At(With(RangeTab("triggers"), XInputFile), {Gone(ProOdd("xinput"))}),
        switch |-> At(With(MapTab("turbo"), DInputFile), {ProNew("switch")})
            \cup At(With(MapTab("l4"), SwitchFile), {ProOdd("switch")})
            \cup At({Tab({}, "triggers", {"left_threshold_pct", "swap_triggers"})},
                    {ProOdd("switch"), Gone(ProOdd("switch"))}),
        dinput |-> At(With(MapTab("l4"), XInputFile), {ProNew("dinput")})
            \cup At(With(MapTab("l4"), SwitchFile), {ProOdd("dinput")})
            \cup At(RangeTab("sticks") \cup Levels01, {ProOdd("dinput")})],
     ultimate |->
       [xinput |-> At(With(MapTab("star"), NoOutputFile), {UltimateNew("xinput")})
            \cup At(With(MapTab("p1"), OtherFile) \cup MapTab("r1"), {UltimateOdd("xinput")})
            \cup At(With({Tab({}, "sticks", {"left_max_pct", "no_dead_zone", "dpad_four_way"})}, OneFile),
                    {UltimateOdd("xinput"), UltimateOver("xinput"), Gone(UltimateOdd("xinput"))}),
        switch |-> At(With(MapTab("star"), OneFile), {UltimateOdd("switch")})
            \cup At(With(MapTab("p1"), NoOutputFile), {UltimateNew("switch")})
            \cup At({Tab({}, "triggers", {"left_min_pct", "swap_triggers"})},
                    {UltimateOdd("switch"), UltimatePart("switch")})
            \cup At(Levels01, {UltimateOdd("switch")})],
     wired |->
       [xinput |-> At(With(MapTab("p1"), WiredFile("dinput")), {WiredNew("xinput")}),
        dinput |-> At(With(MapTab("p1") \cup Levels01, WiredFile("xinput")), {WiredNew("dinput")})]]
=============================================================================
