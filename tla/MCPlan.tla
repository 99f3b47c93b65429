------------------------------- MODULE MCPlan -------------------------------
(* Pads and batches for TLC: three macro slots, two buttons, two step lists. *)
EXTENDS Cli, TLC

MCModels == {"pro3", "ultimate"}
MCPacked == {"ultimate"}
MCMacroCount == [m \in MCModels |-> 3]
MCDefault == [b \in Buttons |-> b]
MCOutputs == Buttons \cup {"other"}
MCStepLists == {"none", "s1", "s2"}

M(triggers, steps) == [triggers |-> triggers, unknown |-> FALSE, steps |-> steps]
Unnamed == [triggers |-> {}, unknown |-> TRUE, steps |-> "s2"]

Mapped == [MCDefault EXCEPT !["b"] = "other"]

\* The macros pads hold in slot 1: none, one, two, three; with and without a trigger.
HeldLists == { <<>>, <<M({"a"}, "s1")>>, <<M({}, "s1"), M({"a"}, "s2")>>,
               <<Unnamed, M({"b"}, "s2")>>,
               <<M({"b"}, "s1"), M({}, "s1"), M({"a"}, "s2")>> }

Packed(used, parts, map, macros) ==
    [used |-> used, parts |-> parts, map |-> map, macros |-> macros]
Slotted(used, map, macros) ==
    [used |-> used, parts |-> {}, map |-> map,
     macros |-> [n \in 1 .. 3 |-> IF n <= Len(macros) THEN macros[n] ELSE Zeroed]]

\* Slot 2 of mode x is empty, with a leftover; mode y holds one profile.
Around(m) ==
    IF m = "ultimate"
    THEN [at \in Places |-> Packed(at = <<"y", 1>>, IF at = <<"y", 1>> THEN {"map"} ELSE {},
                                   MCDefault, <<M({"a"}, "s1")>>)]
    ELSE [at \in Places |-> Slotted(at = <<"y", 1>>, MCDefault, <<M({"a"}, "s1")>>)]

MCPads ==
    {[model |-> "ultimate",
      banks |-> [Around("ultimate") EXCEPT ![<<"x", 1>>] = Packed(TRUE, parts, Mapped, list)]]
        : list \in HeldLists, parts \in {Sections, {"macros"}}}
    \cup
    {[model |-> "pro3",
      banks |-> [Around("pro3") EXCEPT ![<<"x", 1>>] = Slotted(used, Mapped, list)]]
        : list \in HeldLists \cup {<<Zeroed, M({"a"}, "s1")>>}, used \in BOOLEAN}

UploadTo(mode, slot, map, drops, edits) ==
    [mode |-> mode, slot |-> slot, op |-> "upload", map |-> map, drops |-> drops,
     edits |-> edits, button |-> "a", output |-> "a", sound |-> TRUE]
Clear(mode, slot) == [UploadTo(mode, slot, Keep, {}, <<>>) EXCEPT !.op = "clear"]
Remap(slot, output) ==
    [UploadTo("x", slot, Keep, {}, <<>>) EXCEPT !.op = "remap", !.output = output]

MCEdits ==
    {[at |-> n, macro |-> macro] : n \in 1 .. 3,
       macro \in {Zeroed, M({}, "s2"), M({"a"}, "s2"), M({"b"}, "s1")}}

Maps == {Keep, MCDefault, Mapped}

\* One job with up to two edits; three deletes; a batch of two or three jobs.
MCBatches ==
    {<<UploadTo("x", slot, map, drops, edits)>> :
        slot \in 1 .. 2, map \in Maps, drops \in {{}, {"a"}},
        edits \in {<<>>} \cup {<<e>> : e \in MCEdits}}
    \cup {<<UploadTo("x", 1, map, {}, <<e, f>>)>> : map \in {Keep, MCDefault}, e, f \in MCEdits}
    \cup {<<UploadTo("x", 1, Keep, {}, <<[at |-> 1, macro |-> e], [at |-> 3, macro |-> f],
                                       [at |-> 2, macro |-> g]>>)>> :
            e, f, g \in {Zeroed, M({}, "s2")}}
    \cup {<<Clear("x", slot)>> : slot \in 1 .. 3}
    \cup {<<Remap(slot, output)>> : slot \in 1 .. 2, output \in MCOutputs}
    \cup {<<j, k>> : j, k \in {Clear("x", 1), Clear("y", 1), UploadTo("x", 2, MCDefault, {}, <<>>),
                               UploadTo("y", 1, Keep, {}, <<[at |-> 2, macro |-> M({"b"}, "s2")]>>)}}
    \cup {<<[UploadTo("x", 1, Keep, {}, <<>>) EXCEPT !.sound = FALSE]>>,
          <<UploadTo("x", 1, Keep, {}, <<[at |-> 4, macro |-> M({}, "s2")]>>)>>}

\* Profile files of older programs: an emptied slot, macros in files of their own, a
\* profile that does not pass, a slot the pad has not.
OldFile(macros) ==
    [torn |-> FALSE, blank |-> FALSE, sound |-> TRUE, map |-> MCDefault,
     macros |-> macros, refers |-> TRUE]
MCFolders ==
    { NoFiles,
      <<"x", 2>> :> [OldFile(<<>>) EXCEPT !.blank = TRUE]
        @@ <<"y", 1>> :> OldFile(2 :> M({"a"}, "s2")),
      <<"x", 1>> :> [OldFile(<<>>) EXCEPT !.sound = FALSE],
      <<"y", 2>> :> [OldFile(<<M({"a"}, "s1"), M({"a"}, "s2")>>) EXCEPT !.refers = FALSE],
      <<"x", 3>> :> OldFile(<<>>) }

MCMacroFiles ==
    { [mode |-> "x", macro |-> M({"a"}, "s1"), sound |-> TRUE, fits |-> {"x"}],
      [mode |-> "y", macro |-> M({"a", "b"}, "s2"), sound |-> TRUE, fits |-> {"x", "y"}],
      [mode |-> "x", macro |-> M({"b"}, "none"), sound |-> FALSE, fits |-> {"x"}] }

MCBetween ==
    {<<Clear("x", 1)>>, <<Clear("x", 1), Clear("y", 1)>>, <<Remap(1, "b")>>,
     <<UploadTo("x", 2, Mapped, {}, <<>>)>>, <<UploadTo("x", 1, Mapped, {"a"}, <<>>)>>}
    \cup {<<UploadTo("x", 1, MCDefault, {}, edits)>> : edits \in
            {<<[at |-> 1, macro |-> M({"b"}, "s1")]>>, <<[at |-> 3, macro |-> M({}, "s2")]>>,
             <<[at |-> 1, macro |-> Zeroed], [at |-> 3, macro |-> Zeroed]>>}}

=============================================================================
