------------------------------ MODULE MCEditor ------------------------------
(* One slot with two macro slots and two buttons for TLC.                   *)
EXTENDS Editor

MCModels == {"pro3", "ultimate"}
MCPacked == {"ultimate"}
MCMacroCount == [m \in MCModels |-> 2]
MCTriggersPerMacro == [m \in MCModels |-> IF m = "ultimate" THEN 1 ELSE 0]
MCDefault == [b \in Buttons |-> b]
MCOutputs == {"a", "b", "off", "?"}
MCStepLists == {"none", "blank", "s1", "s2"}
MCPlaceholder == [l \in MCStepLists |-> IF l = "none" THEN "none" ELSE "blank"]

M(triggers, steps) == [triggers |-> triggers, unknown |-> FALSE, steps |-> steps]

Mapped(output) == [MCDefault EXCEPT !["b"] = output]

SlotOf(m, used, map, macros) ==
    IF m = "ultimate"
    THEN [used |-> used, parts |-> IF used THEN Sections ELSE {}, map |-> map, macros |-> macros]
    ELSE [used |-> used, parts |-> {}, map |-> map,
          macros |-> [n \in 1 .. 2 |-> IF n <= Len(macros) THEN macros[n] ELSE Zeroed]]

\* Two macros, each with a button; one macro beside an unrecognised output; and an empty
\* slot with a leftover.
Kept(m) ==
    {SlotOf(m, TRUE, MCDefault, <<M({"a"}, "s1"), M({"b"}, "s2")>>),
     SlotOf(m, TRUE, Mapped("?"), <<M({"a"}, "s1")>>),
     SlotOf(m, FALSE, MCDefault, <<M({"a"}, "s1")>>)}

\* Another program clears the slot of one model, and writes another profile on the other.
MCElsewhere == [m \in MCModels |->
    {IF m = "ultimate" THEN SlotOf(m, FALSE, MCDefault, <<>>)
     ELSE SlotOf(m, TRUE, Mapped("off"), <<M({}, "s2")>>)}]

MCPads ==
    UNION {{[model |-> m, banks |-> [at \in Places |-> s]] : s \in Kept(m)} : m \in MCModels}

MCProfileFiles ==
    {[map |-> Mapped("off"), macros |-> Nothing],
     [map |-> Mapped("off"), macros |-> [n \in {2} |-> M({"a", "b"}, "s1")]],
     [map |-> MCDefault, macros |-> NoMacros]}
MCMacroImports == {M({"a"}, "s2")}
=============================================================================
