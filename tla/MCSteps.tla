------------------------------ MODULE MCSteps ------------------------------
(* Step lists for TLC: one stick, one trigger and one button, values 0..4.  *)
EXTENDS StepEditor

At(stick, trigger) == [c \in Controls |-> IF c \in Sticks THEN stick ELSE <<trigger, trigger>>]

S(ms, press, stick, trigger, glide) ==
    [ms |-> ms, press |-> press, at |-> At(stick, trigger), glide |-> glide]

MCSticks == {"left_stick"}
MCTriggers == {"left_trigger"}

\* A macro that glides, and one that holds a button before a trigger.
MCRecorded ==
    { <<S(6, {}, <<0, 2>>, 0, MCSticks), S(2, {}, <<4, 2>>, 4, {})>>,
      <<S(1, {"a"}, <<2, 2>>, 0, {})>> }

MCSymmetry == Permutations(MacroSlots)
=============================================================================
