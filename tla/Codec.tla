------------------------------- MODULE Codec -------------------------------
(***************************************************************************)
(* What the codecs of the Pro 3 and of the Ultimate have in common: where  *)
(* the numbers of a profile are in a slot, and the strengths of a motor.   *)
(* A strength is in twentieths; NotANumber is any that is not finite.      *)
(***************************************************************************)
EXTENDS Profile

Ends == {"left_min_pct", "left_max_pct", "right_min_pct", "right_max_pct"}
Levels == {"left_level", "right_level"}
Toggles == {"invert_left_x", "invert_left_y", "invert_right_x", "invert_right_y",
            "swap_sticks", "swap_dpad_with_left_stick"}

Index == [left_min_pct |-> 1, left_threshold_pct |-> 1, left_level |-> 1, left_max_pct |-> 2,
          right_level |-> 2, right_min_pct |-> 3, right_threshold_pct |-> 3, right_max_pct |-> 4]
PlaceOf(field) == <<field[1], Index[field[2]]>>

RawMax(group) == IF group = "sticks" THEN 128 ELSE 255

NotANumber == -1
Level(strength) == IF strength = NotANumber THEN 0 ELSE Clamped(<<0, 5>>, (strength + 2) \div 4)
Strength(level) == 4 * level

=============================================================================
