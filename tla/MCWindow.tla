-------------------------------- MODULE MCWindow --------------------------------
(* Window on one pad with two slots and on two pads with one. *)
EXTENDS Window, TLC

CONSTANTS p1, p2, v1, v2

OnePort == {p1}
TwoPorts == {p1, p2}
TwoValues == {v1, v2}

\* Ports and profiles are interchangeable.
Sym == Permutations(TwoPorts) \cup Permutations(TwoValues)
=============================================================================
