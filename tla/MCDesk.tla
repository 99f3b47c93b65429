-------------------------------- MODULE MCDesk --------------------------------
(***************************************************************************)
(* The worker and the window on one or two ports.                          *)
(***************************************************************************)
EXTENDS Desk, TLC
CONSTANTS p1, p2, xinput, switch

OnePort == {p1}
TwoPorts == {p1, p2}
Ports == Permutations(TwoPorts)
TwoModes == {xinput, switch}
\* A write flips a pad in switch; the mode it flips to is the one an unlock brings up.
Flips == [m \in TwoModes |-> IF m = switch THEN xinput ELSE Nothing]
AllKinds == Kind
Lockable == {"config", "locked"}
Locking == {"locked"}
Supported == {"config"}
=============================================================================
