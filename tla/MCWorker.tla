------------------------------- MODULE MCWorker -------------------------------
(***************************************************************************)
(* A worker on one port with any client and its keepalive.                 *)
(***************************************************************************)
EXTENDS Keepalive
CONSTANTS p1, xinput, switch

OnePort == {p1}
TwoModes == {xinput, switch}
\* A write flips a pad in switch; the mode it flips to is the one an unlock brings up.
Flips == [m \in TwoModes |-> IF m = switch THEN xinput ELSE Nothing]
Resetting == {xinput}
AllKinds == Kind
=============================================================================
