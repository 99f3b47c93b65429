---------------------------- MODULE MCWriteBatch ----------------------------
(***************************************************************************)
(* Small pads for WriteBatch: a Pro 3 in Switch mode, which is flipped to  *)
(* DInput for a write, and an Ultimate, whose banks carry their macros and *)
(* whose writes are read back.                                             *)
(***************************************************************************)
EXTENDS WriteBatch
CONSTANTS xinput, switch, dinput

Pro3 == {switch, dinput}
Ultimate == {xinput, switch}
=============================================================================
