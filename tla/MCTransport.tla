----------------------------- MODULE MCTransport -----------------------------
(***************************************************************************)
(* A Pro 3 with a wrapped id that takes no writes, a pad of a model of its *)
(* own port, a model nobody validated, a stranger on a shared id and a     *)
(* Nintendo pad.                                                           *)
(***************************************************************************)
EXTENDS Lock

Switch == [mode |-> "S", framing |-> "wrapped", via |-> "D", names |-> Nothing]
DInput == [mode |-> "D", framing |-> "plain", via |-> Nothing, names |-> Nothing]
Config == [mode |-> "U", framing |-> "length", via |-> Nothing, names |-> "ultimate"]
Unchecked == [mode |-> "U", framing |-> "length", via |-> Nothing, names |-> "wired"]
MCPorts == [s |-> Switch, d |-> DInput, u |-> Config, w |-> Unchecked]

MCModels ==
  [pro3 |-> [modes |-> <<"S", "D">>, ports |-> {"s", "d"}, validated |-> TRUE,
             asks |-> FALSE, flips |-> {"D"}],
   ultimate |-> [modes |-> <<"U">>, ports |-> {"u"}, validated |-> TRUE,
                 asks |-> TRUE, flips |-> {}],
   wired |-> [modes |-> <<"U">>, ports |-> {"w"}, validated |-> FALSE,
              asks |-> TRUE, flips |-> {}]]

MCKinds ==
  [pro3 |-> [model |-> "pro3", speaks |-> TRUE, ids |-> [S |-> "s", D |-> "d"]],
   other |-> [model |-> "?", speaks |-> TRUE, ids |-> [D |-> "d"]],
   nintendo |-> [model |-> "?", speaks |-> FALSE, ids |-> [S |-> "s"]],
   ultimate |-> [model |-> "ultimate", speaks |-> TRUE, ids |-> [U |-> "l"]],
   wired |-> [model |-> "wired", speaks |-> TRUE, ids |-> [U |-> "w", L |-> "l"]]]
MCUnlocks == [kind \in DOMAIN MCKinds |-> IF kind = "wired" THEN {"w"} ELSE {"u", "z"}]
MCOps == (ReadOps \cup WriteOps \cup JobOps) \ {"query", "erase", "apply"}
=============================================================================
