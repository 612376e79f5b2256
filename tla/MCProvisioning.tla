--------------------------- MODULE MCProvisioning ---------------------------
(***************************************************************************)
(* An instance of Provisioning for TLC: one unit is about 0.3 TAO, so that *)
(* the wallet affords two creations at the lowest price and one creation at *)
(* a price that no review would have passed.                               *)
(***************************************************************************)
EXTENDS Provisioning, TLC

CONSTANTS validator, p1, p2, n1, n2

MCHotkeys   == {validator}
MCProcesses == {p1, p2}
MCNetuids   == {n1, n2}
MCPrices    == {1, 3}
MCBalances  == {3}
MCSymmetry == Permutations(MCProcesses) \cup Permutations(MCNetuids)
=============================================================================
