-------------------------------- MODULE Gates --------------------------------
(***************************************************************************)
(* A chain of early returns: gates is a sequence of pairs <<closed, code>> *)
(* in the order in which the code tries them.                              *)
(***************************************************************************)
EXTENDS Integers, Sequences, FiniteSetsExt

\* The code of the first gate that is closed, "none" when all are open.
FirstClosed(gates) ==
  LET closed == {i \in DOMAIN gates : gates[i][1]}
  IN  IF closed = {} THEN "none" ELSE gates[Min(closed)][2]
=============================================================================
