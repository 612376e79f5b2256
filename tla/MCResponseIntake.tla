-------------------------- MODULE MCResponseIntake --------------------------
(* Three requests and a store of two rows.  The first request has two       *)
(* genuine responses that differ in their expiry, one that outlives it, one *)
(* that predates it and one with a bad signature.                           *)
EXTENDS ResponseIntake, TLC

CONSTANTS k1, k2, k3, v1, v2

MCKeys == {k1, k2, k3}
MCReqIssued == [k \in MCKeys |-> 2]
MCReqExpires == (k1 :> 3) @@ (k2 :> 4) @@ (k3 :> 4)

MCResp(k, i, e, d) == [key |-> k, issued |-> i, expires |-> e, defects |-> d]

MCResponses ==
  { MCResp(k1, 1, 2, {}), MCResp(k1, 1, 3, {}), MCResp(k1, 1, 4, {}),
    MCResp(k1, 0, 3, {}), MCResp(k1, 2, 3, {"bad_signature"}),
    MCResp(k2, 2, 4, {}), MCResp(k3, 2, 3, {}) }
=============================================================================
