--------------------------- MODULE MCTaskLifecycle ---------------------------
(* Two tasks with different deadlines; two requests of the first, one with  *)
(* two genuine responses and a forged one, and one request of the second.   *)
EXTENDS TaskLifecycle, TLC

CONSTANTS k1, k2, t1, t2

MCKeys == {k1, k2}
MCTaskOf == (k1 :> t1) @@ (k2 :> t2)
MCDeadline == (t1 :> 2) @@ (t2 :> 3)
MCReqIssued == [k \in MCKeys |-> 0]
MCReqExpires == [k \in MCKeys |-> 2]

MCResp(k, i, e, d) == [key |-> k, issued |-> i, expires |-> e, defects |-> d]

MCResponses ==
  { MCResp(k1, 0, 1, {}), MCResp(k1, 0, 2, {}),
    MCResp(k1, 0, 2, {"wrong_task"}), MCResp(k2, 0, 2, {}) }
=============================================================================
