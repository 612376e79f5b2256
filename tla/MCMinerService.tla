--------------------------- MODULE MCMinerService ---------------------------
(* Requests: q1, q2 and q4 compete for one slot, with two threads behind it; *)
(* q2 has a task deadline before its expiry; q3 is not authorized, q4 comes  *)
(* from a clock that may lead by the tolerated skew, q5 has a bad signature. *)
EXTENDS MinerService, TLC

CONSTANTS q1, q2, q3, q4, q5, h1, h2, h3

Times(a, b, c, d, e) == (q1 :> a) @@ (q2 :> b) @@ (q3 :> c) @@ (q4 :> d) @@ (q5 :> e)
MCNonce    == Times(0, 1, 1, 1, 1)
MCIssued   == Times(0, 1, 1, 1, 1)
MCExpires  == Times(2, 4, 3, 3, 3)
MCDeadline == Times(3, 3, 3, 3, 3)
MCDefect   == Times("none", "none", "hotkey_forbidden", "none",
                    "auth_bad_signature")
=============================================================================
