--------------------------- MODULE MCSandboxWorker ---------------------------
(* Requests: plain has one index, wide two; empty has none; refused fails two *)
(* checks, far apart in their order.                                          *)
EXTENDS SandboxWorker, TLC

CONSTANTS d1, d2, plain, wide, empty, refused

MCDefects == (plain :> {}) @@ (wide :> {}) @@ (empty :> {})
             @@ (refused :> {"unknown_column", "fixture_file_mismatch"})
MCIndexes == (plain :> 1) @@ (wide :> 2) @@ (empty :> 0) @@ (refused :> 1)
=============================================================================
