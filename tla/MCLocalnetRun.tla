---------------------------- MODULE MCLocalnetRun ----------------------------
(* Instances of LocalnetRun: two possible measurements of each epoch; one   *)
(* vector of measurements leaves too few distinct strategies to plan.       *)
EXTENDS LocalnetRun

CONSTANTS Slow, Quick

MCValues  == {Slow, Quick}
MCPlanned == [1 .. N -> MCValues] \ {[e \in 1 .. N |-> Slow]}
=============================================================================
