------------------------------ MODULE MCWeights ------------------------------
(***************************************************************************)
(* An instance of WeightSubmission and of WeightInputs for TLC.  Both rest *)
(* on one U16 and share no variable: the inputs are enumerated before      *)
(* anything happens on the chain, and the submission starts from the first *)
(* of them, so that their states add up and do not multiply.               *)
(***************************************************************************)
EXTENDS WeightSubmission, WeightInputs, TLC

CONSTANTS v, m1, m2, m3, stranger, u0, u1, u2, p1, p2

MCMiners    == {m1, m2, m3}
MCHotkeys   == {v, m1, m2, stranger}
MCUids      == {u0, u1, u2}
MCFirstUids == (v :> u0 @@ m1 :> u1 @@ m2 :> u2 @@ stranger :> NoUid)
MCProcesses == {p1, p2}
ProcessSymmetry == Permutations(MCProcesses)

\* With U16 = 15 the first scoring becomes the vector <<5, 15>>, clipped by the
\* second set of parameters to <<8, 15>>, which is near the first.  The second has
\* a score that is too small for the quantization, and becomes <<15, 0>>, clipped
\* <<15, 8>>: the recipients of <<8, 15>> but not near it.
MCScorings   == {(m1 :> 1 @@ m2 :> 3), (m1 :> 31 @@ m2 :> 1)}

MCParamSets  == {[limit |-> 15, minimum |-> 1, rate |-> 1, commit |-> FALSE],
                 [limit |-> 10, minimum |-> 1, rate |-> 0, commit |-> TRUE]}

MCInit == Init /\ InitInputs

Enumerate == Init /\ NextInputs /\ UNCHANGED vars
Run       == InitInputs /\ Next /\ UNCHANGED inputs

MCNext == Enumerate \/ Run
MCSpec == MCInit /\ [][MCNext]_<<vars, inputs>>
=============================================================================
