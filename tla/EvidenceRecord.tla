--------------------------- MODULE EvidenceRecord ---------------------------
(***************************************************************************)
(* What an evidence directory promises its auditors, however often the     *)
(* run that writes it was stopped and resumed: each epoch is measured      *)
(* once; the measurements are published, submitted and closed in that      *)
(* order, all of them or none; and a directory that closes as certified    *)
(* describes the weights that are on the chain.                            *)
(***************************************************************************)
CONSTANTS
  Epochs,   \* the epochs of the run
  Values,   \* successful measurements
  Failed,   \* a failed one
  None,     \* nothing yet
  Planned   \* the vectors of measurements whose weights may be submitted

VARIABLES
  measurement,  \* measurement[e]: what was measured of epoch e
  published,    \* published[e]: what its public evidence says
  onchain,      \* the weights on the chain, as the measurements they follow from
  outcome       \* "open", "certified" or "disputed"

vars == <<measurement, published, onchain, outcome>>

Init ==
  /\ measurement = [e \in Epochs |-> None]
  /\ published = [e \in Epochs |-> None]
  /\ onchain = None
  /\ outcome = "open"

\* All epochs measured, and none of them failed.
Whole == measurement \in [Epochs -> Values]

Measure(e) ==
  /\ outcome = "open"
  /\ measurement[e] = None
  /\ \E m \in Values \cup {Failed} : measurement' = [measurement EXCEPT ![e] = m]
  /\ UNCHANGED <<published, onchain, outcome>>

Publish(e) ==
  /\ outcome = "open" /\ Whole
  /\ published[e] = None
  /\ published' = [published EXCEPT ![e] = measurement[e]]
  /\ UNCHANGED <<measurement, onchain, outcome>>

Submit ==
  /\ outcome = "open" /\ Whole
  /\ published = measurement
  /\ onchain = None /\ measurement \in Planned
  /\ onchain' = measurement
  /\ UNCHANGED <<measurement, published, outcome>>

Close ==
  /\ outcome = "open" /\ Whole
  /\ published = measurement
  /\ outcome' = "disputed" \/ (outcome' = "certified" /\ onchain = measurement)
  /\ UNCHANGED <<measurement, published, onchain>>

Next ==
  \/ \E e \in Epochs : Measure(e) \/ Publish(e)
  \/ Submit
  \/ Close

Spec == Init /\ [][Next]_vars
=============================================================================
