---------------------------- MODULE WeightInputs ----------------------------
(***************************************************************************)
(* Every scoring of a few hotkeys under every limit, as the operator of    *)
(* `planrace testnet weight-plan` may give them, and what WeightVector     *)
(* must compute for each.                                                  *)
(***************************************************************************)
EXTENDS WeightVector, Allocation

CONSTANTS
  Miners,    \* the scored hotkeys
  MaxScore   \* bound on a score

ASSUME InputsAssumption ==
  /\ IsFiniteSet(Miners)
  /\ MaxScore \in Nat \ {0}

VARIABLES
  scores,   \* the scores of the command line
  raw       \* max_weights_limit of the subnet

inputs == <<scores, raw>>

InitInputs ==
  /\ scores = [h \in Miners |-> 0]
  /\ raw = U16

\* parse_public_scores: any finite score that is not negative, for any hotkey.
Score(h, s) ==
  /\ scores' = [scores EXCEPT ![h] = s]
  /\ UNCHANGED raw

\* The owner of the subnet sets its limit.
SetLimit(limit) ==
  /\ raw' = limit
  /\ UNCHANGED scores

NextInputs ==
  \/ \E h \in Miners, s \in 0 .. MaxScore : Score(h, s)
  \/ \E limit \in 1 .. U16 : SetLimit(limit)

SpecInputs == InitInputs /\ [][NextInputs]_inputs

-----------------------------------------------------------------------------
planned == PositiveScores(scores)

\* Some vector over the planned hotkeys meets the limit.
Feasible == DOMAIN planned # {} /\ Cardinality(DOMAIN planned) * raw > U16

\* _clip_to_max_weight fills to the limit and no further: no share is above
\* it, hotkeys below it keep their proportions, and a hotkey at it had at least
\* the score of one below it.
ClipFillsToLimit ==
  Feasible /\ Clipped(planned, raw) =>
    LET c       == Clip(planned, raw)
        atLimit == {h \in DOMAIN c : c[h] * U16 = raw * Total(c)}
        below   == DOMAIN c \ atLimit
    IN  /\ WithinLimit(c, raw)
        /\ atLimit # {}
        /\ \A g, h \in below : c[g] * planned[h] = c[h] * planned[g]
        /\ \A g \in below, h \in atLimit : planned[g] <= planned[h]

\* The submitted vector ranks the hotkeys as their scores do: who scores at
\* least as much as a recipient is a recipient with at least its value, the
\* best is one, only hotkeys with a positive score are, and no value leaves u16.
RankingKept ==
  DOMAIN planned # {} =>
    LET q == Conform(planned, raw)
    IN  /\ DOMAIN q \subseteq {h \in Miners : scores[h] > 0}
        /\ \A h \in DOMAIN q : q[h] \in 1 .. U16
        /\ \A h \in DOMAIN planned : planned[h] = Top(planned) => h \in DOMAIN q
        /\ \A g \in DOMAIN q, h \in DOMAIN planned :
              planned[g] <= planned[h] => h \in DOMAIN q /\ q[g] <= q[h]

\* The two ways to bound a share agree: under one limit, _capped_normalize of
\* scoring_v2.py, which caps in passes, and _clip_to_max_weight of
\* testnet_weights.py, which computes a cutoff, give every hotkey one share.
CappingsAgree ==
  DOMAIN planned # {} /\ ~TooFewForCap(planned, raw, U16) =>
    LET shares == CappedNormalize(planned, raw, U16)
        c      == Clip(planned, raw)
    IN  \A h \in DOMAIN planned : shares.num[h] * Total(c) = c[h] * shares.den

\* With enough recipients for max_weights_limit the gate on the planned vector
\* is missed by no more than the rounding to u16, half a unit for a hotkey.
GateMissedOnlyByRounding ==
  Feasible =>
    LET q == Conform(planned, raw)
    IN  2 * Top(q) * U16 <= raw * (2 * Total(q) + Cardinality(DOMAIN planned))
=============================================================================
