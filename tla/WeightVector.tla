---------------------------- MODULE WeightVector ----------------------------
(***************************************************************************)
(* From scores to the u16 vector that is submitted: plan_hotkey_weights of *)
(* planrace/weights.py, and _clip_to_max_weight and _conform_weight_vector *)
(* of planrace/testnet_weights.py.                                         *)
(*                                                                         *)
(* A vector is a function from hotkeys to naturals that stand for its      *)
(* values up to a common factor, as every step normalises: the arithmetic  *)
(* is exact where the code's is in floats.  The code's epsilon of 1e-7     *)
(* only decides a tie at the limit, and is that decision here.             *)
(***************************************************************************)
EXTENDS Integers, FiniteSets, FiniteSetsExt, Functions

CONSTANT U16   \* the largest u16 value, U16_MAX

ASSUME VectorAssumption == U16 \in Nat \ {0}

Total(w) == MapThenSumSet(LAMBDA h : w[h], DOMAIN w)

Top(w) == Max({w[h] : h \in DOMAIN w})

\* Fault: as long as one score is positive, hotkeys with score zero are planned too.
PositiveScoresFault(scores) == Restrict(scores, {h \in DOMAIN scores : Top(scores) > 0})

\* The scored hotkeys that are planned; plan_hotkey_weights gives h the weight
\* scores[h] / Total(PositiveScores(scores)).
PositiveScores(scores) == Restrict(scores, {h \in DOMAIN scores : scores[h] > 0})

-----------------------------------------------------------------------------
\* The largest share of w is within raw / U16.
WithinLimit(w, raw) == Top(w) * U16 <= raw * Total(w)

\* The total of w when every value above w[h] is lowered to it.
LoweredTo(w, h) == MapThenSumSet(LAMBDA g : Min({w[g], w[h]}), DOMAIN w)

\* Fault: compared with the total before it is lowered.
BelowCutoffFault(w, raw) == {h \in DOMAIN w : w[h] * U16 <= raw * Total(w)}

\* The hotkeys that keep their value: within the limit when all higher values
\* are lowered to theirs.
BelowCutoff(w, raw) == {h \in DOMAIN w : w[h] * U16 <= raw * LoweredTo(w, h)}

\* The cutoff that gives each of the others exactly the limit is
\* raw * kept / scale; the vector is min(w, cutoff), times scale.
LowerToCutoff(w, raw) ==
  LET below == BelowCutoff(w, raw)
      kept  == Total(Restrict(w, below))
      scale == U16 - raw * Cardinality(DOMAIN w \ below)
  IN  [h \in DOMAIN w |-> Min({w[h] * scale, raw * kept})]

\* _clip_to_max_weight: the vector, uniform when the limit cannot be met.
Clip(w, raw) ==
  CASE WithinLimit(w, raw) -> w
    [] ~WithinLimit(w, raw) /\ Cardinality(DOMAIN w) * raw <= U16 -> [h \in DOMAIN w |-> 1]
    [] OTHER -> LowerToCutoff(w, raw)

\* Was it clipped?  With raw = U16 every vector is within the limit.
Clipped(w, raw) == ~WithinLimit(w, raw)

\* Fault: the fraction is cut off.
RoundFault(n, d) == n \div d

\* round(n / d), half to even.
Round(n, d) ==
  LET q == n \div d
      r == 2 * (n % d)
  IN  IF r < d \/ (r = d /\ q % 2 = 0) THEN q ELSE q + 1

\* _conform_weight_vector: the u16 values, without those that became zero.
Conform(w, raw) ==
  LET clipped   == Clip(w, raw)
      quantized == [h \in DOMAIN w |-> Round(clipped[h] * U16, Top(clipped))]
  IN  PositiveScores(quantized)
=============================================================================
