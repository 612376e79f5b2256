----------------------------- MODULE Allocation -----------------------------
(***************************************************************************)
(* From the aggregates of the miners to their weights: _capped_normalize   *)
(* and allocate_weights of planrace/scoring_v2.py.                         *)
(*                                                                         *)
(* Rewards are naturals and the concentration cap is a fraction c / d.  A  *)
(* set of shares is a record [num, den]: recipient m has num[m] / den.     *)
(* The arithmetic is exact where the code's is in floats, so the code's    *)
(* tolerances and its last loop, which places the residue of the floats,   *)
(* have nothing to do here.                                                *)
(***************************************************************************)
EXTENDS Integers, FiniteSets, FiniteSetsExt

\* Sum of f over the set S.
SumOver(f, S) == MapThenSumSet(LAMBDA m : f[m], S)

\* The mass that is left, in units of 1 / d, when only R still shares it.
MassLeft(raw, R, c, d) == d - c * Cardinality(DOMAIN raw \ R)

\* Fault: every pass shares the whole mass again.
AboveCapFault(raw, R, c, d) == {m \in R : d * raw[m] > c * SumOver(raw, R)}

\* The recipients of R whose proposed share of the mass left is above the cap.
AboveCap(raw, R, c, d) ==
  {m \in R : MassLeft(raw, R, c, d) * raw[m] > c * SumOver(raw, R)}

\* The recipients that stay below the cap: the passes of the loop of
\* _capped_normalize, each of which gives the cap to all that are above it.
BelowCap(raw, c, d) ==
  LET pass[R \in SUBSET DOMAIN raw] ==
        LET capped == AboveCap(raw, R, c, d)
        IN  IF capped = {} THEN R ELSE pass[R \ capped]
  IN  pass[DOMAIN raw]

\* The cap cannot be met: _capped_normalize raises ValueError.
TooFewForCap(raw, c, d) == Cardinality(DOMAIN raw) * c < d

\* _capped_normalize: the cap for the capped, the mass left in proportion to
\* raw for the others, in equal parts when their raw values are all zero.
CappedNormalize(raw, c, d) ==
  LET below == BelowCap(raw, c, d)
      total == SumOver(raw, below)
      mass  == MassLeft(raw, below, c, d)
      parts == IF total > 0 THEN total ELSE Max({1, Cardinality(below)})
      value == [m \in below |-> IF total > 0 THEN raw[m] ELSE 1]
  IN  [num |-> [m \in DOMAIN raw |-> IF m \in below THEN mass * value[m] ELSE c * parts],
       den |-> d * parts]

-----------------------------------------------------------------------------
\* An aggregate is a record [eligible, reward, strategy, behavior]: what
\* allocate_weights uses of MinerAggregate.  agg maps miners to aggregates.
Eligible(agg) == {m \in DOMAIN agg : agg[m].eligible /\ agg[m].reward > 0}

\* The observed behaviours of the eligible miners.
Groups(agg) == {agg[m].behavior : m \in Eligible(agg)}

Members(agg, b) == {m \in Eligible(agg) : agg[m].behavior = b}

RewardOver(agg, S) == MapThenSumSet(LAMBDA m : agg[m].reward, S)

\* The mass of a group: that of its weakest exact strategy, whose copies have
\* been split before and are summed again.
GroupMass(agg, b) ==
  Min({RewardOver(agg, {m \in Members(agg, b) : agg[m].strategy = s}) :
         s \in {agg[m].strategy : m \in Members(agg, b)}})

GroupMasses(agg) == [b \in Groups(agg) |-> GroupMass(agg, b)]

\* Why allocate_weights plans nothing, "none" when it does plan.
NoPlanReason(agg, minDistinct, c, d) ==
  CASE Eligible(agg) = {} -> "all_failed"
    [] Eligible(agg) # {} /\ Cardinality(Groups(agg)) < minDistinct ->
         "insufficient_strategy_diversity"
    [] Cardinality(Groups(agg)) >= minDistinct /\ TooFewForCap(GroupMasses(agg), c, d) ->
         "insufficient_recipients_for_cap"
    [] OTHER -> "none"

\* The share of the miner m, as a fraction <<numerator, denominator>>: the
\* share of its group, divided in proportion to the rewards.
ShareOf(agg, m, c, d) ==
  LET groups  == CappedNormalize(GroupMasses(agg), c, d)
      b       == agg[m].behavior
  IN  <<groups.num[b] * agg[m].reward, groups.den * RewardOver(agg, Members(agg, b))>>
=============================================================================
