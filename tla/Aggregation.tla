----------------------------- MODULE Aggregation -----------------------------
(***************************************************************************)
(* From the observations of the epochs to an aggregate per miner:          *)
(* deduplicate_task_rewards, aggregate_network, _aggregate_scheduled_miner *)
(* and the robust statistics of planrace/scoring_v2.py.                    *)
(*                                                                         *)
(* An observation is a record [miner, task, available, correct, compliant, *)
(* reward, strategy, behavior, evidence].  The code's observation repeats  *)
(* the epoch, the family and the commitment of its task; both drivers copy *)
(* them from the task itself.  Rewards are naturals; means, roots and      *)
(* standard errors are rounded down.                                       *)
(***************************************************************************)
EXTENDS Allocation, Sequences, SequencesExt, Gates

CONSTANTS
  Families,            \* AggregationPolicy.required_families
  Schedule,            \* AggregationPolicy.task_schedule: the families of its tasks
  MinimumTasks, MinimumFamilyTasks,
  MinAvailability, MinCompliance, MinCorrectness,   \* in percent
  WinsorShare,         \* 1 / winsor_fraction
  ConfidenceZ

\* The scheduled tasks of a family.
TasksOf(f) == {t \in DOMAIN Schedule : Schedule[t] = f}

\* AggregationPolicy.__post_init__ refuses other policies.
ASSUME AggregationAssumption ==
  /\ IsFiniteSet(Families) /\ Families # {}
  /\ Schedule \in Seq(Families)
  /\ MinimumTasks \in Nat /\ MinimumFamilyTasks \in Nat \ {0}
  /\ MinimumTasks >= MinimumFamilyTasks * Cardinality(Families)
  /\ MinimumTasks <= Len(Schedule)
  /\ \A f \in Families : Cardinality(TasksOf(f)) >= MinimumFamilyTasks
  /\ {MinAvailability, MinCompliance, MinCorrectness} \subseteq 0 .. 100
  /\ WinsorShare \in Nat /\ WinsorShare > 2
  /\ ConfidenceZ \in Nat

-----------------------------------------------------------------------------
\* The values of a finite family in order: the i-th is the least that i values
\* do not exceed.
Sorted(values) ==
  LET graph   == {<<k, values[k]>> : k \in DOMAIN values}
      upTo(v) == Cardinality({p \in graph : p[2] <= v})
  IN  [i \in 1 .. Cardinality(DOMAIN values) |-> Min({v \in {p[2] : p \in graph} : upTo(v) >= i})]

Product(values) == FoldFunction(LAMBDA a, b : a * b, 1, values)

Power(b, n) == Product([i \in 1 .. n |-> b])

\* The integer part of the n-th root of p: the root of p \div 2^n is half of it.
Root(n, p) ==
  LET root[k \in 0 .. p] ==
        LET low == 2 * root[k \div Power(2, n)]
        IN  IF k = 0 THEN 0 ELSE IF Power(low + 1, n) <= k THEN low + 1 ELSE low
  IN  root[p]

\* Twice the median of the values.
Median2(values) ==
  LET ordered == Sorted(values)
      n       == Cardinality(DOMAIN values)
  IN  ordered[(n + 1) \div 2] + ordered[n \div 2 + 1]

\* _winsorized_mean with the literal width.
WinsorizedMean(values) ==
  LET ordered == Sorted(values)
      n       == Cardinality(DOMAIN values)
      width   == Min({n \div WinsorShare, (n - 1) \div 2})
      lower   == ordered[1 + width]
      upper   == ordered[n - width]
      bounded == [k \in DOMAIN values |-> Min({upper, Max({lower, values[k]})})]
  IN  SumOver(bounded, DOMAIN values) \div n

\* _robust_standard_error: 3 / 2, for 1.4826, times the median of the absolute
\* deviations from the median, by the root of the number of values.
StandardError(values) ==
  LET n         == Cardinality(DOMAIN values)
      center2   == Median2(values)
      deviation == [k \in DOMAIN values |-> Max({2 * values[k] - center2, center2 - 2 * values[k]})]
      mad4      == Median2(deviation)    \* four times the median deviation
  IN  IF n < 2 THEN 0 ELSE Root(2, (9 * mad4 * mad4) \div (64 * n))

-----------------------------------------------------------------------------
\* The observation takes part in the accounting of duplicates.
Counted(o) == o.available /\ o.compliant /\ o.correct

\* The observations of one executable strategy on the task of obs[i].
Duplicates(obs, i) ==
  {j \in DOMAIN obs : Counted(obs[j]) /\ obs[j].task = obs[i].task
                      /\ obs[j].strategy = obs[i].strategy}

\* Fault: the copies keep the whole reward.
DeduplicatedFault(obs) == Range(obs)

\* deduplicate_task_rewards: every miner of a group has its part of the reward.
\* Observations that are equal would be one miner's twice, which raises.
Deduplicated(obs) ==
  {IF Counted(obs[i]) THEN [obs[i] EXCEPT !.reward = @ \div Cardinality(Duplicates(obs, i))]
   ELSE obs[i] : i \in DOMAIN obs}

\* deduplicate_task_rewards raises ValueError.
DeduplicationRaises(obs) ==
  \E i \in DOMAIN obs : Counted(obs[i]) /\
    \E j \in Duplicates(obs, i) \ {i} :
      \/ obs[i].miner = obs[j].miner
      \/ obs[i].evidence # obs[j].evidence
      \/ obs[i].reward # obs[j].reward

\* aggregate_network or _aggregate_scheduled_miner raises ValueError.
AggregationRaises(obs, miners) ==
  \/ miners = {}
  \/ \E i \in DOMAIN obs : obs[i].miner \notin miners \/ obs[i].task \notin DOMAIN Schedule
  \/ DeduplicationRaises(obs)
  \/ \E i, j \in DOMAIN obs :
       i # j /\ obs[i].miner = obs[j].miner /\ obs[i].task = obs[j].task

\* The reward of the observation in S; 0 without one.
RewardIn(S) == IF S = {} THEN 0 ELSE (CHOOSE o \in S : TRUE).reward

\* The reward of the task t among the miner's observations.
GatedReward(mine, t) == RewardIn({o \in mine : o.task = t /\ Counted(o)})

\* The lower confidence bound of a family of values.
LowerBound(values) == Max({0, WinsorizedMean(values) - ConfidenceZ * StandardError(values)})

\* Fault: the rewards are not kept apart by family.
FamilyScoreFault(mine, f) == LowerBound([t \in DOMAIN Schedule |-> GatedReward(mine, t)])

\* The lower confidence bound over the scheduled tasks of a family.
FamilyScore(mine, f) == LowerBound([t \in TasksOf(f) |-> GatedReward(mine, t)])

\* The geometric mean of the families' scores, less its uncertainty.
RobustScore(mine) ==
  LET scores == [f \in Families |-> FamilyScore(mine, f)]
  IN  Max({0, Root(Cardinality(Families), Product(scores)) - ConfidenceZ * StandardError(scores)})

Answered(mine) == {o \in mine : o.available}

\* _aggregate_scheduled_miner on the miner's deduplicated observations.  The
\* code multiplies by availability and compliance: the share of the scheduled
\* tasks with a compliant answer, whose denominator is left out.
Aggregate(mine) ==
  LET available == Answered(mine)
      n         == Cardinality(available)
      compliant == Cardinality({o \in available : o.compliant})
      correct   == Cardinality({o \in available : o.correct})
      inFamily  == [f \in Families |->
                      Cardinality({o \in available : Schedule[o.task] = f})]
      reward    == RobustScore(mine) * compliant
      code      == FirstClosed(<<
        <<n < MinimumTasks, "insufficient_tasks">>,
        <<\E f \in Families : inFamily[f] < MinimumFamilyTasks, "insufficient_family_tasks">>,
        <<n * 100 < MinAvailability * Len(Schedule), "availability_gate">>,
        <<compliant * 100 < MinCompliance * n, "compliance_gate">>,
        <<correct * 100 < MinCorrectness * n, "correctness_gate">>,
        <<\E f \in Families : FamilyScore(mine, f) = 0, "worst_family_gate">>,
        <<reward = 0, "no_robust_improvement">>>>)
      portfolio(digest(_)) == {<<Schedule[o.task], digest(o)>> : o \in available}
  IN  [eligible |-> code = "none",
       code     |-> code,
       reward   |-> IF code = "none" THEN reward ELSE 0,
       strategy |-> portfolio(LAMBDA o : o.strategy),
       behavior |-> portfolio(LAMBDA o : o.behavior)]

\* aggregate_network.
AggregateNetwork(obs, miners) ==
  LET shared == Deduplicated(obs)
  IN  [m \in miners |-> Aggregate({o \in shared : o.miner = m})]
=============================================================================
