----------------------------- MODULE Evaluation -----------------------------
(***************************************************************************)
(* The evaluation of the scheduled tasks on the committed holdouts, from   *)
(* the accepted submissions to the weights.  Two drivers share its parts:  *)
(*                                                                         *)
(*   "batch"   _evaluate_epoch and main of scripts/run_localnet_v2.py: all *)
(*             strategies and fixtures of a task go to one container;      *)
(*   "cohort"  evaluate_task_cohort of planrace/evaluation_v2.py: one      *)
(*             worker per strategy and fixture.                            *)
(*                                                                         *)
(* An accepted response is bound to its task and its engine (module        *)
(* ResponseAuth).  What a worker can find for a strategy is the constant   *)
(* OutcomesOf, results that module SandboxWorker can produce; that answers *)
(* may come back in another order than that of the requests is what the    *)
(* code guards against with _verify_worker_echo.                           *)
(***************************************************************************)
EXTENDS Scoring, Aggregation, TaskMaterial

CONSTANTS
  Miners,
  Bundles, StrategyOf, HasIndexes,   \* the artifacts: executable digest, any index
  PlanOf,              \* the normalised query plan under a strategy
  DrawsOf,             \* what the entropy source can give for a task: id, seed, salt
  Submissions,         \* Submissions[t]: the maps miner -> bundle accepted for t
  OutcomesOf,          \* OutcomesOf[t][s]: the results a worker can give
  TrialCount, SavingsUnit,           \* savings are in 1 / SavingsUnit
  RewardUnit,          \* rewards are in 1 / (5 * RewardUnit) of a score
  MaxStrategies,       \* DEFAULT_MAX_UNIQUE_STRATEGIES_PER_TASK
  MaxItems,            \* the items of a SandboxBatchRequestV2
  MinDistinct, CapNum, CapDen        \* minimum_distinct_strategies, maximum_weight

ASSUME EvaluationAssumption ==
  /\ IsFiniteSet(Miners) /\ Miners # {}
  /\ StrategyOf \in [Bundles -> DOMAIN PlanOf] /\ HasIndexes \subseteq Bundles
  /\ Families \subseteq QueryFamilies
  /\ TrialCount >= MinimumTrials /\ TrialCount % 2 = 0
  /\ TrialCount \in Nat /\ SavingsUnit \in Nat \ {0} /\ RewardUnit \in Nat \ {0}
  /\ \A t \in DOMAIN Schedule : \A s \in DOMAIN PlanOf : \A r \in OutcomesOf[t][s] :
       WellFormed(r, TrialCount) /\ r.trials \in Seq(Trial) /\ r.savings \in Nat
  /\ \A t \in DOMAIN Schedule : \A sub \in Submissions[t] :
       DOMAIN sub \subseteq Miners /\ sub \in [DOMAIN sub -> Bundles]
  /\ CapDen \in Nat \ {0} /\ CapNum \in 1 .. CapDen /\ MinDistinct \in Nat \ {0}

VARIABLES
  driver,
  task,         \* the scheduled task that is evaluated
  private,      \* its material as the driver has it, if it has any
  status,       \* open, created, grouping, measuring, scoring, allocated or raised
  subs,         \* the accepted submissions of the task
  queue,        \* the strategies still to be evaluated, in order
  answers,      \* the answers of the batch worker
  evals,        \* the evaluations of the task, by strategy
  obs,          \* the observations of the closed tasks
  failed,       \* tasks whose record has a batch_failure
  aggregates, reason, weights        \* what allocate_weights returns

vars == <<driver, task, private, status, subs, queue, answers, evals, obs, failed,
          aggregates, reason, weights>>

Fixtures == Len(HoldoutProfiles)

Strategies == {StrategyOf[subs[m]] : m \in DOMAIN subs}

MinersOf(s) == {m \in DOMAIN subs : StrategyOf[subs[m]] = s}

Empty == [x \in {} |-> 0]

Init ==
  /\ driver \in {"batch", "cohort"}
  /\ task = 1 /\ private = Empty /\ status = "open" /\ subs = Empty /\ queue = <<>>
  /\ answers = <<>> /\ evals = Empty /\ obs = <<>> /\ failed = {}
  /\ aggregates = Empty /\ reason = "none" /\ weights = Empty

-----------------------------------------------------------------------------
\* One submitted bundle stands for all the bundles of its strategy.
Canonical(s) == subs[CHOOSE m \in MinersOf(s) : TRUE]

\* Fault: only the fixture is compared.
EchoFault(answer, b, i) == answer.fixture = i

\* _verify_worker_echo on the answer to the request <<bundle, fixture>>.
Echo(answer, b, i) == answer.bundle = b /\ answer.fixture = i

\* 1 in the unit of a score.
One == TrialCount * TrialCount * SavingsUnit

\* _robust_holdout_reward, in fifths: three of the mean of the lowest quarter
\* and two of the geometric mean.
RobustHoldoutReward(rewards) ==
  LET n         == Cardinality(DOMAIN rewards)
      width     == Max({1, (n + 3) \div 4})
      quartile  == SumOver(Sorted(rewards), 1 .. width) \div width
      geometric == Root(n, Product([i \in DOMAIN rewards |-> One + rewards[i]])) - One
  IN  RewardUnit * (3 * quartile + 2 * geometric)

\* The gates of _finalize_holdout_evaluation.
FinalCode(b, results) ==
  LET some(P(_)) == \E i \in DOMAIN results : P(results[i])
  IN  FirstClosed(<<
        <<some(LAMBDA r : ~r.correct), "exact_result_gate">>,
        <<some(LAMBDA r : ~r.compliant), "artifact_policy_gate">>,
        <<some(LAMBDA r : ~Score(r).valid), "benchmark_invalid">>,
        <<b \notin HasIndexes \/ ~some(LAMBDA r : r.used), "no_robust_improvement">>>>)

\* A failed result carries no plan and no used index: holdout_behavior_digest.
Behavior(s, results) ==
  [i \in DOMAIN results |->
     IF results[i].compliant THEN <<PlanOf[s], results[i].used>> ELSE <<>>]

\* evaluate_bundle_from_sandbox_results and its twin after the echo has been
\* verified.  The evidence is what holdout_evidence_digest covers: the
\* strategy and the answers, from which all the other fields are computed.
Evaluated(b, given) ==
  LET results == [i \in DOMAIN given |-> given[i].result]
      code    == FinalCode(b, results)
      scores  == [i \in DOMAIN given |-> Score(results[i]).reward]
  IN  [strategy  |-> StrategyOf[b],
       exact     |-> \A i \in DOMAIN results : results[i].correct,
       compliant |-> \A i \in DOMAIN results : results[i].compliant,
       reward    |-> IF code = "none" THEN RobustHoldoutReward(scores) ELSE 0,
       behavior  |-> Behavior(StrategyOf[b], results),
       evidence  |-> [task |-> task, bundle |-> b, answers |-> given]]

\* The digests leave the artifact out, which metadata can change.
EvidenceOf(e) ==
  [task |-> e.evidence.task, strategy |-> e.strategy,
   answers |-> [i \in DOMAIN e.evidence.answers |->
                  [strategy |-> StrategyOf[e.evidence.answers[i].bundle],
                   fixture  |-> e.evidence.answers[i].fixture,
                   result   |-> e.evidence.answers[i].result]]]

Observed(m, e) ==
  [miner |-> m, task |-> task, available |-> TRUE, correct |-> e.exact,
   compliant |-> e.compliant, reward |-> e.reward, strategy |-> e.strategy,
   behavior |-> e.behavior, evidence |-> EvidenceOf(e)]

\* The digests of an unavailable observation are those of its miner alone.
Unavailable(m) ==
  [miner |-> m, task |-> task, available |-> FALSE, correct |-> FALSE,
   compliant |-> FALSE, reward |-> 0, strategy |-> m,
   behavior |-> <<<<m, FALSE>>>>, evidence |-> [task |-> task, strategy |-> m, answers |-> <<>>]]

-----------------------------------------------------------------------------
\* The task cannot be evaluated: an exception leaves the driver, and what it
\* has measured of the task is lost.
Raise == /\ status' = "raised"
         /\ evals' = Empty /\ answers' = <<>>
         /\ UNCHANGED <<driver, task, private, subs, queue, obs, failed, aggregates, reason, weights>>

\* The submissions cannot be grouped into requests.
Unworkable ==
  \/ subs = Empty
  \/ Cardinality(Strategies) > MaxStrategies
  \/ driver = "batch" /\ Cardinality(Strategies) * Fixtures > MaxItems

\* The entropy source repeats itself, or the holdouts are not a task's.
Unusable(t, draw) == CreateRaises(draw, HiddenFixtures(draw.seed, Schedule[t]))

\* The scheduled task t as it can be made; t stands for its owner, its
\* policies and its deadline.
Created(t) == {CreateBenchmarkTask(t, Schedule[t], draw) :
                 draw \in {d \in DrawsOf[t] : ~Unusable(t, d)}}

\* Create the task, unless create_benchmark_task_v2 raises.
Create ==
  /\ status = "open" /\ task \in DOMAIN Schedule
  /\ \/ /\ private' \in Created(task)
        /\ status' = "created"
        /\ UNCHANGED <<driver, task, subs, queue, answers, evals, obs, failed,
                       aggregates, reason, weights>>
     \/ (\E draw \in DrawsOf[task] : Unusable(task, draw)) /\ Raise

\* What the evaluation is given for the task p: p itself; p after a part of
\* another task took the place of its own in the file of a run that is resumed;
\* or a task that create_task_v2 made of other terms than the benchmark's.
GivenFor(p) ==
  LET others == UNION {Created(t) : t \in DOMAIN Schedule \ {task}}
      due    == BenchmarkTerms(task, Schedule[task])
      draw   == [task_id |-> p.reveal.task_id, seed |-> p.reveal.seed, salt |-> p.reveal.salt]
  IN  {p}
      \cup {[p EXCEPT !.reveal = [o.reveal EXCEPT !.task_id = p.reveal.task_id]] : o \in others}
      \cup {[p EXCEPT !.reveal.salt = o.reveal.salt] : o \in others}
      \cup {[p EXCEPT !.public.terms.owner = o.public.terms.owner] : o \in others}
      \cup {[p EXCEPT !.public.holdouts = Fixtures + 1],
            [p EXCEPT !.reveal.fixtures = Reverse(@)]}
      \cup {CreateTask(terms, draw, p.reveal.fixtures) :
              terms \in {[due EXCEPT !.family = "custom"], [due EXCEPT !.schema = "v1"],
                         [due EXCEPT !.sql = <<>>], [due EXCEPT !.ranges = <<>>],
                         [due EXCEPT !.training.content = <<>>]}}

\* The material and the accepted responses of the task are at hand.
Collect ==
  /\ status = "created"
  /\ private' \in GivenFor(private)
  /\ \E sub \in Submissions[task] : subs' = sub
  /\ status' = "grouping"
  /\ queue' = <<>> /\ answers' = <<>> /\ evals' = Empty
  /\ UNCHANGED <<driver, task, obs, failed, aggregates, reason, weights>>

\* Group by executable strategy; refuse an empty or an oversized task and, in
\* the runner, one whose reveal does not verify.
Group ==
  /\ status = "grouping"
  /\ IF Unworkable \/ (driver = "batch" /\ ~RevealVerifies(private)) THEN Raise
     ELSE /\ status' = "measuring"
          /\ queue' = SetToSeq(Strategies)
          /\ UNCHANGED <<driver, task, private, subs, answers, evals, obs, failed,
                         aggregates, reason, weights>>

\* The requests of the batch, strategy by strategy.
Item(k) == [bundle  |-> Canonical(queue[1 + (k - 1) \div Fixtures]),
            fixture |-> 1 + ((k - 1) % Fixtures)]

\* The answer to a request.
AnswersTo(item) == {[bundle |-> item.bundle, fixture |-> item.fixture, result |-> r] :
                      r \in OutcomesOf[task][StrategyOf[item.bundle]]}

\* All ways to answer the requests 1 .. n in their order.
InOrder(n) ==
  LET upTo[k \in 0 .. n] ==
        IF k = 0 THEN {<<>>}
        ELSE {Append(q, a) : q \in upTo[k - 1], a \in AnswersTo(Item(k))}
  IN  upTo[n]

\* The answers arrive in the order of the requests, or turned by half.
Delivered(n) ==
  {[k \in 1 .. n |-> q[1 + ((k - 1 + turn) % n)]] : q \in InOrder(n), turn \in {0, n \div 2}}

\* run_docker_batch_worker returns as many answers as it was asked for.
RunBatch ==
  /\ status = "measuring" /\ driver = "batch"
  /\ answers' \in Delivered(Len(queue) * Fixtures)
  /\ status' = "scoring"
  /\ UNCHANGED <<driver, task, private, subs, queue, evals, obs, failed, aggregates, reason, weights>>

\* run_docker_batch_worker raises WorkerFailure: the task has no results.
BatchFails ==
  /\ status = "measuring" /\ driver = "batch"
  /\ failed' = failed \cup {task}
  /\ status' = "scoring"
  /\ UNCHANGED <<driver, task, private, subs, queue, answers, evals, obs, aggregates, reason, weights>>

\* The strategy at the head of the queue is scored from the answers given for
\* it, unless the task is refused or one of them is bound to another request.
ScoreHead(given) ==
  LET b == Canonical(Head(queue))
  IN  IF TaskRefusal(private) = "none" /\ \A i \in 1 .. Fixtures : Echo(given[i], b, i)
      THEN /\ evals' = [s \in DOMAIN evals \cup {StrategyOf[b]} |->
                          IF s = StrategyOf[b] THEN Evaluated(b, given) ELSE evals[s]]
           /\ queue' = Tail(queue)
           /\ answers' = SubSeq(answers, Fixtures + 1, Len(answers))
           /\ UNCHANGED <<driver, task, private, status, subs, obs, failed, aggregates, reason, weights>>
      ELSE Raise

\* The next strategy of the batch has its slice of the answers.
ScoreSlice ==
  /\ status = "scoring" /\ answers # <<>>
  /\ ScoreHead(SubSeq(answers, 1, Fixtures))

\* evaluate_bundle_on_committed_holdouts for the next strategy of the cohort.
EvaluateStrategy ==
  /\ status = "measuring" /\ driver = "cohort" /\ queue # <<>>
  /\ \E given \in Delivered(Fixtures) : ScoreHead(given)

\* Fault: the strategy is skipped and the others are evaluated.
WorkerRaisesFault ==
  /\ status = "measuring" /\ driver = "cohort" /\ queue # <<>>
  /\ queue' = Tail(queue)
  /\ UNCHANGED <<driver, task, private, status, subs, answers, evals, obs, failed, aggregates, reason, weights>>

\* A worker of the cohort fails: WorkerFailure leaves evaluate_task_cohort.
WorkerRaises ==
  /\ status = "measuring" /\ driver = "cohort" /\ queue # <<>>
  /\ Raise

\* The observations of the task: those of the evaluated strategies and, in a
\* batch, an unavailable one for every other miner.
CloseTask ==
  /\ \/ status = "measuring" /\ driver = "cohort" /\ queue = <<>>
     \/ status = "scoring" /\ driver = "batch" /\ answers = <<>>
  /\ LET seen == UNION {MinersOf(s) : s \in DOMAIN evals}
         new  == {Observed(m, evals[StrategyOf[subs[m]]]) : m \in seen}
         fill == IF driver = "batch" THEN {Unavailable(m) : m \in Miners \ seen} ELSE {}
     IN  obs' = obs \o SetToSeq(new \cup fill)
  /\ task' = task + 1 /\ private' = Empty /\ status' = "open"
  /\ subs' = Empty /\ queue' = <<>> /\ evals' = Empty
  /\ UNCHANGED <<driver, answers, failed, aggregates, reason, weights>>

\* All tasks are closed: aggregate_network and allocate_weights, unless the
\* runner refuses partial evidence or the aggregation raises.
Allocate ==
  /\ status = "open" /\ task \notin DOMAIN Schedule
  /\ IF failed # {} \/ AggregationRaises(obs, Miners) THEN Raise
     ELSE LET agg == AggregateNetwork(obs, Miners)
              why == NoPlanReason(agg, MinDistinct, CapNum, CapDen)
          IN  /\ aggregates' = agg /\ reason' = why
              /\ weights' = IF why # "none" THEN Empty
                            ELSE [m \in Eligible(agg) |-> ShareOf(agg, m, CapNum, CapDen)]
              /\ status' = "allocated"
              /\ UNCHANGED <<driver, task, private, subs, queue, answers, evals, obs, failed>>

Next ==
  \/ Create \/ Collect \/ Group
  \/ RunBatch \/ BatchFails \/ ScoreSlice
  \/ EvaluateStrategy \/ WorkerRaises
  \/ CloseTask \/ Allocate

Spec == Init /\ [][Next]_vars

-----------------------------------------------------------------------------
\* A reward has evidence of its own: for every holdout of the task, in order,
\* a worker's answer about that very strategy which is correct and compliant;
\* one of them uses an index and one is an improvement (_verify_worker_echo,
\* the slices of the batch, _finalize_holdout_evaluation).  And what is scored
\* is the task that was created, whatever the driver was given for it
\* (audit_task_reveal, _validate_and_regenerate_task).
RewardHasItsEvidence ==
  /\ evals # Empty => private \in Created(task)
  /\ \A i \in DOMAIN obs : obs[i].reward > 0 =>
    LET given == obs[i].evidence.answers
    IN  /\ obs[i].evidence.task = obs[i].task
        /\ Len(given) = Fixtures
        /\ \A k \in 1 .. Fixtures :
             /\ given[k].strategy = obs[i].strategy /\ given[k].fixture = k
             /\ given[k].result.correct /\ given[k].result.compliant
             /\ Score(given[k].result).valid
        /\ \E k \in 1 .. Fixtures : given[k].result.used

\* Every miner whose submission was accepted for a task that was closed and
\* measured has one available observation of it, and in a batch so does every
\* other miner an unavailable one: a driver never drops a part of a task.  So what
\* the drivers hand over never makes aggregate_network raise ValueError.
TasksObservedWhole ==
  /\ status = "open" => ~AggregationRaises(obs, Miners)
  /\ \A t \in 1 .. task - 1 :
       LET of(m)    == {i \in DOMAIN obs : obs[i].task = t /\ obs[i].miner = m}
           seen     == {m \in Miners : \E i \in of(m) : obs[i].available}
           accepted == {DOMAIN sub : sub \in Submissions[t]}
       IN  /\ \A m \in Miners : Cardinality(of(m)) <= 1
           /\ t \notin failed => seen \in accepted \ {{}}
           /\ t \in failed => seen = {}
           /\ driver = "batch" => \A m \in Miners : of(m) # {}

\* A miner with a weight has, in every required family, the quota of answers
\* and an answer that passed every holdout with an improvement.  An observation
\* that is unavailable (of the batch) counts as little as none (of the cohort).
WeightNeedsEveryFamily ==
  /\ \A m \in DOMAIN weights : \A f \in Families :
       LET mine == {i \in DOMAIN obs : obs[i].miner = m /\ Schedule[obs[i].task] = f}
       IN  /\ Cardinality({i \in mine : obs[i].available}) >= MinimumFamilyTasks
           /\ \E i \in mine : obs[i].correct /\ obs[i].compliant /\ obs[i].reward > 0
  /\ status = "allocated" =>
       aggregates = AggregateNetwork(Restrict(obs, {i \in DOMAIN obs : obs[i].available}), Miners)

\* The miners whose observations differ from those of m in nothing but the name.
CopiesOf(m) ==
  LET portfolio(k) == {[o EXCEPT !.miner = m] : o \in {obs[i] : i \in {j \in DOMAIN obs :
                                              obs[j].miner = k /\ obs[j].available}}}
  IN  {k \in Miners : portfolio(k) = portfolio(m)}

\* What a miner's deduplicated observations are worth, when every family may be
\* off by e and the geometric mean less its uncertainty by s.
WorthWithin(mine, e, s) ==
  LET scores == [f \in Families |-> FamilyScore(mine, f)]
      moved  == [f \in Families |-> Max({0, scores[f] + e})]
      robust == Root(Cardinality(Families), Product(moved)) - ConfidenceZ * StandardError(scores)
  IN  Max({0, robust + s}) * Cardinality({o \in Answered(mine) : o.compliant})

\* What rounding the rewards, means and standard errors of k copies can make of
\* the score of a family, and of the spread of the families.
FamilyRounding(k) == (4 * ConfidenceZ + 2) * (k - 1)
SpreadRounding(k) == (ConfidenceZ + 1) * (k - 1) + 3 * ConfidenceZ * FamilyRounding(k)

\* A portfolio that k miners submit under k names, and nobody else submits a
\* part of, is worth what it is worth to one of them alone, up to the rounding
\* of k parts.
CopiesShareOneReward ==
  status = "allocated" =>
    \A m \in Eligible(aggregates) :
      LET copies   == CopiesOf(m)
          own      == {<<obs[i].task, obs[i].strategy>> :
                         i \in {j \in DOMAIN obs : obs[j].miner = m /\ obs[j].available}}
          shared   == \E i \in DOMAIN obs :
                        obs[i].miner \notin copies /\ <<obs[i].task, obs[i].strategy>> \in own
          without  == Restrict(obs, {i \in DOMAIN obs : obs[i].miner \notin copies \ {m}})
          alone    == {o \in Deduplicated(without) : o.miner = m}
          family   == FamilyRounding(Cardinality(copies))
          spread   == SpreadRounding(Cardinality(copies))
          together == RewardOver(aggregates, copies)
      IN  copies # {m} /\ ~shared =>
            together \in WorthWithin(alone, -family, -spread) .. WorthWithin(alone, family, spread)

\* A plan distributes the whole weight, and no observed behaviour gets more
\* than maximum_weight however many miners and encodings it has.
SharesWithinCap ==
  status = "allocated" /\ reason = "none" =>
    LET groups == CappedNormalize(GroupMasses(aggregates), CapNum, CapDen)
    IN  /\ SumOver(groups.num, DOMAIN groups.num) = groups.den
        /\ \A b \in DOMAIN groups.num : groups.num[b] * CapDen <= CapNum * groups.den
        /\ \A b \in Groups(aggregates) : \E m \in DOMAIN weights : aggregates[m].behavior = b

\* A result that failed although the strategy did nothing wrong: the reference
\* query itself was interrupted.
BrokenBaseline(r) == r.code = "query_timeout"

\* "A broken baseline invalidates the benchmark and must not update weights":
\* no miner fails a gate when all its failed results are broken baselines.
BrokenBaselineHarmless ==
  status = "allocated" =>
    \A m \in Miners :
      LET mine == {i \in DOMAIN obs : obs[i].miner = m /\ obs[i].available}
          bad  == UNION {{obs[i].evidence.answers[k].result : k \in 1 .. Fixtures} : i \in mine}
      IN  aggregates[m].code \in {"compliance_gate", "correctness_gate"} =>
            \E r \in bad : r.code # "none" /\ ~BrokenBaseline(r)
=============================================================================
