------------------------------- MODULE Scoring -------------------------------
(***************************************************************************)
(* score_benchmark of planrace/scoring_v2.py on the result of a sandbox    *)
(* worker.                                                                 *)
(*                                                                         *)
(* A timing is not modelled.  What the timings of the completed trials are *)
(* worth, the weighted lower-confidence savings over the horizons, is the  *)
(* number savings of a result.                                             *)
(***************************************************************************)
EXTENDS Integers, Sequences, FiniteSets, Gates

CONSTANTS
  MinimumTrials,     \* BenchmarkPolicy.minimum_trials
  MaxTimeoutShare    \* 1 / BenchmarkPolicy.maximum_timeout_rate

\* BenchmarkPolicy refuses other values.
ASSUME ScoringAssumption ==
  /\ MinimumTrials \in Nat /\ MinimumTrials >= 2
  /\ MaxTimeoutShare \in Nat /\ MaxTimeoutShare > 1

Orders == {"baseline-first", "candidate-first"}

\* A paired trial; the worker never sets baselineTimedOut.
Trial == [worker : Nat, order : Orders,
          baselineTimedOut : BOOLEAN, candidateTimedOut : BOOLEAN]

\* The result of a worker: its failure code, "none" on success; the verdicts;
\* the trials; whether a plan uses an index of the bundle; the savings.
Result(code, correct, compliant, trials, used, savings) ==
  [code |-> code, correct |-> correct, compliant |-> compliant, trials |-> trials,
   used |-> used, savings |-> savings]

\* _failure: no trial, neither correct nor compliant.
Failure(code) == Result(code, FALSE, FALSE, <<>>, FALSE, 0)

\* What a worker with n trials may return.
WellFormed(r, n) ==
  /\ r.correct <=> r.code = "none"
  /\ r.correct => r.compliant
  /\ ~r.compliant => r.trials = <<>>
  /\ r.correct \/ r.code = "candidate_timeout" => Len(r.trials) = n
  /\ r.code = "candidate_timeout" =>
       \A i \in DOMAIN r.trials : r.trials[i].candidateTimedOut

\* The orders of the trials in I are not balanced.
Unbalanced(trials, I) ==
  LET count(order) == Cardinality({i \in I : trials[i].order = order})
      first        == count("baseline-first")
      second       == count("candidate-first")
  IN  first = 0 \/ second = 0 \/ first - second \notin -1 .. 1

\* The gates of score_benchmark that invalidate the benchmark.
InvalidCode(r) ==
  FirstClosed(<<
    <<Len(r.trials) < MinimumTrials, "insufficient_trials">>,
    <<Cardinality({r.trials[i].worker : i \in DOMAIN r.trials}) # 1, "mixed_workers">>,
    <<Unbalanced(r.trials, DOMAIN r.trials), "unbalanced_interleaving">>,
    <<\E i \in DOMAIN r.trials : r.trials[i].baselineTimedOut, "baseline_timeout">>>>)

Completed(r) == {i \in DOMAIN r.trials : ~r.trials[i].candidateTimedOut}

\* The gates of score_benchmark that give a valid zero.
ZeroCode(r) ==
  LET timeouts == Len(r.trials) - Cardinality(Completed(r))
  IN  FirstClosed(<<
        <<~r.correct, "result_mismatch">>,
        <<~r.compliant, "policy_rejected">>,
        <<timeouts * MaxTimeoutShare > Len(r.trials), "timeout_rate">>,
        <<Cardinality(Completed(r)) < 2, "candidate_timeout">>,
        <<Unbalanced(r.trials, Completed(r)), "timeout_order_imbalance">>>>)

\* score_benchmark: when no gate closes, the savings times the reliability, the
\* squared share of the trials that completed; the unit is 1 / Len(trials)^2.
Score(r) ==
  LET closed == IF InvalidCode(r) # "none" THEN InvalidCode(r) ELSE ZeroCode(r)
      done   == Cardinality(Completed(r))
      reward == IF closed = "none" THEN r.savings * done * done ELSE 0
  IN  [valid  |-> InvalidCode(r) = "none",
       reward |-> reward,
       code   |-> IF closed = "none" /\ reward = 0 THEN "no_relative_improvement" ELSE closed]
=============================================================================
