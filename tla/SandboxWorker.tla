--------------------------- MODULE SandboxWorker ---------------------------
(***************************************************************************)
(* One evaluation of a bundle on a fixture: run_docker_worker and          *)
(* run_bounded_process on the validator's side, worker_main and            *)
(* execute_request of planrace/sandbox_v2.py in the container.             *)
(*                                                                         *)
(* The worker admits the request, builds the indexes on a copy of the      *)
(* fixture, and runs the reference query on both copies in interleaved     *)
(* trials.  Every statement runs under the deadline installed on its       *)
(* connection; the validator waits under a wall clock of its own and kills *)
(* the docker client when it expires.  The container is the daemon's and   *)
(* outlives its client, so a worker can go on after its answer was given.  *)
(*                                                                         *)
(* A result of the query is its digest.  Time is counted in ticks while a  *)
(* statement runs; the wall clock may expire at any moment.                *)
(***************************************************************************)
EXTENDS Scoring, SequencesExt

CONSTANTS
  Requests,       \* the requests the validator may make
  Defects,        \* Defects[r]: the admission checks that fail for r
  Indexes,        \* Indexes[r]: the number of indexes of its bundle
  TrialCount,     \* SandboxRequestV2.trial_count
  Digests,        \* digests of query results
  QueryTimeout,   \* query_timeout_ms, in ticks
  Savings,        \* what the timings may be worth
  None,           \* no value
  MaxFaults       \* bound on the faults of the environment

Arms  == {"baseline", "candidate"}
Temps == {"cold", "warm"}

\* SandboxRequestV2 refuses other trial counts.
ASSUME SandboxAssumption ==
  /\ TrialCount \in 6 .. 24 /\ TrialCount % 2 = 0
  /\ QueryTimeout \in Nat \ {0} /\ MaxFaults \in Nat
  /\ Savings \subseteq Nat /\ Savings # {} /\ Digests # {}
  /\ None \notin Digests /\ "timeout" \notin Digests /\ None # "timeout"
  /\ \A r \in Requests : Indexes[r] \in Nat

-----------------------------------------------------------------------------
\* The admission checks in the order of execute_request.  The artifact policy
\* is checked index by index: its codes are those of the first index refused.
FixtureChecks ==
  <<"database_missing", "database_limit", "task_reveal_mismatch",
    "generator_source_mismatch", "benchmark_policy_mismatch", "fixture_not_committed",
    "fixture_file_digest_missing", "fixture_file_mismatch", "fixture_content_mismatch",
    "fixture_digest_rejected", "fixture_parameters_mismatch", "artifact_size">>
ArtifactChecks ==
  <<"index_count_policy", "index_column_policy", "unique_index_policy",
    "partial_index_policy", "predicate_count_policy", "predicate_operator_policy">>
QueryChecks ==
  <<"sql_size", "parse_error", "multiple_statements", "read_only_query_required",
    "forbidden_statement", "recursive_cte", "unbounded_join", "forbidden_function">>
SchemaChecks ==
  <<"sqlite_rejected", "empty_schema", "preexisting_index", "schema_parse_error",
    "schema_create_table_only", "virtual_table_forbidden", "schema_rejected",
    "fixture_schema_mismatch">>
BundleChecks == <<"unknown_table", "unknown_column">>
AdmissionChecks ==
  FixtureChecks \o ArtifactChecks \o <<"engine_mismatch">> \o QueryChecks
    \o SchemaChecks \o BundleChecks

\* The check that refuses r, "none" when it is admitted.
Refusal(r) ==
  FirstClosed([i \in DOMAIN AdmissionChecks |->
                 <<AdmissionChecks[i] \in Defects[r], AdmissionChecks[i]>>])

\* _balanced_interleave_orders: blocks of ABBA, with an AB pair at the end if
\* they do not balance.
InterleaveOrders ==
  LET pattern == <<"baseline-first", "candidate-first", "candidate-first", "baseline-first">>
      blocks  == [i \in 1 .. TrialCount |-> pattern[((i - 1) % 4) + 1]]
      count(order) == Cardinality({i \in DOMAIN blocks : blocks[i] = order})
  IN  IF count("baseline-first") = count("candidate-first") THEN blocks
      ELSE [blocks EXCEPT ![TrialCount - 1] = "baseline-first",
                          ![TrialCount] = "candidate-first"]

\* The four executions of a trial.
Runs(order) ==
  IF order = "baseline-first"
  THEN <<<<"baseline", "cold">>, <<"candidate", "cold">>,
         <<"baseline", "warm">>, <<"candidate", "warm">>>>
  ELSE <<<<"candidate", "cold">>, <<"baseline", "cold">>,
         <<"candidate", "warm">>, <<"baseline", "warm">>>>

-----------------------------------------------------------------------------
VARIABLES
  \* the validator
  parent,     \* where run_bounded_process is
  answer,     \* what run_docker_worker returned
  cli,        \* the docker client
  \* the worker
  request,    \* the request
  pc,         \* where execute_request is
  workdir,    \* its directory with the two copies is there to be removed
  installed,  \* indexes built on the candidate's copy
  left,       \* left[a]: ticks to the deadline on the connection of a
  ran,        \* ticks the current statement has run
  step,       \* the execution of the current trial
  got,        \* got[<<a, t>>]: its digests, "timeout" for a timed out one
  trials,     \* the recorded trials
  reference,  \* reference_result
  candidate,  \* candidate_result
  result,     \* what execute_request returned
  \* history and bounds
  early,      \* a statement was interrupted before its own timeout
  seen,       \* seen[a]: the digests of the executions that completed
  partial,    \* a trial ran without every index of the bundle
  faults      \* faults of the environment so far

validator == <<parent, answer, cli>>
trial     == <<step, got, left, ran>>
progress  == <<workdir, installed, trials, reference, candidate>>
history   == <<early, seen, partial>>
vars == <<validator, request, pc, trial, progress, result, history, faults>>

Statement == {"index", "plan", "run"}   \* where a statement is running
Ended     == {"returned", "crashed"}
NoRuns    == [x \in Arms \X Temps |-> None]

\* The codes of a failure, of the worker or of the validator.
FailureCodes ==
  Range(AdmissionChecks) \cup
    {"query_timeout", "sqlite_rejected", "worker_rejected", "database_limit", "result_limit",
     "malformed_text", "nondeterministic_result", "database_missing", "engine_image_mismatch",
     "worker_input_limit", "worker_spawn_error", "worker_crash", "worker_timeout",
     "worker_output_limit", "worker_malformed_output"}

Results ==
  [code : {"none", "candidate_timeout", "result_mismatch"} \cup FailureCodes,
   correct : BOOLEAN, compliant : BOOLEAN, trials : Seq(Trial), used : BOOLEAN,
   savings : Savings \cup {0}]

\* Types.  When execute_request has returned, whichever way it did, it has removed
\* its copies of the fixture, as far as rmtree could.
TypeOK ==
  /\ parent \in {"idle", "waiting", "killed", "returned", "raised"}
  /\ answer \in Results \cup {None} /\ result \in Results \cup {None}
  /\ cli \in {"none", "running", "exited", "dead"}
  /\ request \in Requests \cup {None}
  /\ pc \in {"none", "admit", "open", "close"} \cup Statement \cup Ended
  /\ workdir \in BOOLEAN /\ (pc = "returned" => ~workdir)
  /\ early \in BOOLEAN /\ partial \in BOOLEAN
  /\ installed \in Nat /\ step \in 0 .. 5 /\ ran \in 0 .. QueryTimeout + 1
  /\ left \in [Arms -> 0 .. QueryTimeout]
  /\ got \in [Arms \X Temps -> Digests \cup {None, "timeout"}]
  /\ trials \in Seq(Trial) /\ Len(trials) <= TrialCount
  /\ reference \in Digests \cup {None} /\ candidate \in Digests \cup {None}
  /\ seen \in [Arms -> SUBSET Digests]
  /\ faults \in 0 .. MaxFaults

Init ==
  /\ parent = "idle" /\ answer = None /\ cli = "none"
  /\ request = None /\ pc = "none" /\ workdir = FALSE /\ installed = 0
  /\ left = [a \in Arms |-> 0] /\ ran = 0 /\ step = 0 /\ got = NoRuns
  /\ trials = <<>> /\ reference = None /\ candidate = None
  /\ result = None
  /\ early = FALSE /\ seen = [a \in Arms |-> {}] /\ partial = FALSE /\ faults = 0

Fault == faults < MaxFaults /\ faults' = faults + 1
Fine  == faults' = faults

-----------------------------------------------------------------------------
\* The worker.

\* The local variables of execute_request go with its frame.
DropLocals ==
  /\ installed' = 0 /\ step' = 0 /\ got' = NoRuns /\ ran' = 0 /\ left' = [a \in Arms |-> 0]
  /\ trials' = <<>> /\ reference' = None /\ candidate' = None

\* Fault: the directory is only removed after a success.
LeaveFault(r) ==
  /\ pc' = "returned" /\ result' = r /\ workdir' = (workdir /\ ~r.correct)
  /\ DropLocals
  /\ cli' = IF cli = "running" THEN "exited" ELSE cli
  /\ UNCHANGED <<parent, answer, request, faults>>

\* execute_request returns r; its finally clause removes the directory (rmtree
\* ignores errors: what it leaves goes with the container's tmpfs), and
\* worker_main writes the result and exits.
Leave(r) ==
  /\ pc' = "returned" /\ result' = r /\ workdir' = FALSE
  /\ DropLocals
  /\ cli' = IF cli = "running" THEN "exited" ELSE cli
  /\ UNCHANGED <<parent, answer, request, faults>>

\* Fault: the deadline of the connection is not renewed.
StartFault(a) == ran' = 0 /\ UNCHANGED left

\* A statement starts on the connection of a, under a deadline of its own.
Start(a) == ran' = 0 /\ left' = [left EXCEPT ![a] = QueryTimeout]

\* Time passes while a statement runs.
Tick ==
  /\ pc \in Statement /\ ran <= QueryTimeout
  /\ ran' = ran + 1
  /\ left' = [a \in Arms |-> Max({left[a] - 1, 0})]
  /\ UNCHANGED <<validator, request, pc, step, got, progress, result, history, faults>>

\* The progress handler interrupts the statement on a: its deadline has passed.
Interrupts(a) ==
  /\ left[a] = 0
  /\ early' = (early \/ ran < QueryTimeout)
  /\ UNCHANGED <<seen, partial>>

\* execute_request up to the two copies of the fixture; a bundle without
\* indexes has nothing to build, and the plan of the query comes next.
Admit ==
  /\ pc = "admit"
  /\ IF Refusal(request) # "none"
     THEN Leave(Failure(Refusal(request))) /\ UNCHANGED history
     ELSE /\ workdir' = TRUE
          /\ pc' = IF Indexes[request] = 0 THEN "plan" ELSE "index"
          /\ Start("candidate")
          /\ UNCHANGED <<validator, request, step, got, installed, trials, reference,
                         candidate, result, history, faults>>

\* Fault: an index that cannot be built is skipped.
BuildIndexFault ==
  /\ pc = "index"
  /\ installed' \in {installed, installed + 1}
  /\ pc' = IF installed' + 1 >= Indexes[request] THEN "plan" ELSE "index"
  /\ Start("candidate")
  /\ UNCHANGED <<validator, request, step, got, workdir, trials, reference, candidate,
                 result, history, faults>>

\* CREATE INDEX completes.  After the last one the transaction is committed,
\* the size of the copy is checked and the connection is turned read-only.
BuildIndex ==
  /\ pc = "index"
  /\ installed' = installed + 1
  /\ pc' = IF installed' = Indexes[request] THEN "plan" ELSE "index"
  /\ Start("candidate")
  /\ UNCHANGED <<validator, request, step, got, workdir, trials, reference, candidate,
                 result, history, faults>>

\* The copy with its indexes is larger than max_database_bytes.
OutgrowLimit ==
  /\ pc = "index" /\ installed + 1 = Indexes[request]
  /\ Leave(Failure("database_limit")) /\ UNCHANGED history

\* EXPLAIN QUERY PLAN completes; its connection is closed.
Explain ==
  /\ pc = "plan"
  /\ pc' = "open"
  /\ UNCHANGED <<validator, request, trial, progress, result, history, faults>>

\* Whether the plan uses an index of the bundle; it is chosen when it is told.
UsesIndex == IF installed = 0 THEN {FALSE} ELSE BOOLEAN

\* An index or the plan is interrupted, or sqlite or the file system refuses it.
SetupFails ==
  /\ pc \in {"index", "plan"}
  /\ \/ Interrupts("candidate") /\ Leave(Failure("query_timeout"))
     \/ /\ \E code \in {"sqlite_rejected", "worker_rejected"} : Leave(Failure(code))
        /\ UNCHANGED history

Order == InterleaveOrders[Len(trials) + 1]

\* Both connections of a trial are opened, each with a deadline, and the first
\* execution starts under one of its own.
OpenTrial ==
  /\ pc = "open" /\ Len(trials) < TrialCount
  /\ pc' = "run" /\ step' = 1 /\ got' = NoRuns /\ ran' = 0
  /\ left' = [a \in Arms |-> QueryTimeout]
  /\ partial' = (partial \/ installed # Indexes[request])
  /\ UNCHANGED <<validator, request, progress, result, early, seen, faults>>

\* The next execution of the trial, or its end; the candidate's warm one is
\* skipped when the cold one has timed out.
Advance(runs) ==
  LET skip  == /\ step < 4 /\ Runs(Order)[step + 1] = <<"candidate", "warm">>
               /\ runs[<<"candidate", "cold">>] = "timeout"
      next  == IF skip THEN step + 2 ELSE step + 1
  IN  /\ step' = next /\ got' = runs
      /\ IF next > 4 THEN pc' = "close" /\ UNCHANGED <<left, ran>>
         ELSE pc' = pc /\ Start(Runs(Order)[next][1])

\* _run_once returns the digest d.
RunCompletes(d) ==
  LET x == Runs(Order)[step]
  IN  /\ pc = "run"
      /\ Advance([got EXCEPT ![x] = d])
      /\ seen' = [seen EXCEPT ![x[1]] = @ \cup {d}]
      /\ UNCHANGED <<validator, request, progress, result, early, partial, faults>>

\* The query is interrupted: _run_candidate_once records it for the candidate,
\* for the baseline the whole request fails.
RunInterrupted ==
  LET x == Runs(Order)[step]
  IN  /\ pc = "run"
      /\ Interrupts(x[1])
      /\ IF x[1] = "baseline" THEN Leave(Failure("query_timeout"))
         ELSE /\ Advance([got EXCEPT ![x] = "timeout"])
              /\ UNCHANGED <<validator, request, progress, result, faults>>

\* The rows exceed a limit, a text is not UTF-8, or sqlite, the file system or a
\* value of the query is refused.
RunRejected ==
  /\ pc = "run"
  /\ \E code \in {"result_limit", "malformed_text", "sqlite_rejected", "worker_rejected"} :
       Leave(Failure(code))
  /\ UNCHANGED history

\* The results of the candidate that completed in this trial.
CompletedRuns == {got[<<"candidate", t>>] : t \in Temps} \ {None, "timeout"}

\* Fault: the references of different trials are not compared.
CloseCodeFault ==
  FirstClosed(<<
    <<got[<<"baseline", "cold">>] # got[<<"baseline", "warm">>], "nondeterministic_result">>,
    <<\E c \in CompletedRuns : c # got[<<"baseline", "cold">>], "result_mismatch">>>>)

\* What ends the request at the end of a trial, "none" when it goes on.
CloseCode ==
  FirstClosed(<<
    <<got[<<"baseline", "cold">>] # got[<<"baseline", "warm">>], "nondeterministic_result">>,
    <<\E c \in CompletedRuns : c # got[<<"baseline", "cold">>], "result_mismatch">>,
    <<reference \notin {None, got[<<"baseline", "cold">>]}, "nondeterministic_result">>>>)

\* The trial is recorded.
RecordTrial ==
  /\ reference' = got[<<"baseline", "cold">>]
  /\ candidate' = IF CompletedRuns = {} THEN candidate
                  ELSE CHOOSE c \in CompletedRuns : TRUE
  /\ trials' = Append(trials,
        [worker |-> 1, order |-> Order, baselineTimedOut |-> FALSE,
         candidateTimedOut |-> \E t \in Temps : got[<<"candidate", t>>] = "timeout"])
  /\ pc' = "open"
  /\ UNCHANGED <<validator, request, trial, workdir, installed, result, history, faults>>

CloseTrial ==
  /\ pc = "close"
  /\ \/ CloseCode = "none" /\ RecordTrial
     \/ /\ CloseCode = "nondeterministic_result"
        /\ Leave(Failure("nondeterministic_result")) /\ UNCHANGED history
     \/ /\ CloseCode = "result_mismatch"
        /\ \E u \in UsesIndex : Leave(Result("result_mismatch", FALSE, TRUE, trials, u, 0))
        /\ UNCHANGED history

\* After the last trial: no result of the candidate at all, or success.  Every
\* result was compared in its trial; the code compares the last one again.
Finish ==
  /\ pc = "open" /\ Len(trials) = TrialCount
  /\ \/ /\ candidate = None
        /\ \E u \in UsesIndex : Leave(Result("candidate_timeout", FALSE, TRUE, trials, u, 0))
     \/ /\ candidate # None
        /\ \E s \in Savings, u \in UsesIndex :
              Leave(IF candidate = reference
                    THEN Result("none", TRUE, TRUE, trials, u, s)
                    ELSE Result("result_mismatch", FALSE, TRUE, trials, u, 0))
  /\ UNCHANGED history

\* The worker dies, by its limits or an exception execute_request does not
\* handle: exit status 70 or a signal.
Crash ==
  /\ pc \notin Ended \cup {"none"} /\ Fault
  /\ pc' = "crashed" /\ cli' = IF cli = "running" THEN "exited" ELSE cli
  /\ DropLocals
  /\ UNCHANGED <<parent, answer, request, workdir, result, history>>

-----------------------------------------------------------------------------
\* The validator.

Worker == <<request, pc, trial, progress, result, history>>

\* run_docker_worker refuses to start a worker, or cannot.
Refuse ==
  /\ parent = "idle"
  /\ \/ \E code \in {"database_missing", "database_limit", "engine_image_mismatch",
                     "worker_input_limit"} : answer' = Failure(code) /\ Fine
     \/ answer' = Failure("worker_spawn_error") /\ Fault
  /\ parent' = "returned"
  /\ UNCHANGED <<cli, Worker>>

\* The docker client is started and the validator waits for it.
Spawn(r) ==
  /\ parent = "idle"
  /\ parent' = "waiting" /\ cli' = "running" /\ request' = r /\ pc' = "admit"
  /\ UNCHANGED <<answer, trial, progress, result, history, faults>>

\* The status of the client that has ended.
Outcome == IF pc = "returned" THEN "ok" ELSE "crash"

\* communicate returns: the output is the result, or a failure when it is too
\* large, whether or not the worker crashed, the worker crashed, or it does not parse.
Collect ==
  /\ parent = "waiting" /\ cli = "exited"
  /\ parent' = "returned"
  /\ \/ Outcome = "ok" /\ answer' = result /\ Fine
     \/ Outcome = "crash" /\ answer' = Failure("worker_crash") /\ Fine
     \/ answer' = Failure("worker_output_limit") /\ Fault
     \/ Outcome = "ok" /\ answer' = Failure("worker_malformed_output") /\ Fault
  /\ UNCHANGED <<cli, Worker>>

\* Fault: the wall clock is only looked at when the worker is between statements.
WallTimeoutFault ==
  /\ parent = "waiting" /\ pc \notin Statement
  /\ parent' = "killed" /\ cli' = "dead"
  /\ UNCHANGED <<answer, Worker, faults>>

\* wall_timeout_seconds have passed: the process group of the client is killed,
\* also when it has just ended.
WallTimeout ==
  /\ parent = "waiting"
  /\ parent' = "killed" /\ cli' = "dead"
  /\ UNCHANGED <<answer, Worker, faults>>

\* Fault: what the worker has written is used although it was too late.
AwaitKilledFault ==
  /\ parent = "killed" /\ parent' = "returned"
  /\ answer' = IF result # None THEN result ELSE Failure("worker_timeout")
  /\ UNCHANGED <<cli, Worker, faults>>

\* The killed client is awaited for two seconds; when it is still there the
\* exception reaches the caller of run_docker_worker.
AwaitKilled ==
  /\ parent = "killed"
  /\ \/ parent' = "returned" /\ answer' = Failure("worker_timeout") /\ Fine
     \/ parent' = "raised" /\ UNCHANGED answer /\ Fault
  /\ UNCHANGED <<cli, Worker>>

Validator == Refuse \/ (\E r \in Requests : Spawn(r)) \/ Collect \/ WallTimeout \/ AwaitKilled

Next ==
  \/ Validator
  \/ Tick \/ Admit \/ BuildIndex \/ OutgrowLimit \/ Explain \/ SetupFails
  \/ OpenTrial \/ (\E d \in Digests : RunCompletes(d)) \/ RunInterrupted \/ RunRejected
  \/ CloseTrial \/ Finish \/ Crash

Spec == Init /\ [][Next]_vars

\* The validator process runs; of the worker nothing is assumed.
FairSpec == Spec /\ WF_vars(Collect \/ WallTimeout \/ AwaitKilled)

-----------------------------------------------------------------------------
\* A bundle is called correct only when every execution that completed, of
\* either copy and in any trial, gave one and the same result.
CorrectMeansAllAgree ==
  result # None /\ result.correct =>
    \E d \in Digests : seen["candidate"] = {d} /\ seen["baseline"] = {d}

\* No trial measures a bundle of which only some indexes could be built.
NoPartialBundleMeasured == ~partial

\* A statement is interrupted only when it has itself run for the timeout: it
\* never inherits the deadline of the one before it on its connection.
InterruptsAreOwn == ~early

\* An answer is one the evaluation can rely on.  It has the shape of a result:
\* correct only as a success, with all its trials, and compliant or without any.
\* It is the result the worker returned, or a failure that names the worker's
\* end: a result that came with the wall clock is not used in part.  And a
\* success is a valid benchmark for score_benchmark, whose gates one timed out
\* trial does not close.
AnswerScorable ==
  answer # None =>
    /\ WellFormed(answer, TrialCount)
    /\ answer.compliant => pc = "returned" /\ answer = result /\ cli = "exited"
    /\ answer.correct =>
         /\ Score(answer).valid
         /\ Cardinality(Completed(answer)) >= TrialCount - 1 => ZeroCode(answer) = "none"

\* A started evaluation gives an answer, or raises, whatever the worker does.
EvaluationEnds == parent = "waiting" ~> parent \in {"returned", "raised"}
=============================================================================
