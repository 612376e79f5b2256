----------------------------- MODULE LocalnetRun -----------------------------
(***************************************************************************)
(* The evidence runner scripts/run_localnet_v2.py over one output          *)
(* directory: dispatch of the epochs, the run input, the evaluation of the *)
(* epochs by a pool of threads with one checkpoint per epoch, the refusal  *)
(* of partial evidence, the weight submission and the signed manifest.     *)
(* The runner can be killed or interrupted between any two steps and is    *)
(* invoked again, with or without --resume; what it wrote and the state of *)
(* the chain survive, its memory does not.                                 *)
(*                                                                         *)
(* Evaluation measures time, so evaluating one epoch twice may give two    *)
(* different payloads.  Aggregation and allocation are functions of the    *)
(* payloads: a weight vector is represented by the payloads it is computed *)
(* from.                                                                   *)
(***************************************************************************)
EXTENDS Integers, FiniteSets

CONSTANTS
  N,            \* --epochs
  Workers,      \* --evaluation-workers
  Values,       \* payloads of a successful evaluation
  Failed,       \* a payload with "batch_failure": the sandbox batch failed
  None,         \* an absent file or value
  Planned,      \* the payload vectors for which allocation.planned holds
  PauseFlags,   \* the operator's choices for --pause-chain-during-evaluation
  MaxStops,     \* bound on the kills and interrupts
  MaxFailures   \* bound on the failures of the environment

Epochs   == 1 .. N
Payloads == Values \cup {Failed}

ASSUME LocalnetAssumption ==
  /\ N \in Nat \ {0} /\ Workers \in Nat \ {0}
  /\ Failed \notin Values /\ None \notin Payloads
  /\ Planned \subseteq [Epochs -> Values]
  /\ PauseFlags \subseteq BOOLEAN
  /\ MaxStops \in Nat /\ MaxFailures \in Nat

VARIABLES
  \* the output directory
  used,        \* the directory is not empty
  runInput,    \* run-input.json exists
  checkpoint,  \* checkpoint[e]: the payload in checkpoints/epoch-e.json
  epochFile,   \* epochFile[e]: the payload in epochs/epoch-e.json
  manifest,    \* the report that manifest.json signs
  \* the chain
  paused,      \* the chain's container is paused
  onchain,     \* the weights on the chain
  accepted,    \* history: every weight vector the chain has accepted
  \* the runner
  pc,          \* where main is
  pausing,     \* its --pause-chain-during-evaluation
  future,      \* future[e]: the state of the pool's future for epoch e
  payload,     \* payload[e]: the payload the future returned
  cursor,      \* epochs awaited, then epochs published
  report,      \* the extrinsic's result and the readback
  abandoned,   \* history: a run has left the chain to itself (see Abandon)
  \* bounds
  stops,       \* kills and interrupts so far
  failures     \* failures of the environment so far

directory == <<used, runInput, checkpoint, epochFile, manifest>>
chain     == <<paused, onchain, accepted>>
pool      == <<future, payload, cursor>>
vars      == <<directory, chain, pc, pausing, pool, report, abandoned, stops, failures>>

\* Where main is between its call of docker pause and the end of the finally
\* block with its docker unpause, which the `try` guards from "evaluate" on.
Pausing == {"prepare", "paused", "evaluate", "drain", "unwind", "gathered"}

Steps   == {"idle", "dispatch", "check", "publish", "sign", "leaving"} \cup Pausing
Futures == {"pending", "running", "done", "raised", "cancelled"}
Running == {e \in Epochs : future[e] = "running"}

\* What main knows after _submit_final_weights: the vector it sent (None if it
\* sent none), whether the chain accepted it, whether the result names a block,
\* and the weights read back.
Reports ==
  [sent : [Epochs -> Payloads] \cup {None}, success : BOOLEAN, block : BOOLEAN,
   seen : [Epochs -> Payloads] \cup {None}]

TypeOK ==
  /\ used \in BOOLEAN /\ runInput \in BOOLEAN
  /\ checkpoint \in [Epochs -> Payloads \cup {None}]
  /\ epochFile \in [Epochs -> Payloads \cup {None}]
  /\ manifest \in Reports \cup {None}
  /\ paused \in BOOLEAN
  /\ onchain \in [Epochs -> Payloads] \cup {None}
  /\ accepted \subseteq [Epochs -> Payloads]
  /\ pc \in Steps /\ pausing \in BOOLEAN
  /\ future \in [Epochs -> Futures]
  /\ payload \in [Epochs -> Payloads \cup {None}]
  /\ cursor \in 0 .. N
  /\ report \in Reports \cup {None}
  /\ abandoned \in BOOLEAN
  /\ stops \in 0 .. MaxStops /\ failures \in 0 .. MaxFailures
  /\ Cardinality(Running) <= Workers

Init ==
  /\ used = FALSE /\ runInput = FALSE
  /\ checkpoint = [e \in Epochs |-> None]
  /\ epochFile = [e \in Epochs |-> None]
  /\ manifest = None
  /\ paused = FALSE /\ onchain = None /\ accepted = {}
  /\ pc = "idle" /\ pausing = FALSE
  /\ future = [e \in Epochs |-> "pending"]
  /\ payload = [e \in Epochs |-> None]
  /\ cursor = 0 /\ report = None
  /\ abandoned = FALSE /\ stops = 0 /\ failures = 0

-----------------------------------------------------------------------------
\* The environment fails once more.
Fail == failures < MaxFailures /\ failures' = failures + 1
Fine == failures' = failures

\* The process ends, with an exception, a signal or normally: its memory goes.
Exit ==
  /\ pc' = "idle" /\ pausing' = FALSE
  /\ future' = [e \in Epochs |-> "pending"]
  /\ payload' = [e \in Epochs |-> None]
  /\ cursor' = 0 /\ report' = None

\* A run with --pause-chain-during-evaluation ends between its pause and its
\* release, and no finally block, or no whole one, runs.
Abandon == abandoned' = (abandoned \/ (pausing /\ pc \in Pausing))

\* main without --resume: it refuses a directory that is not empty; starting
\* the miners creates miner-logs in it.
StartFresh(flag) ==
  /\ pc = "idle" /\ ~used
  /\ used' = TRUE /\ pausing' = flag /\ pc' = "dispatch"
  /\ UNCHANGED <<runInput, checkpoint, epochFile, manifest, chain, pool, report, abandoned, stops,
                 failures>>

\* _dispatch_epochs and the readiness of the miners: any miner that is missing,
\* any epoch without exactly nine accepted responses, raises.  The miners are
\* stopped and nothing has been written.
DispatchRaises ==
  /\ pc = "dispatch" /\ Fail
  /\ Exit
  /\ UNCHANGED <<directory, chain, abandoned, stops>>

\* All epochs dispatched and the last deadline past: _write_run_input.
WriteRunInput ==
  /\ pc = "dispatch"
  /\ runInput' = TRUE /\ pc' = "prepare"
  /\ UNCHANGED <<used, checkpoint, epochFile, manifest, chain, pausing, pool, report, abandoned, stops,
                 failures>>

\* Faults: a finished directory, or no directory with epoch files, is resumed.
ResumableFault == runInput
ResumablePublishedFault ==
  manifest = None /\ runInput /\ \A e \in Epochs : epochFile[e] = None

\* May --resume start?
Resumable == manifest = None /\ runInput

\* main with --resume.
Resume(flag) ==
  /\ pc = "idle" /\ Resumable
  /\ pausing' = flag /\ pc' = "prepare"
  /\ UNCHANGED <<directory, chain, pool, report, abandoned, stops, failures>>

\* _set_chain_container_paused(paused=True), before the try, if asked for.
PauseChain ==
  /\ pc = "prepare"
  /\ paused' = (paused \/ pausing)
  /\ pc' = "paused"
  /\ UNCHANGED <<directory, onchain, accepted, pausing, pool, report, abandoned, stops, failures>>

\* docker inspect or docker pause raises, the container paused or not.
PauseFails ==
  /\ pc = "prepare" /\ pausing /\ Fail
  /\ paused' \in {paused, TRUE}
  /\ Abandon /\ Exit
  /\ UNCHANGED <<directory, onchain, accepted, stops>>

\* The try is entered and the pool is created.
StartPool ==
  /\ pc = "paused"
  /\ pc' = "evaluate"
  /\ UNCHANGED <<directory, chain, pausing, pool, report, abandoned, stops, failures>>

-----------------------------------------------------------------------------
\* A thread of the pool takes the next epoch from the queue.
TakeEpoch(e) ==
  /\ pc = "evaluate" /\ future[e] = "pending"
  /\ \A d \in 1 .. e - 1 : future[d] # "pending"
  /\ Cardinality(Running) < Workers
  /\ future' = [future EXCEPT ![e] = "running"]
  /\ UNCHANGED <<directory, chain, pc, pausing, payload, cursor, report, abandoned, stops, failures>>

Finish(e, p) ==
  /\ future' = [future EXCEPT ![e] = "done"]
  /\ payload' = [payload EXCEPT ![e] = p]
  /\ UNCHANGED <<used, runInput, epochFile, manifest, chain, pc, pausing, cursor, report, abandoned,
                 stops>>

HasCheckpointFault(e) == FALSE

\* Does evaluate find checkpoints/epoch-e.json?
HasCheckpoint(e) == checkpoint[e] # None

\* evaluate with a checkpoint: _load_epoch_checkpoint returns its payload.
LoadCheckpoint(e) ==
  /\ future[e] = "running" /\ HasCheckpoint(e)
  /\ Finish(e, checkpoint[e])
  /\ UNCHANGED checkpoint /\ Fine

\* evaluate without one: _evaluate_epoch runs the sandbox, and its payload is
\* written to the checkpoint, whether or not the batch failed.
Evaluate(e) ==
  /\ future[e] = "running" /\ ~HasCheckpoint(e)
  /\ \E p \in Payloads :
       /\ IF p = Failed THEN Fail ELSE Fine
       /\ checkpoint' = [checkpoint EXCEPT ![e] = p]
       /\ Finish(e, p)

\* evaluate raises: the reveal audit, the strategy budget, the file system.
EvaluateRaises(e) ==
  /\ future[e] = "running" /\ Fail
  /\ future' = [future EXCEPT ![e] = "raised"]
  /\ UNCHANGED <<directory, chain, pc, pausing, payload, cursor, report, abandoned, stops>>

\* executor.map hands the results to main in the order of the epochs.
AwaitEpoch ==
  /\ pc = "evaluate" /\ cursor < N /\ future[cursor + 1] = "done"
  /\ cursor' = cursor + 1
  /\ UNCHANGED <<directory, chain, pc, pausing, future, payload, report, abandoned, stops, failures>>

\* An exception in main while it waits: the futures that no thread has taken
\* are cancelled, and leaving the with block waits for the others.
AbandonPool ==
  /\ future' = [e \in Epochs |-> IF future[e] = "pending" THEN "cancelled" ELSE future[e]]
  /\ pc' = "drain"
  /\ UNCHANGED <<directory, chain, pausing, payload, cursor, report, abandoned, failures>>

\* The epoch main waits for has raised.
AwaitRaises ==
  /\ pc = "evaluate" /\ cursor < N /\ future[cursor + 1] = "raised"
  /\ AbandonPool /\ UNCHANGED stops

\* The finally block, in an exception or not.
Finally == pc \in {"unwind", "gathered"}

\* KeyboardInterrupt in main.  While main waits for the results it abandons the
\* pool; a second one ends the wait for the threads that run, and the finally
\* block is entered at once; inside that block the release is not done.  At any
\* other place nothing stands between the exception and the end of the process.
Interrupt ==
  /\ pc # "idle" /\ stops < MaxStops /\ stops' = stops + 1
  /\ \/ /\ pc = "evaluate" /\ AbandonPool
     \/ /\ pc = "drain" /\ pc' = "unwind"
        /\ UNCHANGED <<directory, chain, pausing, pool, report, abandoned, failures>>
     \/ /\ Finally /\ Abandon /\ pc' = "leaving"
        /\ UNCHANGED <<directory, chain, pausing, pool, report, failures>>
     \/ /\ pc \notin {"evaluate", "drain"} /\ ~Finally /\ Abandon /\ Exit
        /\ UNCHANGED <<directory, chain, failures>>

\* The abandoned pool is empty: the with block is left, the exception goes on.
Drained ==
  /\ pc = "drain" /\ Running = {}
  /\ pc' = "unwind"
  /\ UNCHANGED <<directory, chain, pausing, pool, report, abandoned, stops, failures>>

\* Every epoch has its payload: the with block is left.
Gathered ==
  /\ pc = "evaluate" /\ cursor = N
  /\ pc' = "gathered"
  /\ UNCHANGED <<directory, chain, pausing, pool, report, abandoned, stops, failures>>

AfterFinally == IF pc = "gathered" THEN "check" ELSE "leaving"

\* Fault: no finally, the chain is released only when all went well.
ReleaseFault ==
  /\ Finally
  /\ paused' = (paused /\ ~(pausing /\ pc = "gathered"))
  /\ abandoned' = (abandoned /\ ~pausing)
  /\ pc' = AfterFinally
  /\ UNCHANGED <<directory, onchain, accepted, pausing, pool, report, stops, failures>>

\* _set_chain_container_paused(paused=False), whoever had paused the chain, if
\* this run was to pause it.
Release ==
  /\ Finally
  /\ paused' = (paused /\ ~pausing)
  /\ abandoned' = (abandoned /\ ~pausing)
  /\ pc' = AfterFinally
  /\ UNCHANGED <<directory, onchain, accepted, pausing, pool, report, stops, failures>>

\* docker inspect or docker unpause raises, the container unpaused or not.
ReleaseFails ==
  /\ Finally /\ pausing /\ Fail
  /\ paused' \in {paused, FALSE}
  /\ Abandon
  /\ pc' = "leaving"
  /\ UNCHANGED <<directory, onchain, accepted, pausing, pool, report, stops>>

\* An exception ends main; the interpreter waits for the threads of the pool.
Leave ==
  /\ pc = "leaving" /\ Running = {}
  /\ Exit
  /\ UNCHANGED <<directory, chain, abandoned, stops, failures>>

-----------------------------------------------------------------------------
FailedBatchesFault == {e \in 1 .. N - 1 : payload[e] = Failed}

\* The epochs whose payload carries "batch_failure".
FailedBatches == {e \in Epochs : payload[e] = Failed}

\* "refusing partial evidence after sandbox failure"
RefusePartialEvidence ==
  /\ pc = "check" /\ FailedBatches # {}
  /\ Exit
  /\ UNCHANGED <<directory, chain, abandoned, stops, failures>>

StartPublishing ==
  /\ pc = "check" /\ FailedBatches = {}
  /\ pc' = "publish" /\ cursor' = 0
  /\ UNCHANGED <<directory, chain, pausing, future, payload, report, abandoned, stops, failures>>

\* One epochs/epoch-e.json is written.
PublishEpoch ==
  /\ pc = "publish" /\ cursor < N
  /\ epochFile' = [epochFile EXCEPT ![cursor + 1] = payload[cursor + 1]]
  /\ cursor' = cursor + 1
  /\ UNCHANGED <<used, runInput, checkpoint, manifest, chain, pc, pausing, future, payload,
                 report, abandoned, stops, failures>>

SubmitWeightsFault ==
  /\ pc = "publish" /\ cursor = N /\ ~paused
  /\ report' = [sent |-> payload, success |-> TRUE, block |-> TRUE, seen |-> payload]
  /\ pc' = "sign"
  /\ UNCHANGED <<directory, chain, pausing, pool, abandoned, stops, failures>>

\* aggregate_network, allocate_weights and _submit_final_weights: an unplanned
\* allocation is not sent; what is sent may be refused, with or without a
\* block; then the chain's weights are read back.
SubmitWeights ==
  /\ pc = "publish" /\ cursor = N /\ ~paused
  /\ \/ /\ payload \notin Planned
        /\ report' = [sent |-> None, success |-> FALSE, block |-> FALSE, seen |-> onchain]
        /\ Fine /\ UNCHANGED <<onchain, accepted>>
     \/ /\ payload \in Planned
        /\ onchain' = payload /\ accepted' = accepted \cup {payload}
        /\ report' = [sent |-> payload, success |-> TRUE, block |-> TRUE, seen |-> onchain']
        /\ Fine
     \/ /\ payload \in Planned /\ Fail
        /\ \E b \in BOOLEAN :
             report' = [sent |-> payload, success |-> FALSE, block |-> b, seen |-> onchain]
        /\ UNCHANGED <<onchain, accepted>>
  /\ pc' = "sign"
  /\ UNCHANGED <<directory, paused, pausing, pool, abandoned, stops>>

\* A step that needs the chain while an earlier run has left it paused.
ChainUnreachable ==
  /\ pc = "publish" /\ cursor = N /\ paused
  /\ Exit
  /\ UNCHANGED <<directory, chain, abandoned, stops, failures>>

\* summary.json and then the signed manifest.json; a result without a block
\* hash raises before the manifest is signed.
SignManifest ==
  /\ pc = "sign"
  /\ manifest' = IF report.sent # None /\ ~report.block THEN manifest ELSE report
  /\ Exit
  /\ UNCHANGED <<used, runInput, checkpoint, epochFile, chain, abandoned, stops, failures>>

\* The process is killed: no finally block runs.
Kill ==
  /\ pc # "idle" /\ stops < MaxStops
  /\ stops' = stops + 1
  /\ Abandon /\ Exit
  /\ UNCHANGED <<directory, chain, failures>>

\* Nothing is left for the operator to do: a finished directory, or one that
\* was given up before its run input was written.
Done ==
  /\ pc = "idle" /\ used /\ ~Resumable
  /\ UNCHANGED vars

-----------------------------------------------------------------------------
Threads ==
  \E e \in Epochs : TakeEpoch(e) \/ LoadCheckpoint(e) \/ Evaluate(e) \/ EvaluateRaises(e)

Main ==
  \/ DispatchRaises \/ WriteRunInput \/ PauseChain \/ PauseFails \/ StartPool
  \/ AwaitEpoch \/ AwaitRaises \/ Drained \/ Gathered
  \/ Release \/ ReleaseFails \/ Leave
  \/ RefusePartialEvidence \/ StartPublishing \/ PublishEpoch
  \/ SubmitWeights \/ ChainUnreachable \/ SignManifest

Operator ==
  \/ \E flag \in PauseFlags : StartFresh(flag) \/ Resume(flag)
  \/ Interrupt \/ Kill \/ Done

Next == Threads \/ Main \/ Operator

Spec == Init /\ [][Next]_vars

\* The process runs while it can, its threads too, and an operator whose runs
\* keep stopping resumes with --pause-chain-during-evaluation at some point:
\* only such a run unpauses a chain that an earlier one has left paused.  Kills,
\* interrupts and failures are bounded.
FairSpec ==
  /\ Spec
  /\ WF_vars(Main) /\ WF_vars(Threads)
  /\ SF_vars(Resume(TRUE))

-----------------------------------------------------------------------------
\* Every weight vector the chain has ever accepted from this directory is the
\* one its checkpoints give, whatever was killed and resumed and however often
\* the epochs were evaluated: the checkpoint is written before its payload is
\* used, and found before an epoch is evaluated again.
SubmissionsFromCheckpoints == \A w \in accepted : w = checkpoint

\* An epoch whose sandbox batch failed never reaches the public evidence or the
\* weights ("refusing partial evidence").
NoPartialEvidence ==
  /\ \A e \in Epochs : epochFile[e] # Failed
  /\ \A w \in accepted : \A e \in Epochs : w[e] # Failed
  /\ manifest # None => \A e \in Epochs : checkpoint[e] # Failed /\ epochFile[e] = checkpoint[e]

\* The tests that audit_localnet_v2.py makes of the extrinsic and the readback.
AuditAccepts(m) == m.success /\ m.seen = m.sent

\* A manifest that passes the auditor's tests describes the weights that are on
\* the chain, computed from the epoch files beside it.
AuditedManifestIsOnChain ==
  manifest # None => (AuditAccepts(manifest) => manifest.sent = onchain /\ onchain = epochFile)

\* A chain is paused only for a run that is going to release it, or because a
\* run was killed or interrupted outside of the guarded evaluation, or a docker
\* command failed, and no pausing run has ended its evaluation since.  So no
\* exception in a thread, no interrupt of the evaluation and no second one while
\* its threads drain leaves the chain paused, and the next pausing run that
\* reaches the end of its evaluation frees a chain that was.
ChainReleased == paused /\ ~abandoned => pausing /\ pc \in Pausing

\* Once the manifest is there, the directory and the chain's weights stay as
\* they are: nothing is evaluated, published or submitted again.
CompletedIsFinal == [][manifest # None => UNCHANGED <<directory, onchain, accepted>>]_vars

\* How a directory was closed: its manifest certifies if it passes the
\* auditor's tests.
Outcome ==
  IF manifest = None THEN "open" ELSE IF AuditAccepts(manifest) THEN "certified" ELSE "disputed"

\* The output directory and the chain implement the abstract evidence record:
\* kills, resumed runs and evaluations that are repeated leave no trace in it.
ER == INSTANCE EvidenceRecord WITH
        measurement <- checkpoint, published <- epochFile, outcome <- Outcome

ImplementsEvidenceRecord == ER!Spec

\* "A stopped evaluation can continue with --resume": once the run input is
\* written, the run is completed.
ResumeCompletes == runInput ~> manifest # None

\* What of it holds: kills and interrupts alone never keep a run from
\* completing; a failure of the environment, once in a checkpoint, may.
StoppedRunCompletes == runInput ~> (manifest # None \/ failures > 0)
=============================================================================
