------------------------- MODULE LocalnetRun_proofs -------------------------
(***************************************************************************)
(* Proofs, for any number of epochs, threads, kills and failures, of the   *)
(* safety properties of LocalnetRun.                                       *)
(*                                                                         *)
(* The arguments: a future that is done holds what its checkpoint holds;   *)
(* main publishes and submits only when all are done and none has failed;  *)
(* a submitted vector names every checkpoint, so none of them is written   *)
(* again; and a directory with a manifest starts no run.                   *)
(***************************************************************************)
EXTENDS LocalnetRun, FiniteSetTheorems, TLAPS

\* What the futures hold, and what main knows of them where it is.
Held ==
  /\ \A e \in Epochs : future[e] = "done" => payload[e] = checkpoint[e] /\ payload[e] \in Payloads
  /\ pc \in {"idle", "dispatch", "prepare", "paused"} => cursor = 0 /\ \A e \in Epochs : future[e] = "pending"
  /\ pc = "evaluate" => \A e \in 1 .. cursor : future[e] = "done"
  /\ pc \in {"gathered", "check", "publish", "sign"} => \A e \in Epochs : future[e] = "done"
  /\ pc \in {"publish", "sign"} => FailedBatches = {}
  /\ pc = "publish" => \A e \in 1 .. cursor : epochFile[e] = payload[e]
  /\ pc = "sign" => epochFile = payload

\* A directory in which a run works is in use, and has no manifest yet.
Owned ==
  /\ runInput \/ pc # "idle" \/ manifest # None => used
  /\ manifest # None => pc = "idle"

\* What main reports is on the chain.
Reported ==
  pc = "sign" => /\ report \in Reports
                 /\ report.success => report.sent = payload /\ onchain = payload

Sound == accepted \subseteq [Epochs -> Values]

IInv ==
  /\ TypeOK /\ Held /\ Owned /\ Reported /\ Sound
  /\ SubmissionsFromCheckpoints /\ NoPartialEvidence /\ AuditedManifestIsOnChain

-----------------------------------------------------------------------------
LEMMA EpochFacts ==
  /\ N \in Nat /\ N > 0 /\ Workers \in Nat /\ Workers > 0
  /\ IsFiniteSet(Epochs) /\ \A e \in Epochs : e \in 1 .. N
  /\ None \notin Payloads /\ Failed \in Payloads /\ Failed \notin Values
  /\ Values \subseteq Payloads
BY LocalnetAssumption, FS_Interval DEF Epochs, Payloads

LEMMA RunningFinite ==
  ASSUME NEW S \in SUBSET Epochs, NEW T \in SUBSET Epochs
  PROVE  /\ IsFiniteSet(S) /\ Cardinality(S) \in Nat
         /\ S \subseteq T => Cardinality(S) <= Cardinality(T)
         /\ \A e : e \notin S => Cardinality(S \cup {e}) = Cardinality(S) + 1
<1>1. IsFiniteSet(S) /\ IsFiniteSet(T)
  BY EpochFacts, FS_Subset
<1>2. QED
  BY <1>1, FS_CardinalityType, FS_Subset, FS_AddElement

\* The threads that run are at most the workers, whatever ends.
LEMMA FewerRunning ==
  ASSUME TypeOK, Running' \subseteq Running
  PROVE  Cardinality(Running') <= Workers
<1>1. Running \in SUBSET Epochs /\ Running' \in SUBSET Epochs
  BY DEF Running, Epochs
<1>2. Cardinality(Running') <= Cardinality(Running)
  BY <1>1, RunningFinite
<1>3. Cardinality(Running) \in Nat /\ Cardinality(Running') \in Nat
  BY <1>1, RunningFinite
<1>4. QED
  BY <1>2, <1>3, EpochFacts DEF TypeOK

LEMMA InitIInv == Init => IInv
<1> SUFFICES ASSUME Init PROVE IInv
  OBVIOUS
<1>1. Running = {}
  BY DEF Init, Running
<1>2. Cardinality(Running) <= Workers
  BY <1>1, FS_EmptySet, EpochFacts
<1>3. TypeOK
  <2>1. 0 \in 0 .. MaxStops /\ 0 \in 0 .. MaxFailures /\ 0 \in 0 .. N
    BY LocalnetAssumption
  <2>2. QED
    BY <1>2, <2>1 DEF Init, TypeOK, Steps, Pausing, Futures
<1>4. Held
  BY <1>3 DEF Init, Held
<1>5. QED
  BY <1>3, <1>4, EpochFacts DEF Init, IInv, Owned, Reported, Sound, SubmissionsFromCheckpoints,
     NoPartialEvidence, AuditedManifestIsOnChain

-----------------------------------------------------------------------------
\* The process ends.
LEMMA ExitStep ==
  ASSUME IInv, Exit, UNCHANGED <<used, runInput, checkpoint, epochFile, onchain, accepted>>,
         paused' \in BOOLEAN, abandoned' \in BOOLEAN, stops' \in 0 .. MaxStops,
         failures' \in 0 .. MaxFailures,
         manifest' = manifest \/ (pc = "sign" /\ manifest' = report), pc # "idle"
  PROVE  IInv'
<1>1. /\ pc' = "idle" /\ pausing' = FALSE /\ cursor' = 0 /\ report' = None
      /\ future' = [e \in Epochs |-> "pending"] /\ payload' = [e \in Epochs |-> None]
  BY DEF Exit
<1>2. Running' = {}
  BY <1>1 DEF Running, Epochs
<1>3. Cardinality(Running') <= Workers
  BY <1>2, FewerRunning DEF IInv
<1>4. manifest' \in Reports \cup {None}
  BY DEF IInv, TypeOK, Reported
<1>5. TypeOK'
  <2>1. 0 \in 0 .. N
    BY EpochFacts
  <2>2. /\ pc' \in Steps /\ future' \in [Epochs -> Futures]
        /\ payload' \in [Epochs -> Payloads \cup {None}] /\ cursor' \in 0 .. N
        /\ report' \in Reports \cup {None} /\ pausing' \in BOOLEAN
    BY <1>1, <2>1 DEF Steps, Pausing, Futures
  <2>3. QED
    BY <1>3, <1>4, <2>2 DEF IInv, TypeOK
<1>6. Held'
  BY <1>1 DEF Held
<1>7. used = TRUE /\ manifest = None
  BY DEF IInv, Owned, TypeOK
<1>8. Owned' /\ Reported' /\ Sound' /\ SubmissionsFromCheckpoints'
  BY <1>1, <1>7 DEF IInv, Owned, Reported, Sound, SubmissionsFromCheckpoints
<1>9. pc = "sign" => /\ epochFile = checkpoint /\ epochFile = payload
                     /\ \A e \in Epochs : checkpoint[e] # Failed
  BY DEF IInv, Held, FailedBatches, TypeOK
<1>10. NoPartialEvidence'
  BY <1>7, <1>9 DEF IInv, NoPartialEvidence
<1>11. AuditedManifestIsOnChain'
  BY <1>7, <1>9 DEF IInv, AuditedManifestIsOnChain, AuditAccepts, Reported
<1>12. QED
  BY <1>5, <1>6, <1>8, <1>10, <1>11 DEF IInv

LEMMA ExitActions ==
  ASSUME IInv,
         \/ DispatchRaises \/ PauseFails \/ Leave \/ RefusePartialEvidence \/ ChainUnreachable
         \/ SignManifest \/ Kill \/ (Interrupt /\ Exit)
  PROVE  IInv'
<1>1. /\ Exit /\ pc # "idle"
      /\ UNCHANGED <<used, runInput, checkpoint, epochFile, onchain, accepted>>
      /\ manifest' = manifest \/ (pc = "sign" /\ manifest' = report)
  BY DEF DispatchRaises, PauseFails, Leave, RefusePartialEvidence, ChainUnreachable, SignManifest,
         Kill, Interrupt, AbandonPool, directory, chain
<1>2. paused' \in BOOLEAN /\ abandoned' \in BOOLEAN
  <2>1. paused' \in {paused, TRUE}
    BY DEF DispatchRaises, PauseFails, Leave, RefusePartialEvidence, ChainUnreachable,
           SignManifest, Kill, Interrupt, AbandonPool, chain
  <2>2. abandoned' = abandoned \/ Abandon
    BY DEF DispatchRaises, PauseFails, Leave, RefusePartialEvidence, ChainUnreachable,
           SignManifest, Kill, Interrupt, AbandonPool
  <2>3. abandoned' \in BOOLEAN
    BY <2>2, Zenon DEF Abandon, IInv, TypeOK
  <2>4. QED
    BY <2>1, <2>3 DEF IInv, TypeOK
<1>3. stops' \in 0 .. MaxStops /\ failures' \in 0 .. MaxFailures
  <2>1. \/ stops' = stops \/ (stops < MaxStops /\ stops' = stops + 1)
    BY DEF DispatchRaises, PauseFails, Leave, RefusePartialEvidence, ChainUnreachable,
           SignManifest, Kill, Interrupt
  <2>2. \/ failures' = failures \/ (failures < MaxFailures /\ failures' = failures + 1)
    BY DEF DispatchRaises, PauseFails, Leave, RefusePartialEvidence, ChainUnreachable,
           SignManifest, Kill, Interrupt, AbandonPool, Fail
  <2>3. QED
    BY <2>1, <2>2, LocalnetAssumption DEF IInv, TypeOK
<1>4. QED
  BY <1>1, <1>2, <1>3, ExitStep

\* Before and at the creation of the pool.
LEMMA StartActions ==
  ASSUME IInv,
         \/ WriteRunInput \/ PauseChain \/ StartPool
         \/ \E flag \in PauseFlags : StartFresh(flag) \/ Resume(flag)
  PROVE  IInv'
<1>1. /\ pc \in {"idle", "dispatch", "prepare", "paused"}
      /\ pc' \in {"dispatch", "prepare", "paused", "evaluate"}
      /\ UNCHANGED <<checkpoint, epochFile, manifest, onchain, accepted, future, payload, cursor,
                     report, stops, failures, abandoned>>
      /\ paused' \in BOOLEAN /\ pausing' \in BOOLEAN /\ used' \in BOOLEAN /\ runInput' \in BOOLEAN
  BY LocalnetAssumption
     DEF WriteRunInput, PauseChain, StartPool, StartFresh, Resume, chain, pool, directory, IInv,
         TypeOK
<1>2. used' = TRUE /\ manifest = None
  BY DEF WriteRunInput, PauseChain, StartPool, StartFresh, Resume, Resumable, directory, IInv,
         TypeOK, Owned
<1>3. Running' = Running
  BY <1>1 DEF Running
<1>4. TypeOK'
  BY <1>1, <1>3 DEF IInv, TypeOK, Steps, Pausing
<1>5. Held'
  BY <1>1 DEF IInv, Held
<1>6. Owned' /\ Reported' /\ Sound' /\ SubmissionsFromCheckpoints' /\ NoPartialEvidence'
      /\ AuditedManifestIsOnChain'
  BY <1>1, <1>2 DEF IInv, Owned, Reported, Sound, SubmissionsFromCheckpoints, NoPartialEvidence,
                    AuditedManifestIsOnChain, AuditAccepts
<1>7. QED
  BY <1>4, <1>5, <1>6 DEF IInv

\* Where threads of the pool may still run.
Busy == {"evaluate", "drain", "unwind", "leaving"}

\* A thread changes its own future, and the checkpoint if there was none.
LEMMA ThreadStep ==
  ASSUME IInv, NEW e \in Epochs, NEW f \in Futures, NEW p \in Payloads \cup {None},
         future' = [future EXCEPT ![e] = f], future[e] \in {"pending", "running"},
         pc \in Busy,
         payload' = payload \/ payload' = [payload EXCEPT ![e] = p],
         \/ checkpoint' = checkpoint
         \/ p # None /\ checkpoint[e] = None /\ checkpoint' = [checkpoint EXCEPT ![e] = p],
         f = "done" => payload'[e] = checkpoint'[e] /\ payload'[e] \in Payloads,
         Cardinality(Running') <= Workers, failures' \in 0 .. MaxFailures,
         UNCHANGED <<used, runInput, epochFile, manifest, chain, pc, pausing, cursor, report,
                     abandoned, stops>>
  PROVE  IInv'
<1>1. TypeOK'
  BY DEF IInv, TypeOK, chain
<1>2. manifest = None
  BY DEF IInv, Owned, Busy
<1>3. Held'
  <2>1. \A d \in Epochs : d # e => future'[d] = future[d] /\ payload'[d] = payload[d]
                                   /\ checkpoint'[d] = checkpoint[d]
    BY DEF IInv, TypeOK
  <2>2. \A d \in Epochs :
           future'[d] = "done" => payload'[d] = checkpoint'[d] /\ payload'[d] \in Payloads
    BY <2>1 DEF IInv, Held, TypeOK
  <2>3. cursor \in 0 .. N /\ (pc = "evaluate" => e \notin 1 .. cursor) /\ \A d \in 1 .. cursor : d \in Epochs
    BY EpochFacts DEF IInv, Held, TypeOK, Epochs
  <2>4. pc = "evaluate" => \A d \in 1 .. cursor : future'[d] = "done"
    BY <2>1, <2>3 DEF IInv, Held
  <2>5. QED
    BY <2>2, <2>4 DEF Held, Busy
<1>4. SubmissionsFromCheckpoints'
  <2>1. CASE checkpoint' = checkpoint
    BY <2>1 DEF IInv, SubmissionsFromCheckpoints, chain
  <2>2. CASE checkpoint[e] = None
    <3>1. accepted = {}
      BY <2>2, EpochFacts DEF IInv, SubmissionsFromCheckpoints, Sound
    <3>2. QED
      BY <3>1 DEF SubmissionsFromCheckpoints, chain
  <2>3. QED
    BY <2>1, <2>2
<1>5. Owned' /\ Reported' /\ Sound' /\ NoPartialEvidence' /\ AuditedManifestIsOnChain'
  BY <1>2 DEF Busy, IInv, Owned, Reported, Sound, NoPartialEvidence, AuditedManifestIsOnChain, chain
<1>6. QED
  BY <1>1, <1>3, <1>4, <1>5 DEF IInv

LEMMA ThreadActions ==
  ASSUME IInv, NEW e \in Epochs,
         TakeEpoch(e) \/ LoadCheckpoint(e) \/ Evaluate(e) \/ EvaluateRaises(e)
  PROVE  IInv'
<1>1. TakeEpoch(e) \/ future[e] = "running" => pc \in Busy
  BY DEF IInv, Held, TypeOK, Steps, Pausing, Busy, TakeEpoch
<1>2. {"running", "done", "raised"} \subseteq Futures
  BY DEF Futures
<1>3. CASE TakeEpoch(e)
  <2>1. /\ Running \in SUBSET Epochs /\ Running' = Running \cup {e} /\ e \notin Running
        /\ Cardinality(Running) < Workers
    BY <1>3 DEF TakeEpoch, Running, IInv, TypeOK
  <2>2. Cardinality(Running') <= Workers
    BY <2>1, RunningFinite, EpochFacts
  <2>3. QED
    BY <1>1, <1>2, <1>3, <2>2, ThreadStep DEF TakeEpoch, directory, IInv, TypeOK
<1>4. CASE LoadCheckpoint(e) \/ Evaluate(e) \/ EvaluateRaises(e)
  <2>1. /\ future[e] = "running" /\ pc \in Busy
        /\ future' = [future EXCEPT ![e] = "done"] \/ future' = [future EXCEPT ![e] = "raised"]
    BY <1>1, <1>4 DEF LoadCheckpoint, Evaluate, EvaluateRaises, Finish
  <2>2. Running' \subseteq Running
    BY <2>1 DEF Running, IInv, TypeOK
  <2>3. Cardinality(Running') <= Workers
    BY <2>2, FewerRunning DEF IInv
  <2>4. failures' \in 0 .. MaxFailures
    BY <1>4, LocalnetAssumption DEF LoadCheckpoint, Evaluate, EvaluateRaises, Fail, Fine, IInv, TypeOK
  <2>5. UNCHANGED <<used, runInput, epochFile, manifest, chain, pc, pausing, cursor, report,
                    abandoned, stops>>
    BY <1>4 DEF LoadCheckpoint, Evaluate, EvaluateRaises, Finish, directory
  <2>6. CASE LoadCheckpoint(e)
    <3>1. /\ checkpoint[e] \in Payloads /\ checkpoint' = checkpoint
          /\ future' = [future EXCEPT ![e] = "done"]
          /\ payload' = [payload EXCEPT ![e] = checkpoint[e]]
      BY <2>6 DEF LoadCheckpoint, HasCheckpoint, Finish, IInv, TypeOK
    <3>2. payload'[e] = checkpoint'[e] /\ payload'[e] \in Payloads
      BY <3>1 DEF IInv, TypeOK
    <3>3. QED
      BY <1>2, <2>1, <2>3, <2>4, <2>5, <3>1, <3>2, ThreadStep
  <2>7. CASE Evaluate(e)
    <3>1. PICK p \in Payloads : /\ checkpoint' = [checkpoint EXCEPT ![e] = p]
                                /\ future' = [future EXCEPT ![e] = "done"]
                                /\ payload' = [payload EXCEPT ![e] = p]
      BY <2>7 DEF Evaluate, Finish
    <3>2. checkpoint[e] = None /\ p # None
      BY <2>7, EpochFacts DEF Evaluate, HasCheckpoint
    <3>3. payload'[e] = checkpoint'[e] /\ payload'[e] \in Payloads
      BY <3>1 DEF IInv, TypeOK
    <3>4. QED
      BY <1>2, <2>1, <2>3, <2>4, <2>5, <3>1, <3>2, <3>3, ThreadStep
  <2>8. CASE EvaluateRaises(e)
    <3>1. future' = [future EXCEPT ![e] = "raised"] /\ payload' = payload /\ checkpoint' = checkpoint
      BY <2>8 DEF EvaluateRaises, directory
    <3>2. QED
      BY <1>2, <2>1, <2>3, <2>4, <2>5, <3>1, ThreadStep
  <2>9. QED
    BY <1>4, <2>6, <2>7, <2>8
<1>5. QED
  BY <1>3, <1>4

\* Main waits for the results, and leaves the guarded evaluation.
Waiting ==
  \/ AwaitEpoch \/ AwaitRaises \/ (Interrupt /\ ~Exit) \/ Drained \/ Gathered
  \/ Release \/ ReleaseFails

\* What these steps have in common.
LEMMA WaitFrame ==
  ASSUME IInv, Waiting
  PROVE  /\ pc \in Busy \cup {"gathered"} /\ pc' \in Busy \cup {"gathered", "check"}
         /\ pc' = "evaluate" => pc = "evaluate"
         /\ pc' = "gathered" => pc = "evaluate" /\ cursor = N /\ UNCHANGED <<future, cursor>>
         /\ pc' = "check" => pc = "gathered" /\ UNCHANGED <<future, cursor>>
         /\ pc' = "evaluate" => AwaitEpoch
         /\ UNCHANGED <<directory, onchain, accepted, pausing, payload, report>>
         /\ future' \in [Epochs -> Futures]
         /\ \A e \in Epochs : future'[e] = future[e]
                              \/ (future'[e] = "cancelled" /\ pc' = "drain")
         /\ cursor' \in 0 .. N
         /\ stops' \in 0 .. MaxStops /\ failures' \in 0 .. MaxFailures
         /\ paused' \in BOOLEAN /\ abandoned' \in BOOLEAN
<1> USE DEF Busy, Futures, IInv, TypeOK
<1>1. CASE AwaitEpoch
  BY <1>1, EpochFacts DEF AwaitEpoch, chain
<1>2. CASE AwaitRaises
  BY <1>2 DEF AwaitRaises, AbandonPool, chain
<1>3. CASE Interrupt /\ ~Exit
  <2>1. stops' \in 0 .. MaxStops
    BY <1>3, LocalnetAssumption DEF Interrupt
  <2>2. CASE pc = "evaluate" /\ AbandonPool
    BY <2>1, <2>2 DEF AbandonPool, chain
  <2>3. CASE /\ pc = "drain" /\ pc' = "unwind"
             /\ UNCHANGED <<directory, chain, pausing, pool, report, abandoned, failures>>
    BY <2>1, <2>3 DEF chain, pool
  <2>4. CASE /\ Finally /\ Abandon /\ pc' = "leaving"
             /\ UNCHANGED <<directory, chain, pausing, pool, report, failures>>
    <3>1. abandoned' \in BOOLEAN
      BY <2>4, Zenon DEF Abandon
    <3>2. QED
      BY <2>1, <2>4, <3>1 DEF Finally, chain, pool
  <2>5. QED
    BY <1>3, <2>2, <2>3, <2>4 DEF Interrupt
<1>4. CASE Drained \/ Gathered
  BY <1>4 DEF Drained, Gathered, chain, pool
<1>5. CASE Release
  <2>1. paused' \in BOOLEAN /\ abandoned' \in BOOLEAN
    BY <1>5, Zenon DEF Release
  <2>2. QED
    BY <1>5, <2>1 DEF Release, Finally, AfterFinally, pool
<1>6. CASE ReleaseFails
  <2>1. abandoned' \in BOOLEAN
    BY <1>6, Zenon DEF ReleaseFails, Abandon
  <2>2. failures' \in 0 .. MaxFailures
    BY <1>6, LocalnetAssumption DEF ReleaseFails, Fail
  <2>3. QED
    BY <1>6, <2>1, <2>2 DEF ReleaseFails, Finally, pool
<1>7. QED
  BY <1>1, <1>2, <1>3, <1>4, <1>5, <1>6 DEF Waiting

LEMMA WaitActions ==
  ASSUME IInv, Waiting
  PROVE  IInv'
<1>1. /\ pc \in Busy \cup {"gathered"} /\ pc' \in Busy \cup {"gathered", "check"}
      /\ pc' = "evaluate" => pc = "evaluate" /\ AwaitEpoch
      /\ pc' = "gathered" => pc = "evaluate" /\ cursor = N /\ UNCHANGED <<future, cursor>>
      /\ pc' = "check" => pc = "gathered" /\ UNCHANGED <<future, cursor>>
      /\ UNCHANGED <<directory, onchain, accepted, pausing, payload, report>>
  BY WaitFrame
<1>2. /\ future' \in [Epochs -> Futures]
      /\ \A e \in Epochs : future'[e] = future[e] \/ (future'[e] = "cancelled" /\ pc' = "drain")
  BY WaitFrame
<1>3. /\ cursor' \in 0 .. N
      /\ stops' \in 0 .. MaxStops /\ failures' \in 0 .. MaxFailures
      /\ paused' \in BOOLEAN /\ abandoned' \in BOOLEAN
  BY WaitFrame
<1>4. manifest = None
  BY <1>1 DEF IInv, Owned, Busy
<1>5. Running' \subseteq Running
  BY <1>2 DEF Running
<1>6. TypeOK'
  <2>1. Cardinality(Running') <= Workers
    BY <1>5, FewerRunning DEF IInv
  <2>2. QED
    BY <1>1, <1>2, <1>3, <2>1 DEF IInv, TypeOK, Steps, Pausing, Busy, directory
<1>7. Held'
  <2>1. \A e \in Epochs :
           future'[e] = "done" => payload'[e] = checkpoint'[e] /\ payload'[e] \in Payloads
    BY <1>1, <1>2 DEF IInv, Held, directory
  <2>2. pc = "evaluate" => \A e \in 1 .. cursor : future[e] = "done"
    BY DEF IInv, Held
  <2>3. CASE pc' = "evaluate"
    <3>1. cursor' = cursor + 1 /\ future' = future /\ future[cursor + 1] = "done" /\ pc = "evaluate"
      BY <1>1, <2>3 DEF AwaitEpoch
    <3>2. \A e \in 1 .. cursor' : future'[e] = "done"
      BY <2>2, <3>1 DEF IInv, TypeOK
    <3>3. QED
      BY <2>1, <2>3, <3>1, <3>2 DEF Held
  <2>4. CASE pc' \in {"gathered", "check"}
    <3>1. \A e \in Epochs : future'[e] = "done"
      BY <1>1, <2>2, <2>4 DEF IInv, Held, Epochs
    <3>2. QED
      BY <2>1, <2>4, <3>1 DEF Held
  <2>5. CASE pc' \in {"drain", "unwind", "leaving"}
    BY <2>1, <2>5 DEF Held
  <2>6. QED
    BY <1>1, <2>3, <2>4, <2>5 DEF Busy
<1>8. Owned' /\ Reported' /\ Sound' /\ SubmissionsFromCheckpoints' /\ NoPartialEvidence'
      /\ AuditedManifestIsOnChain'
  BY <1>1, <1>4 DEF IInv, Owned, Reported, Sound, SubmissionsFromCheckpoints, NoPartialEvidence,
              AuditedManifestIsOnChain, Busy, directory
<1>9. QED
  BY <1>6, <1>7, <1>8 DEF IInv

\* Nothing has failed: main publishes what the futures hold.
LEMMA PublishActions ==
  ASSUME IInv, StartPublishing \/ PublishEpoch
  PROVE  IInv'
<1>1. /\ pc \in {"check", "publish"} /\ pc' = "publish" /\ manifest = None
      /\ UNCHANGED <<used, runInput, checkpoint, manifest, chain, pausing, future, payload, report,
                     abandoned, stops, failures>>
  BY DEF StartPublishing, PublishEpoch, directory, IInv, Owned
<1>2. Running' = Running
  BY <1>1 DEF Running
<1>3. \A e \in Epochs : future[e] = "done"
  BY <1>1 DEF IInv, Held
<1>4. FailedBatches = {} /\ FailedBatches' = FailedBatches
  BY <1>1 DEF IInv, Held, FailedBatches, StartPublishing, PublishEpoch
<1>5. CASE StartPublishing
  <2>1. cursor' = 0 /\ epochFile' = epochFile
    BY <1>5 DEF StartPublishing, directory
  <2>2. TypeOK'
    BY <1>1, <1>2, <2>1, EpochFacts DEF IInv, TypeOK, Steps, Pausing, chain
  <2>3. Held'
    BY <1>1, <1>3, <1>4, <2>1 DEF IInv, Held
  <2>4. QED
    BY <1>1, <2>1, <2>2, <2>3 DEF IInv, Owned, Reported, Sound, SubmissionsFromCheckpoints,
       NoPartialEvidence, AuditedManifestIsOnChain, chain
<1>6. CASE PublishEpoch
  <2> DEFINE e == cursor + 1
  <2>1. /\ pc = "publish" /\ e \in Epochs /\ cursor' = e /\ cursor' \in 0 .. N
        /\ epochFile' = [epochFile EXCEPT ![e] = payload[e]]
    BY <1>6, EpochFacts DEF PublishEpoch, IInv, TypeOK, Epochs
  <2>2. payload[e] \in Payloads /\ payload[e] # Failed
    BY <1>3, <1>4, <2>1 DEF IInv, Held, FailedBatches
  <2>3. TypeOK'
    BY <1>1, <1>2, <2>1, <2>2 DEF IInv, TypeOK, chain
  <2>4. \A d \in 1 .. cursor' : epochFile'[d] = payload'[d]
    <3>1. \A d \in 1 .. cursor : d # e /\ d \in Epochs /\ epochFile[d] = payload[d]
      BY <2>1, EpochFacts DEF IInv, TypeOK, Held, Epochs
    <3>2. \A d \in 1 .. cursor' : d \in 1 .. cursor \/ d = e
      BY <2>1 DEF IInv, TypeOK
    <3>3. \A d \in Epochs : epochFile'[d] = IF d = e THEN payload[e] ELSE epochFile[d]
      BY <2>1 DEF IInv, TypeOK
    <3> HIDE DEF e
    <3>4. QED
      BY <1>1, <2>1, <3>1, <3>2, <3>3
  <2>5. Held'
    BY <1>1, <1>3, <1>4, <2>4 DEF IInv, Held
  <2>6. \A d \in Epochs : epochFile'[d] # Failed
    BY <2>1, <2>2 DEF IInv, TypeOK, NoPartialEvidence
  <2>7. NoPartialEvidence'
    BY <1>1, <2>6 DEF IInv, NoPartialEvidence, chain
  <2>8. QED
    BY <1>1, <2>3, <2>5, <2>7 DEF IInv, Owned, Reported, Sound, SubmissionsFromCheckpoints,
       AuditedManifestIsOnChain, chain
<1>7. QED
  BY <1>5, <1>6

\* What is submitted is what the checkpoints hold.
LEMMA SubmitAction ==
  ASSUME IInv, SubmitWeights
  PROVE  IInv'
<1>1. /\ pc = "publish" /\ cursor = N /\ pc' = "sign" /\ manifest = None
      /\ UNCHANGED <<directory, paused, pausing, future, payload, cursor, abandoned, stops>>
  BY DEF SubmitWeights, pool, IInv, Owned
<1>2. Running' = Running /\ FailedBatches' = FailedBatches
  BY <1>1 DEF Running, FailedBatches
<1>3. /\ payload \in [Epochs -> Payloads] /\ payload = checkpoint /\ epochFile = payload
      /\ \A e \in Epochs : payload[e] # Failed
  <2>1. \A e \in Epochs : payload[e] = checkpoint[e] /\ payload[e] \in Payloads /\ payload[e] # Failed
    BY <1>1 DEF IInv, Held, FailedBatches
  <2>2. \A e \in Epochs : epochFile[e] = payload[e]
    BY <1>1 DEF IInv, Held, Epochs
  <2>3. QED
    BY <2>1, <2>2 DEF IInv, TypeOK
<1>4. /\ onchain' \in {onchain, payload} /\ accepted' \subseteq accepted \cup {payload}
      /\ (accepted' = accepted \/ payload \in Planned)
      /\ failures' \in 0 .. MaxFailures
  BY LocalnetAssumption DEF SubmitWeights, Fail, Fine, IInv, TypeOK
<1>5. report' \in Reports /\ (report'.success => report'.sent = payload /\ onchain' = payload)
  <2>1. onchain \in [Epochs -> Payloads] \cup {None}
    BY DEF IInv, TypeOK
  <2>2. CASE report' = [sent |-> None, success |-> FALSE, block |-> FALSE, seen |-> onchain]
    BY <2>1, <2>2 DEF Reports
  <2>3. CASE \E b \in BOOLEAN :
               report' = [sent |-> payload, success |-> FALSE, block |-> b, seen |-> onchain]
    BY <1>3, <2>1, <2>3 DEF Reports
  <2>4. CASE /\ onchain' = payload
             /\ report' = [sent |-> payload, success |-> TRUE, block |-> TRUE, seen |-> onchain']
    BY <1>3, <2>4 DEF Reports
  <2>5. QED
    BY <2>2, <2>3, <2>4 DEF SubmitWeights
<1>6. TypeOK'
  <2>1. payload \in [Epochs -> Payloads] /\ accepted' \subseteq [Epochs -> Payloads]
    BY <1>3, <1>4 DEF IInv, TypeOK
  <2>2. QED
    BY <1>1, <1>2, <1>4, <1>5, <2>1 DEF IInv, TypeOK, Steps, Pausing, directory
<1>7. Held'
  BY <1>1, <1>2, <1>3 DEF IInv, Held, directory
<1>8. Sound'
  BY <1>3, <1>4, LocalnetAssumption DEF IInv, Sound
<1>9. SubmissionsFromCheckpoints'
  BY <1>1, <1>3, <1>4 DEF IInv, SubmissionsFromCheckpoints, directory
<1>10. NoPartialEvidence'
  BY <1>1, <1>3, <1>4 DEF IInv, NoPartialEvidence, directory
<1>11. QED
  BY <1>1, <1>5, <1>6, <1>7, <1>8, <1>9, <1>10
     DEF IInv, Owned, Reported, AuditedManifestIsOnChain, directory

LEMMA NextIInv == IInv /\ [Next]_vars => IInv'
<1> SUFFICES ASSUME IInv, [Next]_vars PROVE IInv'
  OBVIOUS
<1>1. CASE UNCHANGED vars
  <2>1. Running' = Running /\ FailedBatches' = FailedBatches
    BY <1>1 DEF Running, FailedBatches, vars, pool
  <2>2. TypeOK' /\ Held'
    BY <1>1, <2>1 DEF IInv, TypeOK, Held, vars, pool, directory, chain
  <2>3. QED
    BY <1>1, <2>2 DEF IInv, Owned, Reported, Sound, SubmissionsFromCheckpoints,
       NoPartialEvidence, AuditedManifestIsOnChain, vars, pool, directory, chain
<1>2. CASE Next
  <2>1. CASE Threads
    BY <2>1, ThreadActions DEF Threads
  <2>2. CASE Main
    BY <2>2, ExitActions, StartActions, WaitActions, PublishActions, SubmitAction DEF Main, Waiting
  <2>3. CASE Operator
    BY <1>1, <2>3, ExitActions, StartActions, WaitActions DEF Operator, Done, Waiting
  <2>4. QED
    BY <1>2, <2>1, <2>2, <2>3 DEF Next
<1>3. QED
  BY <1>1, <1>2

LEMMA Invariant == Spec => []IInv
BY InitIInv, NextIInv, PTL DEF Spec

-----------------------------------------------------------------------------
\* Every variable keeps its type, and no more threads run than there are workers.
THEOREM TypeCorrect == Spec => []TypeOK
<1>1. IInv => TypeOK
  BY DEF IInv
<1>2. QED
  BY <1>1, Invariant, PTL

\* What the chain ever accepted from the directory is what the checkpoints hold.
THEOREM SubmittedFromCheckpoints == Spec => []SubmissionsFromCheckpoints
<1>1. IInv => SubmissionsFromCheckpoints
  BY DEF IInv
<1>2. QED
  BY <1>1, Invariant, PTL

\* A failed batch never reaches the evidence or the weights.
THEOREM EvidenceIsComplete == Spec => []NoPartialEvidence
<1>1. IInv => NoPartialEvidence
  BY DEF IInv
<1>2. QED
  BY <1>1, Invariant, PTL

\* A manifest that passes the audit describes the chain and the epoch files.
THEOREM AuditedIsOnChain == Spec => []AuditedManifestIsOnChain
<1>1. IInv => AuditedManifestIsOnChain
  BY DEF IInv
<1>2. QED
  BY <1>1, Invariant, PTL

\* No exception in a thread and no interrupt of the evaluation leaves the chain
\* paused, and a run that releases it releases it whoever had paused it.
THEOREM PauseIsReleased == Spec => []ChainReleased
<1>1. Init => ChainReleased
  BY DEF Init, ChainReleased
<1>2. ASSUME IInv, ChainReleased, [Next]_vars PROVE ChainReleased'
  <2>1. CASE UNCHANGED <<paused, abandoned, pausing, pc>>
    BY <1>2, <2>1 DEF ChainReleased
  <2>2. CASE Threads
    BY <2>1, <2>2 DEF Threads, TakeEpoch, LoadCheckpoint, Evaluate, EvaluateRaises, Finish, chain
  <2>3. CASE /\ UNCHANGED <<paused, abandoned>> /\ pc \notin Pausing
    BY <1>2, <2>3 DEF ChainReleased
  <2>4. CASE UNCHANGED <<paused, abandoned, pausing>> /\ pc' \in Pausing
    BY <1>2, <2>4 DEF ChainReleased
  <2>5. CASE Abandon /\ (paused' = paused \/ (pausing /\ pc \in Pausing))
    <3>1. ~abandoned' => ~abandoned /\ ~(pausing /\ pc \in Pausing)
      BY <2>5, Zenon DEF Abandon
    <3>2. QED
      BY <1>2, <2>5, <3>1 DEF ChainReleased
  <2>6. CASE Main
    <3>1. CASE PauseChain
      <4>1. paused' = (paused \/ pausing) /\ pc = "prepare" /\ pc' = "paused"
            /\ UNCHANGED <<pausing, abandoned>>
        BY <3>1 DEF PauseChain
      <4>2. QED
        BY <1>2, <4>1 DEF ChainReleased, Pausing
    <3>2. CASE Release
      <4>1. ~abandoned' => ~abandoned \/ pausing
        BY <3>2, Zenon DEF Release
      <4>2. paused' => paused /\ ~pausing
        BY <3>2, Zenon DEF Release
      <4>3. QED
        BY <1>2, <4>1, <4>2 DEF ChainReleased
    <3>3. CASE PauseFails \/ ReleaseFails
      BY <2>5, <3>3 DEF PauseFails, ReleaseFails, Finally, Pausing
    <3>4. CASE StartPool \/ AwaitEpoch \/ AwaitRaises \/ Drained \/ Gathered
      BY <2>4, <3>4 DEF StartPool, AwaitEpoch, AwaitRaises, AbandonPool, Drained, Gathered, chain,
         Pausing
    <3>5. CASE \/ DispatchRaises \/ WriteRunInput \/ Leave \/ RefusePartialEvidence
               \/ StartPublishing \/ PublishEpoch \/ SubmitWeights \/ ChainUnreachable
               \/ SignManifest
      BY <2>3, <3>5 DEF DispatchRaises, WriteRunInput, Leave, RefusePartialEvidence,
         StartPublishing, PublishEpoch, SubmitWeights, ChainUnreachable, SignManifest, chain,
         Pausing
    <3>6. QED
      BY <2>6, <3>1, <3>2, <3>3, <3>4, <3>5 DEF Main
  <2>7. CASE Operator
    <3>1. CASE \E flag \in PauseFlags : StartFresh(flag) \/ Resume(flag)
      BY <2>3, <3>1 DEF StartFresh, Resume, chain, Pausing
    <3>2. CASE Interrupt
      <4>1. CASE \/ pc = "evaluate" /\ AbandonPool
                 \/ /\ pc = "drain" /\ pc' = "unwind"
                    /\ UNCHANGED <<directory, chain, pausing, pool, report, abandoned, failures>>
        BY <2>4, <4>1 DEF AbandonPool, chain, Pausing
      <4>2. CASE Abandon /\ UNCHANGED chain
        BY <2>5, <4>2 DEF chain
      <4>3. QED
        BY <3>2, <4>1, <4>2 DEF Interrupt
    <3>3. CASE Kill
      BY <2>5, <3>3 DEF Kill, chain
    <3>4. CASE Done
      BY <2>1, <3>4 DEF Done, vars, chain
    <3>5. QED
      BY <2>7, <3>1, <3>2, <3>3, <3>4 DEF Operator
  <2>8. QED
    BY <1>2, <2>1, <2>2, <2>6, <2>7 DEF Next, vars, chain
<1>3. QED
  BY <1>1, <1>2, Invariant, PTL DEF Spec

\* A directory with a manifest, and the weights on the chain, stay as they are.
THEOREM CompletionIsFinal == Spec => CompletedIsFinal
<1>1. ASSUME IInv, [Next]_vars, manifest # None
      PROVE  UNCHANGED <<directory, onchain, accepted>>
  <2>1. pc = "idle" /\ used = TRUE /\ \A e \in Epochs : future[e] = "pending"
    BY <1>1 DEF IInv, Owned, Held, TypeOK
  <2>2. CASE Threads
    <3>1. ~Threads
      BY <2>1 DEF Threads, TakeEpoch, LoadCheckpoint, Evaluate, EvaluateRaises
    <3>2. QED
      BY <2>2, <3>1
  <2>3. CASE Main
    <3>1. ~Main
      BY <2>1 DEF Main, DispatchRaises, WriteRunInput, PauseChain, PauseFails, StartPool, AwaitEpoch,
         AwaitRaises, Drained, Gathered, Finally, Release, ReleaseFails, Leave, RefusePartialEvidence, StartPublishing, PublishEpoch, SubmitWeights,
         ChainUnreachable, SignManifest
    <3>2. QED
      BY <2>3, <3>1
  <2>4. CASE Operator
    BY <1>1, <2>1, <2>4 DEF Operator, StartFresh, Resume, Resumable, Interrupt, Kill, Done, vars, chain
  <2>5. QED
    BY <1>1, <2>2, <2>3, <2>4 DEF Next, vars, chain
<1>2. IInv /\ [Next]_vars => [manifest # None => UNCHANGED <<directory, onchain, accepted>>]_vars
  BY <1>1
<1>3. QED
  BY <1>2, Invariant, PTL DEF Spec, CompletedIsFinal

-----------------------------------------------------------------------------
\* Beyond the check all checkpoints hold successful measurements.
LEMMA RecordWhole ==
  ASSUME IInv, pc \in {"publish", "sign"}
  PROVE  /\ ER!Whole /\ payload = checkpoint /\ Outcome = "open" /\ manifest = None
         /\ pc = "sign" \/ cursor = N => epochFile = checkpoint
<1>1. \A e \in Epochs : payload[e] = checkpoint[e] /\ payload[e] \in Values
  BY DEF IInv, Held, FailedBatches, Payloads
<1>2. payload = checkpoint /\ checkpoint \in [Epochs -> Values]
  BY <1>1 DEF IInv, TypeOK
<1>3. manifest = None /\ Outcome = "open"
  BY DEF IInv, Owned, Outcome
<1>4. ASSUME pc = "sign" \/ cursor = N PROVE epochFile = checkpoint
  <2>1. CASE pc = "sign"
    BY <1>2, <2>1 DEF IInv, Held
  <2>2. CASE pc = "publish" /\ cursor = N
    <3>1. \A e \in Epochs : epochFile[e] = payload[e]
      BY <2>2 DEF IInv, Held, Epochs
    <3>2. QED
      BY <1>2, <3>1 DEF IInv, TypeOK
  <2>3. QED
    BY <1>4, <2>1, <2>2
<1>5. QED
  BY <1>2, <1>3, <1>4 DEF ER!Whole

\* What the record rests on beside IInv: the weights on the chain have been
\* accepted from this directory, and an epoch file is a copy of its checkpoint.
Kept ==
  /\ onchain \in accepted \cup {None}
  /\ \A e \in Epochs : epochFile[e] \in {None, checkpoint[e]}

LEMMA KeptInvariant == Spec => []Kept
<1>1. Init => Kept
  BY DEF Init, Kept
<1>2. IInv /\ Kept /\ [Next]_vars => Kept'
  <2> SUFFICES ASSUME IInv, Kept, [Next]_vars PROVE Kept'
    OBVIOUS
  <2>1. CASE UNCHANGED <<checkpoint, epochFile, onchain, accepted>>
    BY <2>1 DEF Kept
  <2>2. CASE SubmitWeights
    BY <2>2 DEF SubmitWeights, directory, Kept
  <2>3. CASE PublishEpoch
    <3>1. /\ payload = checkpoint
          /\ epochFile' = [epochFile EXCEPT ![cursor + 1] = checkpoint[cursor + 1]]
          /\ UNCHANGED <<checkpoint, onchain, accepted>>
      BY <2>3, RecordWhole DEF PublishEpoch, chain
    <3>2. QED
      BY <3>1 DEF Kept, IInv, TypeOK
  <2>4. CASE Threads
    <3>1. CASE \E e \in Epochs : TakeEpoch(e) \/ LoadCheckpoint(e) \/ EvaluateRaises(e)
      BY <2>1, <3>1 DEF TakeEpoch, LoadCheckpoint, EvaluateRaises, Finish, directory, chain
    <3>2. CASE \E e \in Epochs : Evaluate(e)
      <4>1. PICK e \in Epochs, p \in Payloads : /\ checkpoint' = [checkpoint EXCEPT ![e] = p]
                                                /\ checkpoint[e] = None
        BY <3>2 DEF Evaluate, HasCheckpoint
      <4>2. UNCHANGED <<epochFile, onchain, accepted>>
        BY <3>2 DEF Evaluate, Finish, chain
      <4>3. \A d \in Epochs : epochFile[d] \in {None, checkpoint'[d]}
        BY <4>1 DEF Kept, IInv, TypeOK
      <4>4. QED
        BY <4>2, <4>3 DEF Kept
    <3>3. QED
      BY <2>4, <3>1, <3>2 DEF Threads
  <2>5. CASE Main
    BY <2>1, <2>2, <2>3, <2>5 DEF Main, DispatchRaises, WriteRunInput, PauseChain, PauseFails, StartPool, AwaitEpoch,
       AwaitRaises, AbandonPool, Drained, Gathered, Release, ReleaseFails, Leave, RefusePartialEvidence, StartPublishing,
       ChainUnreachable, SignManifest, directory, chain
  <2>6. CASE Operator
    BY <2>1, <2>6 DEF Operator, StartFresh, Resume, Interrupt, AbandonPool, Kill, Done, vars,
       directory, chain
  <2>7. QED
    BY <2>1, <2>4, <2>5, <2>6 DEF Next, vars, directory, chain
<1>3. QED
  BY <1>1, <1>2, Invariant, PTL DEF Spec

\* Before the manifest a step that changes nothing of the record is a stutter.
LEMMA RecordStutter ==
  ASSUME UNCHANGED <<checkpoint, epochFile, onchain, manifest>>
  PROVE  UNCHANGED ER!vars
<1>1. Outcome' = Outcome
  BY DEF Outcome, AuditAccepts
<1>2. QED
  BY <1>1 DEF ER!vars

\* An evaluation without a checkpoint measures the epoch for the first time.
LEMMA RecordEvaluate ==
  ASSUME IInv, NEW e \in Epochs, Evaluate(e)
  PROVE  ER!Measure(e)
<1>1. PICK p \in Payloads : checkpoint' = [checkpoint EXCEPT ![e] = p]
  BY DEF Evaluate
<1>2. /\ checkpoint[e] = None
      /\ UNCHANGED <<epochFile, onchain, manifest>>
  BY DEF Evaluate, HasCheckpoint, Finish, chain
<1>3. manifest = None
  BY DEF IInv, Owned, Held, Evaluate
<1>4. Outcome = "open" /\ Outcome' = "open"
  BY <1>2, <1>3 DEF Outcome
<1>5. QED
  BY <1>1, <1>2, <1>4 DEF ER!Measure, Payloads

\* The epoch file is new, or a killed run has written it from the same
\* checkpoint.
LEMMA RecordPublish ==
  ASSUME IInv, Kept, PublishEpoch
  PROVE  (\E e \in Epochs : ER!Publish(e)) \/ UNCHANGED ER!vars
<1> DEFINE e == cursor + 1
<1>1. e \in Epochs
  BY EpochFacts DEF PublishEpoch, IInv, TypeOK, Epochs
<1>2. /\ ER!Whole /\ payload = checkpoint /\ manifest = None /\ Outcome = "open"
  BY RecordWhole DEF PublishEpoch
<1>3. /\ epochFile' = [epochFile EXCEPT ![e] = checkpoint[e]]
      /\ UNCHANGED <<checkpoint, onchain, manifest>>
  BY <1>2 DEF PublishEpoch, chain
<1>4. Outcome' = "open"
  BY <1>2, <1>3 DEF Outcome
<1>5. CASE epochFile[e] = None
  BY <1>1, <1>2, <1>3, <1>4, <1>5 DEF ER!Publish
<1>6. CASE epochFile[e] # None
  <2>1. epochFile[e] = checkpoint[e]
    BY <1>1, <1>6 DEF Kept
  <2>2. epochFile' = epochFile
    BY <1>1, <1>3, <2>1 DEF IInv, TypeOK
  <2>3. QED
    BY <1>3, <2>2, RecordStutter
<1>7. QED
  BY <1>5, <1>6

\* A submission that is accepted after an earlier one was sends the same
\* vector again.
LEMMA RecordSubmit ==
  ASSUME IInv, Kept, SubmitWeights
  PROVE  ER!Submit \/ UNCHANGED ER!vars
<1>1. /\ ER!Whole /\ payload = checkpoint /\ epochFile = checkpoint
      /\ manifest = None /\ Outcome = "open"
  BY RecordWhole DEF SubmitWeights
<1>2. UNCHANGED <<checkpoint, epochFile, manifest>>
  BY DEF SubmitWeights, directory
<1>3. Outcome' = "open"
  BY <1>1, <1>2 DEF Outcome
<1>4. CASE onchain' = onchain
  BY <1>2, <1>4, RecordStutter
<1>5. CASE onchain = None /\ onchain' # onchain
  <2>1. payload \in Planned /\ onchain' = payload
    BY <1>5 DEF SubmitWeights
  <2>2. QED
    BY <1>1, <1>2, <1>3, <1>5, <2>1 DEF ER!Submit
<1>6. CASE onchain # None /\ onchain' # onchain
  <2>1. onchain = checkpoint
    BY <1>6 DEF Kept, IInv, SubmissionsFromCheckpoints
  <2>2. onchain' = checkpoint
    BY <1>1, <1>6 DEF SubmitWeights
  <2>3. QED
    BY <1>6, <2>1, <2>2
<1>7. QED
  BY <1>4, <1>5, <1>6

\* A manifest is signed over published measurements.
LEMMA RecordSign ==
  ASSUME IInv, SignManifest
  PROVE  ER!Close \/ UNCHANGED ER!vars
<1>1. /\ ER!Whole /\ payload = checkpoint /\ epochFile = checkpoint
      /\ manifest = None /\ Outcome = "open"
  BY RecordWhole DEF SignManifest
<1>2. UNCHANGED <<checkpoint, epochFile, onchain>>
  BY DEF SignManifest, chain
<1>3. CASE manifest' = manifest
  BY <1>2, <1>3, RecordStutter
<1>4. CASE manifest' = report /\ manifest' # manifest
  <2>1. report # None
    BY <1>1, <1>4
  <2>2. CASE AuditAccepts(report)
    <3>1. onchain = checkpoint
      BY <1>1, <2>2 DEF SignManifest, IInv, Reported, AuditAccepts
    <3>2. Outcome' = "certified"
      BY <1>4, <2>1, <2>2 DEF Outcome, AuditAccepts
    <3>3. QED
      BY <1>1, <1>2, <3>1, <3>2 DEF ER!Close
  <2>3. CASE ~AuditAccepts(report)
    <3>1. Outcome' = "disputed"
      BY <1>4, <2>1, <2>3 DEF Outcome, AuditAccepts
    <3>2. QED
      BY <1>1, <1>2, <3>1 DEF ER!Close
  <2>4. QED
    BY <2>2, <2>3
<1>5. QED
  BY <1>3, <1>4 DEF SignManifest

LEMMA RecordNext == IInv /\ Kept /\ [Next]_vars => [ER!Next]_(ER!vars)
<1> SUFFICES ASSUME IInv, Kept, [Next]_vars PROVE ER!Next \/ UNCHANGED ER!vars
  OBVIOUS
<1>1. CASE UNCHANGED <<checkpoint, epochFile, onchain, manifest>>
  BY <1>1, RecordStutter
<1>2. CASE Threads
  <2>1. CASE \E e \in Epochs : Evaluate(e)
    BY <2>1, RecordEvaluate DEF ER!Next
  <2>2. CASE \E e \in Epochs : TakeEpoch(e) \/ LoadCheckpoint(e) \/ EvaluateRaises(e)
    BY <1>1, <2>2 DEF TakeEpoch, LoadCheckpoint, EvaluateRaises, Finish, directory, chain
  <2>3. QED
    BY <1>2, <2>1, <2>2 DEF Threads
<1>3. CASE PublishEpoch \/ SubmitWeights \/ SignManifest
  BY <1>3, RecordPublish, RecordSubmit, RecordSign DEF ER!Next
<1>4. CASE Main
  BY <1>1, <1>3, <1>4 DEF Main, DispatchRaises, WriteRunInput, PauseChain, PauseFails, StartPool, AwaitEpoch,
     AwaitRaises, AbandonPool, Drained, Gathered, Release, ReleaseFails, Leave, RefusePartialEvidence, StartPublishing,
     ChainUnreachable, directory, chain
<1>5. CASE Operator
  BY <1>1, <1>5 DEF Operator, StartFresh, Resume, Interrupt, AbandonPool, Kill, Done, vars,
     directory, chain
<1>6. QED
  BY <1>1, <1>2, <1>4, <1>5 DEF Next, vars, directory, chain

\* The runs over one directory, however they are abandoned, interrupted and
\* resumed, implement the abstract evidence record.
THEOREM RunsImplementEvidenceRecord == Spec => ImplementsEvidenceRecord
<1>1. Init => ER!Init
  BY DEF Init, ER!Init, Outcome
<1>2. QED
  BY <1>1, RecordNext, Invariant, KeptInvariant, PTL DEF Spec, ER!Spec, ImplementsEvidenceRecord
=============================================================================
